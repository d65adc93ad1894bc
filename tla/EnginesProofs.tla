---------------------------- MODULE EnginesProofs ----------------------------
(***************************************************************************)
(* What the scheduler may rely on holds of every engine, for any number of *)
(* runs, processes and mirrors.                                            *)
(***************************************************************************)
EXTENDS Engines, TLAPS

-----------------------------------------------------------------------------
(* What the engines' steps have in common.                                 *)

\* A caller's step, or a new call.
Calling ==
    \/ \E c \in Callers : Resume(c) \/ ResumeIgnored(c)
    \/ Pause \/ Cancel("cancel") \/ Cancel("remove")
    \/ \E c \in Callers :
          \/ \E first \in {"mkdir", "meta", "setup"} : Spawn(c, first)
          \/ CancelContext(c) \/ WaitReturns(c) \/ SettlePause(c) \/ SettleCancel(c)

Working == {"mkdir", "ensure", "open", "fetch", "tail", "past", "finalize",
            "faulty", "refused", "stopped", "meta", "resolve", "copy",
            "setup", "start", "stdout", "stderr", "wait"}

\* Nothing of what the methods keep changes.
CallsKept == UNCHANGED <<cancelOf, ctxDone, pc, call, held, dropped, overlapped>>

\* The goroutine of a run goes on.
MovesOn(r) ==
    /\ \E next \in Working : phase' = [phase EXCEPT ![r] = next]
    /\ UNCHANGED status

\* It comes to its end, without a word if it was cancelled.
Finishes(r) ==
    /\ phase' = [phase EXCEPT ![r] = "ended"]
    /\ \/ r \in ctxDone /\ UNCHANGED <<status, faulted>>
       \/ status' = "complete" /\ UNCHANGED faulted
       \/ status' = "error"

Advances(r) == Live(r) /\ (MovesOn(r) \/ Finishes(r)) /\ CallsKept

\* Something else happens.
Beside == UNCHANGED <<status, phase>> /\ CallsKept

CommonStep == Calling \/ (\E r \in Runs : Advances(r)) \/ Beside

LEMMA HttpCalls ==
    ASSUME Http!NewCall
    PROVE  Calling
<1>1. ASSUME NEW c \in Callers, Http!Resume(c) PROVE Resume(c)
  BY <1>1 DEF Http!Resume, Http!Enter, Http!Inside, Http!Runs, Http!Callers,
              Resume, Enter, Inside, Runs, Callers
<1>2. ASSUME NEW c \in Callers, Http!ResumeIgnored(c) PROVE ResumeIgnored(c)
  BY <1>2 DEF Http!ResumeIgnored, Http!Return, Http!seen, ResumeIgnored, Return, seen
<1>3. Http!Pause => Pause
  BY DEF Http!Pause, Http!Enter, Http!Inside, Http!Callers, Pause, Enter, Inside, Callers
<1>4. ASSUME NEW method, Http!Cancel(method) PROVE Cancel(method)
  BY <1>4 DEF Http!Cancel, Http!Enter, Http!Inside, Http!Callers, Cancel, Enter, Inside, Callers
<1> QED
  BY <1>1, <1>2, <1>3, <1>4 DEF Http!NewCall, Http!Callers, Callers, Calling

LEMMA HttpCaller ==
    ASSUME NEW c \in Callers, Http!CallerStep(c)
    PROVE  Calling
<1>1. ASSUME Http!Spawn(c, "mkdir") PROVE Spawn(c, "mkdir")
  BY <1>1 DEF Http!Spawn, Http!Return, Http!seen, Spawn, Return, seen
<1>2. Http!CancelContext(c) => CancelContext(c)
  BY DEF Http!CancelContext, Http!seen, CancelContext, seen
<1>3. Http!WaitReturns(c) => WaitReturns(c)
  BY DEF Http!WaitReturns, Http!Live, Http!Runs, Http!seen, WaitReturns, Live, Runs, seen
<1>4. Http!SettlePause(c) => SettlePause(c)
  BY DEF Http!SettlePause, Http!Return, Http!seen, SettlePause, Return, seen
<1>5. Http!SettleCancel(c) => SettleCancel(c)
  BY DEF Http!SettleCancel, Http!Return, SettleCancel, Return
<1> QED
  BY <1>1, <1>2, <1>3, <1>4, <1>5 DEF Http!CallerStep, Http!RemoveFiles, Calling

LEMMA MegaCalls ==
    ASSUME Mega!NewCall
    PROVE  Calling
<1>1. ASSUME NEW c \in Callers, Mega!Resume(c) PROVE Resume(c)
  BY <1>1 DEF Mega!Resume, Mega!Enter, Mega!Inside, Mega!Runs, Mega!Callers,
              Resume, Enter, Inside, Runs, Callers
<1>2. ASSUME NEW c \in Callers, Mega!ResumeIgnored(c) PROVE ResumeIgnored(c)
  BY <1>2 DEF Mega!ResumeIgnored, Mega!Return, Mega!seen, ResumeIgnored, Return, seen
<1>3. Mega!Pause => Pause
  BY DEF Mega!Pause, Mega!Enter, Mega!Inside, Mega!Callers, Pause, Enter, Inside, Callers
<1>4. ASSUME NEW method, Mega!Cancel(method) PROVE Cancel(method)
  BY <1>4 DEF Mega!Cancel, Mega!Enter, Mega!Inside, Mega!Callers, Cancel, Enter, Inside, Callers
<1> QED
  BY <1>1, <1>2, <1>3, <1>4 DEF Mega!NewCall, Mega!Callers, Callers, Calling

LEMMA MegaCaller ==
    ASSUME NEW c \in Callers, Mega!CallerStep(c)
    PROVE  Calling
<1>1. ASSUME Mega!Spawn(c, "meta") PROVE Spawn(c, "meta")
  BY <1>1 DEF Mega!Spawn, Mega!Return, Mega!seen, Spawn, Return, seen
<1>2. Mega!CancelContext(c) => CancelContext(c)
  BY DEF Mega!CancelContext, Mega!seen, CancelContext, seen
<1>3. Mega!WaitReturns(c) => WaitReturns(c)
  BY DEF Mega!WaitReturns, Mega!Live, Mega!Runs, Mega!seen, WaitReturns, Live, Runs, seen
<1>4. Mega!SettlePause(c) => SettlePause(c)
  BY DEF Mega!SettlePause, Mega!Return, Mega!seen, SettlePause, Return, seen
<1>5. Mega!SettleCancel(c) => SettleCancel(c)
  BY DEF Mega!SettleCancel, Mega!Return, SettleCancel, Return
<1> QED
  BY <1>1, <1>2, <1>3, <1>4, <1>5 DEF Mega!CallerStep, Mega!ResetCounter, Mega!RemoveFile, Calling

LEMMA ProcessCalls ==
    ASSUME Process!NewCall
    PROVE  Calling
<1>1. ASSUME NEW c \in Callers, Process!Resume(c) PROVE Resume(c)
  BY <1>1 DEF Process!Resume, Process!Enter, Process!Inside, Process!Runs, Process!Callers,
              Resume, Enter, Inside, Runs, Callers
<1>2. ASSUME NEW c \in Callers, Process!ResumeIgnored(c) PROVE ResumeIgnored(c)
  BY <1>2 DEF Process!ResumeIgnored, Process!Return, Process!seen, ResumeIgnored, Return, seen
<1>3. Process!Pause => Pause
  BY DEF Process!Pause, Process!Enter, Process!Inside, Process!Callers, Pause, Enter, Inside, Callers
<1>4. ASSUME NEW method, Process!Cancel(method) PROVE Cancel(method)
  BY <1>4 DEF Process!Cancel, Process!Enter, Process!Inside, Process!Callers, Cancel, Enter, Inside, Callers
<1> QED
  BY <1>1, <1>2, <1>3, <1>4 DEF Process!NewCall, Process!Callers, Callers, Calling

LEMMA ProcessCaller ==
    ASSUME NEW c \in Callers, Process!CallerStep(c)
    PROVE  Calling
<1>1. ASSUME Process!Spawn(c, "setup") PROVE Spawn(c, "setup")
  BY <1>1 DEF Process!Spawn, Process!Return, Process!seen, Spawn, Return, seen
<1>2. Process!CancelContext(c) => CancelContext(c)
  BY DEF Process!CancelContext, Process!seen, CancelContext, seen
<1>3. Process!WaitReturns(c) => WaitReturns(c)
  BY DEF Process!WaitReturns, Process!Live, Process!Runs, Process!seen, WaitReturns, Live, Runs, seen
<1>4. Process!SettlePause(c) => SettlePause(c)
  BY DEF Process!SettlePause, Process!Return, Process!seen, SettlePause, Return, seen
<1>5. Process!SettleCancel(c) => SettleCancel(c)
  BY DEF Process!SettleCancel, Process!Return, SettleCancel, Return
<1> QED
  BY <1>1, <1>2, <1>3, <1>4, <1>5 DEF Process!CallerStep, Calling

LEMMA HttpWork ==
    ASSUME NEW r \in Runs, Http!RunStep(r)
    PROVE  Advances(r)
<1>1. CASE Http!MkDir(r) \/ Http!KnowsSegments(r) \/ Http!Probed(r) \/ Http!ProbeFails(r)
           \/ Http!Finalize(r)
  BY <1>1 DEF Http!MkDir, Http!KnowsSegments, Http!Probed, Http!ProbeFails, Http!Finalize,
     Http!Goto, Http!EndSilently, Http!Complete, Http!FailByFault, Http!Fail, Http!seen,
     Advances, Live, MovesOn, Finishes, CallsKept, Working
<1>2. CASE Http!Open(r) \/ Http!LastBlock(r) \/ Http!Fetched(r)
  BY <1>2 DEF Http!Open, Http!LastBlock, Http!Fetched, Http!Breaks, Http!Goto, Http!seen,
     Advances, Live, MovesOn, CallsKept, Working
<1>4. CASE Http!FetchFails(r)
  BY <1>4 DEF Http!FetchFails, Http!Breaks, Http!Stops, Http!Goto, Http!seen,
     Advances, Live, MovesOn, CallsKept, Working
<1>3. CASE Http!Judge(r)
  BY <1>3 DEF Http!Judge, Http!NextMirror, Http!Goto, Http!EndSilently, Http!FailUnprovoked,
     Http!Fail, Http!seen, Advances, Live, MovesOn, Finishes, CallsKept, Working
<1> QED
  BY <1>1, <1>2, <1>3, <1>4 DEF Http!RunStep

LEMMA MegaWork ==
    ASSUME NEW r \in Runs, Mega!RunStep(r)
    PROVE  Advances(r)
BY DEF Mega!RunStep, Mega!Metadata, Mega!MetadataCancelled, Mega!MkDir, Mega!DownloadFails,
       Mega!Create, Mega!CopyRest, Mega!Goto, Mega!EndSilently,
       Mega!Complete, Mega!FailByFault, Mega!FailUnprovoked, Mega!Fail, Mega!seen,
       Advances, Live, MovesOn, Finishes, CallsKept, Working

LEMMA ProcessWork ==
    ASSUME NEW r \in Runs, Process!RunStep(r)
    PROVE  Advances(r)
BY DEF Process!RunStep, Process!Setup, Process!Start, Process!StartFails, Process!StdoutEnds,
       Process!StderrEnds, Process!Reap, Process!Goto, Process!EndSilently,
       Process!Complete, Process!FailByFault, Process!FailUnprovoked, Process!Fail, Process!seen,
       Advances, Live, MovesOn, Finishes, CallsKept, Working

\* A process does something by itself.
ProcessAlone(r) ==
    \/ \E pipe \in {"stdout", "stderr"} : Process!LongLine(r, pipe)
    \/ Process!Block(r) \/ Process!StartHelper(r) \/ Process!HelperEnds(r)
    \/ Process!Exit(r) \/ Process!Kill(r)

\* Every step of an engine, as far as the methods can tell.
LEMMA StepsCommon ==
    ASSUME Next
    PROVE  CommonStep
<1>1. CASE HttpStep
  <2>1. ASSUME NEW r \in Runs, Http!SaveProgress(r) PROVE Beside
    BY <2>1 DEF Http!SaveProgress, Http!engineVars, Http!seen, Beside, CallsKept
  <2> QED
    BY <1>1, <2>1, HttpCalls, HttpCaller, HttpWork
       DEF HttpStep, Http!Next, Http!Callers, Callers, Http!Runs, Runs, CommonStep
<1>2. CASE MegaStep
  <2>1. ASSUME NEW r \in Runs, Mega!CopyBlock(r) PROVE Beside
    BY <2>1 DEF Mega!CopyBlock, Mega!engineVars, Mega!seen, Beside, CallsKept
  <2> QED
    BY <1>2, <2>1, MegaCalls, MegaCaller, MegaWork
       DEF MegaStep, Mega!Next, Mega!Callers, Callers, Mega!Runs, Runs, CommonStep
<1>3. CASE ProcessStep
  <2>1. ASSUME NEW r \in Runs, ProcessAlone(r) PROVE Beside
    BY <2>1 DEF ProcessAlone, Process!LongLine, Process!Block, Process!StartHelper,
                Process!HelperEnds, Process!Exit, Process!Kill, Process!engineVars,
                Process!seen, Beside, CallsKept
  <2> QED
    BY <1>3, <2>1, ProcessCalls, ProcessCaller, ProcessWork
       DEF ProcessStep, Process!Next, Process!Callers, Callers, Process!Runs, Runs,
           CommonStep, ProcessAlone
<1> QED
  BY <1>1, <1>2, <1>3 DEF Next

-----------------------------------------------------------------------------
(* The inductive invariant of the methods.                                 *)

Phases == {"none", "spawning", "ended"} \cup Working

LifeType ==
    /\ status \in Statuses
    /\ cancelOf \in {0} \cup Runs
    /\ phase \in [Runs -> Phases]
    /\ ctxDone \subseteq Runs
    /\ pc \in [Callers -> {"idle", "spawn", "holding", "waiting", "waited", "gone"}]
    /\ call \in [Callers -> Calls]
    /\ held \in [Callers -> {0} \cup Runs]
    /\ dropped \in BOOLEAN /\ overlapped \in BOOLEAN

\* A goroutine is at work for the run, or is about to be started.
Busy(r) == phase[r] = "spawning" \/ Live(r)

\* Only a run that was begun can be cancelled.
OnlyBegun ==
    /\ cancelOf # 0 => phase[cancelOf] # "none"
    /\ \A c \in Callers : held[c] # 0 => phase[held[c]] # "none"
    /\ \A r \in ctxDone : phase[r] # "none"

\* Who is about to start a goroutine is still inside Resume.
SpawnedFromInside ==
    /\ \A r \in Runs : phase[r] = "spawning" =>
          \E c \in Callers : pc[c] = "spawn" /\ held[c] = r
    /\ \A c \in Callers : pc[c] = "spawn" => held[c] # 0 /\ phase[held[c]] = "spawning"
    /\ \A c, d \in Callers : pc[c] = "spawn" /\ pc[d] = "spawn" /\ held[c] = held[d] => c = d

\* A task that says it runs has a run that nobody has cancelled.
Attended ==
    status = "active" =>
        \/ \E r \in Runs : Busy(r) /\ r \notin ctxDone
        \/ \E c \in Callers : pc[c] \in {"holding", "waiting", "waited"}

\* The calls that come one after the other: one caller at a time, one run at a
\* time and only of an active task, none when the wait for it is over, and none
\* after a Remove.
OneByOne ==
    /\ ~(Inside("scheduler") /\ Inside("adder"))
    /\ \A c \in Callers : pc[c] = "waited" => \A r \in Runs : ~Live(r)
    /\ \A q, r \in Runs : Busy(q) /\ Busy(r) => q = r
    /\ status # "active" => \A r \in Runs : ~Busy(r)
    /\ dropped => status = "cancelled"

LifeInv ==
    /\ LifeType
    /\ OnlyBegun
    /\ SpawnedFromInside
    /\ Attended
    /\ ~overlapped => OneByOne

\* Types.
LEMMA TypeKept ==
    ASSUME LifeInv, CommonStep
    PROVE  LifeType'
<1>1. ASSUME NEW c \in Callers, Resume(c) PROVE LifeType'
  BY <1>1 DEF Resume, Enter, LifeInv, LifeType, Phases, Working, Callers, Calls, Statuses
<1>2. ASSUME NEW c \in Callers, ResumeIgnored(c) PROVE LifeType'
  BY <1>2 DEF ResumeIgnored, Return, seen, LifeInv, LifeType, Phases, Working, Callers, Calls, Statuses
<1>3. ASSUME Pause PROVE LifeType'
  BY <1>3 DEF Pause, Enter, LifeInv, LifeType, Phases, Working, Callers, Calls, Statuses
<1>4. ASSUME NEW method \in {"cancel", "remove"}, Cancel(method) PROVE LifeType'
  BY <1>4 DEF Cancel, Enter, LifeInv, LifeType, Phases, Working, Callers, Calls, Statuses
<1>5. ASSUME NEW c \in Callers, NEW first \in {"mkdir", "meta", "setup"}, Spawn(c, first) PROVE LifeType'
  BY <1>5 DEF Spawn, Return, seen, LifeInv, LifeType, Phases, Working, Callers, Calls, Statuses
<1>6. ASSUME NEW c \in Callers, CancelContext(c) PROVE LifeType'
  BY <1>6 DEF CancelContext, seen, LifeInv, LifeType, Phases, Working, Callers, Calls, Statuses
<1>7. ASSUME NEW c \in Callers, WaitReturns(c) PROVE LifeType'
  BY <1>7 DEF WaitReturns, seen, LifeInv, LifeType, Phases, Working, Callers, Calls, Statuses
<1>8. ASSUME NEW c \in Callers, SettlePause(c) PROVE LifeType'
  BY <1>8 DEF SettlePause, Return, seen, LifeInv, LifeType, Phases, Working, Callers, Calls, Statuses
<1>9. ASSUME NEW c \in Callers, SettleCancel(c) PROVE LifeType'
  BY <1>9 DEF SettleCancel, Return, LifeInv, LifeType, Phases, Working, Callers, Calls, Statuses
<1>10. ASSUME NEW r \in Runs, Advances(r) PROVE LifeType'
  BY <1>10 DEF Advances, MovesOn, Finishes, CallsKept, LifeInv, LifeType, Phases, Working, Callers, Calls, Statuses
<1>11. ASSUME Beside PROVE LifeType'
  BY <1>11 DEF Beside, CallsKept, LifeInv, LifeType, Phases, Working, Callers, Calls, Statuses
<1> QED
  BY <1>1, <1>2, <1>3, <1>4, <1>5, <1>6, <1>7, <1>8, <1>9, <1>10, <1>11 DEF CommonStep, Calling

\* A run is begun once and for all.
LEMMA BegunKept ==
    ASSUME LifeInv, CommonStep
    PROVE  OnlyBegun'
<1>1. ASSUME NEW c \in Callers, Resume(c) PROVE OnlyBegun'
  BY <1>1 DEF Resume, Enter, LifeInv, LifeType, OnlyBegun, Live
<1>2. ASSUME NEW c \in Callers, ResumeIgnored(c) PROVE OnlyBegun'
  BY <1>2 DEF ResumeIgnored, Return, seen, LifeInv, LifeType, OnlyBegun, Live
<1>3. ASSUME Pause PROVE OnlyBegun'
  BY <1>3 DEF Pause, Enter, LifeInv, LifeType, OnlyBegun, Live
<1>4. ASSUME NEW method \in {"cancel", "remove"}, Cancel(method) PROVE OnlyBegun'
  BY <1>4 DEF Cancel, Enter, LifeInv, LifeType, OnlyBegun, Live
<1>5. ASSUME NEW c \in Callers, NEW first \in {"mkdir", "meta", "setup"}, Spawn(c, first) PROVE OnlyBegun'
  BY <1>5 DEF Spawn, Return, seen, LifeInv, LifeType, OnlyBegun, Live
<1>6. ASSUME NEW c \in Callers, CancelContext(c) PROVE OnlyBegun'
  BY <1>6 DEF CancelContext, seen, LifeInv, LifeType, OnlyBegun, Live
<1>7. ASSUME NEW c \in Callers, WaitReturns(c) PROVE OnlyBegun'
  BY <1>7 DEF WaitReturns, seen, LifeInv, LifeType, OnlyBegun, Live
<1>8. ASSUME NEW c \in Callers, SettlePause(c) PROVE OnlyBegun'
  BY <1>8 DEF SettlePause, Return, seen, LifeInv, LifeType, OnlyBegun, Live
<1>9. ASSUME NEW c \in Callers, SettleCancel(c) PROVE OnlyBegun'
  BY <1>9 DEF SettleCancel, Return, LifeInv, LifeType, OnlyBegun, Live
<1>10. ASSUME NEW r \in Runs, Advances(r) PROVE OnlyBegun'
  BY <1>10 DEF Advances, MovesOn, Finishes, CallsKept, LifeInv, LifeType, OnlyBegun, Working
<1>11. ASSUME Beside PROVE OnlyBegun'
  BY <1>11 DEF Beside, CallsKept, LifeInv, LifeType, OnlyBegun, Live
<1> QED
  BY <1>1, <1>2, <1>3, <1>4, <1>5, <1>6, <1>7, <1>8, <1>9, <1>10, <1>11 DEF CommonStep, Calling

\* A Resume that has unlocked goes on to its goroutine.
LEMMA SpawnedKept ==
    ASSUME LifeInv, CommonStep
    PROVE  SpawnedFromInside'
<1>1. ASSUME NEW c \in Callers, Resume(c) PROVE SpawnedFromInside'
  <2>1. PICK r \in Runs :
            /\ phase[r] = "none"
            /\ phase' = [phase EXCEPT ![r] = "spawning"]
            /\ pc[c] = "idle"
            /\ pc' = [pc EXCEPT ![c] = "spawn"]
            /\ held' = [held EXCEPT ![c] = r]
    BY <1>1 DEF Resume, Enter
  <2>2. /\ pc'[c] = "spawn" /\ held'[c] = r /\ r # 0 /\ phase'[r] = "spawning"
        /\ \A d \in Callers \ {c} : pc'[d] = pc[d] /\ held'[d] = held[d]
        /\ \A q \in Runs \ {r} : phase'[q] = phase[q]
    BY <2>1 DEF LifeInv, LifeType, Runs
  <2>3. \A q \in Runs : phase'[q] = "spawning" =>
            \E d \in Callers : pc'[d] = "spawn" /\ held'[d] = q
    <3> SUFFICES ASSUME NEW q \in Runs, phase'[q] = "spawning"
                 PROVE  \E d \in Callers : pc'[d] = "spawn" /\ held'[d] = q
      OBVIOUS
    <3>1. CASE q = r
      BY <2>2, <3>1
    <3>2. CASE q # r
      <4>1. PICK d \in Callers : pc[d] = "spawn" /\ held[d] = q
        BY <2>2, <3>2 DEF LifeInv, SpawnedFromInside
      <4>2. d # c
        BY <2>1, <4>1
      <4> QED
        BY <2>2, <4>1, <4>2
    <3> QED
      BY <3>1, <3>2
  <2>4. \A d \in Callers : pc'[d] = "spawn" => held'[d] # 0 /\ phase'[held'[d]] = "spawning"
    <3> SUFFICES ASSUME NEW d \in Callers \ {c}, pc[d] = "spawn"
                 PROVE  held[d] # 0 /\ phase'[held[d]] = "spawning"
      BY <2>2
    <3>1. held[d] # 0 /\ phase[held[d]] = "spawning"
      BY DEF LifeInv, SpawnedFromInside
    <3>2. held[d] \in Runs
      BY <3>1 DEF LifeInv, LifeType
    <3>3. held[d] # r
      BY <2>1, <3>1
    <3> QED
      BY <2>2, <3>1, <3>2, <3>3
  <2>5. \A d \in Callers \ {c} : pc[d] = "spawn" => held[d] # r
    BY <2>1 DEF LifeInv, SpawnedFromInside
  <2>6. ASSUME NEW d \in Callers, NEW e \in Callers,
               pc'[d] = "spawn", pc'[e] = "spawn", held'[d] = held'[e]
        PROVE  d = e
    BY <2>2, <2>5, <2>6 DEF LifeInv, SpawnedFromInside
  <2> QED
    BY <2>3, <2>4, <2>6 DEF SpawnedFromInside
<1>2. ASSUME NEW c \in Callers, ResumeIgnored(c) PROVE SpawnedFromInside'
  BY <1>2 DEF ResumeIgnored, Return, seen, LifeInv, LifeType, SpawnedFromInside, Live, Working
<1>3. ASSUME Pause PROVE SpawnedFromInside'
  BY <1>3 DEF Pause, Enter, LifeInv, LifeType, SpawnedFromInside, Live, Working
<1>4. ASSUME NEW method \in {"cancel", "remove"}, Cancel(method) PROVE SpawnedFromInside'
  BY <1>4 DEF Cancel, Enter, LifeInv, LifeType, SpawnedFromInside, Live, Working
<1>5. ASSUME NEW c \in Callers, NEW first \in {"mkdir", "meta", "setup"}, Spawn(c, first) PROVE SpawnedFromInside'
  BY <1>5 DEF Spawn, Return, seen, LifeInv, LifeType, SpawnedFromInside, Live, Working
<1>6. ASSUME NEW c \in Callers, CancelContext(c) PROVE SpawnedFromInside'
  BY <1>6 DEF CancelContext, seen, LifeInv, LifeType, SpawnedFromInside, Live, Working
<1>7. ASSUME NEW c \in Callers, WaitReturns(c) PROVE SpawnedFromInside'
  BY <1>7 DEF WaitReturns, seen, LifeInv, LifeType, SpawnedFromInside, Live, Working
<1>8. ASSUME NEW c \in Callers, SettlePause(c) PROVE SpawnedFromInside'
  BY <1>8 DEF SettlePause, Return, seen, LifeInv, LifeType, SpawnedFromInside, Live, Working
<1>9. ASSUME NEW c \in Callers, SettleCancel(c) PROVE SpawnedFromInside'
  BY <1>9 DEF SettleCancel, Return, LifeInv, LifeType, SpawnedFromInside, Live, Working
<1>10. ASSUME NEW r \in Runs, Advances(r) PROVE SpawnedFromInside'
  BY <1>10 DEF Advances, MovesOn, Finishes, CallsKept, LifeInv, LifeType, SpawnedFromInside, Live, Working
<1>11. ASSUME Beside PROVE SpawnedFromInside'
  BY <1>11 DEF Beside, CallsKept, LifeInv, LifeType, SpawnedFromInside, Live, Working
<1> QED
  BY <1>1, <1>2, <1>3, <1>4, <1>5, <1>6, <1>7, <1>8, <1>9, <1>10, <1>11 DEF CommonStep, Calling

\* Somebody is there for an active task.
LEMMA AttendedKept ==
    ASSUME LifeInv, CommonStep
    PROVE  Attended'
<1>1. ASSUME NEW c \in Callers, Resume(c) PROVE Attended'
  BY <1>1 DEF Resume, Enter, LifeInv, LifeType, OnlyBegun, Attended, Busy, Live, Working, Callers
<1>2. ASSUME NEW c \in Callers, ResumeIgnored(c) PROVE Attended'
  BY <1>2 DEF ResumeIgnored, Return, seen, LifeInv, LifeType, OnlyBegun, Attended, Busy, Live, Working, Callers
<1>3. ASSUME Pause PROVE Attended'
  BY <1>3 DEF Pause, Enter, LifeInv, LifeType, OnlyBegun, Attended, Busy, Live, Working, Callers
<1>4. ASSUME NEW method \in {"cancel", "remove"}, Cancel(method) PROVE Attended'
  BY <1>4 DEF Cancel, Enter, LifeInv, LifeType, OnlyBegun, Attended, Busy, Live, Working, Callers
<1>5. ASSUME NEW c \in Callers, NEW first \in {"mkdir", "meta", "setup"}, Spawn(c, first) PROVE Attended'
  BY <1>5 DEF Spawn, Return, seen, LifeInv, LifeType, OnlyBegun, Attended, Busy, Live, Working, Callers
<1>6. ASSUME NEW c \in Callers, CancelContext(c) PROVE Attended'
  BY <1>6 DEF CancelContext, seen, LifeInv, LifeType, OnlyBegun, Attended, Busy, Live, Working, Callers
<1>7. ASSUME NEW c \in Callers, WaitReturns(c) PROVE Attended'
  BY <1>7 DEF WaitReturns, seen, LifeInv, LifeType, OnlyBegun, Attended, Busy, Live, Working, Callers
<1>8. ASSUME NEW c \in Callers, SettlePause(c) PROVE Attended'
  BY <1>8 DEF SettlePause, Return, seen, LifeInv, LifeType, OnlyBegun, Attended, Busy, Live, Working, Callers
<1>9. ASSUME NEW c \in Callers, SettleCancel(c) PROVE Attended'
  BY <1>9 DEF SettleCancel, Return, LifeInv, LifeType, OnlyBegun, Attended, Busy, Live, Working, Callers
<1>10. ASSUME NEW r \in Runs, Advances(r) PROVE Attended'
  BY <1>10 DEF Advances, MovesOn, Finishes, CallsKept, LifeInv, LifeType, OnlyBegun, Attended, Busy, Live, Working, Callers
<1>11. ASSUME Beside PROVE Attended'
  BY <1>11 DEF Beside, CallsKept, LifeInv, LifeType, OnlyBegun, Attended, Busy, Live, Working, Callers
<1> QED
  BY <1>1, <1>2, <1>3, <1>4, <1>5, <1>6, <1>7, <1>8, <1>9, <1>10, <1>11 DEF CommonStep, Calling

\* Calls that do not overlap.
LEMMA OneByOneKept ==
    ASSUME LifeInv, CommonStep
    PROVE  (~overlapped => OneByOne)'
<1>1. ASSUME NEW c \in Callers, Resume(c) PROVE (~overlapped => OneByOne)'
  <2> SUFFICES ASSUME ~overlapped'
               PROVE  OneByOne'
    OBVIOUS
  <2>1. PICK r \in Runs :
            /\ phase' = [phase EXCEPT ![r] = "spawning"]
            /\ pc' = [pc EXCEPT ![c] = "spawn"]
            /\ overlapped' = (overlapped \/ \E d \in Callers : Inside(d))
            /\ dropped' = dropped
            /\ status' = "active" /\ status \notin {"active", "cancelled"}
    BY <1>1 DEF Resume, Enter
  <2>2. OneByOne /\ \A d \in Callers : ~Inside(d)
    BY <2>1 DEF LifeInv
  <2>3. \A d \in Callers \ {c} : pc'[d] = pc[d] /\ pc[d] \in {"idle", "gone"}
    BY <2>1, <2>2 DEF LifeInv, LifeType, Inside
  <2>4. pc'[c] = "spawn"
    BY <2>1 DEF LifeInv, LifeType
  <2>5. \A q \in Runs \ {r} : phase'[q] = phase[q] /\ ~Busy(q)
    BY <2>1, <2>2 DEF LifeInv, LifeType, OneByOne
  <2>6. phase'[r] = "spawning"
    BY <2>1 DEF LifeInv, LifeType
  <2>7. (~(Inside("scheduler") /\ Inside("adder")))'
    BY <2>3 DEF Inside, Callers
  <2>8. \A d \in Callers : pc'[d] # "waited"
    BY <2>3, <2>4
  <2>9. \A q \in Runs \ {r} : ~Busy(q)'
    BY <2>5 DEF Busy, Live
  <2>10. ~dropped'
    BY <2>1, <2>2 DEF OneByOne
  <2> QED
    BY <2>1, <2>7, <2>8, <2>9, <2>10 DEF OneByOne
<1>2. ASSUME NEW c \in Callers, ResumeIgnored(c) PROVE (~overlapped => OneByOne)'
  BY <1>2 DEF ResumeIgnored, Return, seen, LifeInv, LifeType, SpawnedFromInside, OneByOne, Busy, Live, Working, Inside, Callers
<1>3. ASSUME Pause PROVE (~overlapped => OneByOne)'
  BY <1>3 DEF Pause, Enter, LifeInv, LifeType, SpawnedFromInside, OneByOne, Busy, Live, Working, Inside, Callers
<1>4. ASSUME NEW method \in {"cancel", "remove"}, Cancel(method) PROVE (~overlapped => OneByOne)'
  BY <1>4 DEF Cancel, Enter, LifeInv, LifeType, SpawnedFromInside, OneByOne, Busy, Live, Working, Inside, Callers
<1>5. ASSUME NEW c \in Callers, NEW first \in {"mkdir", "meta", "setup"}, Spawn(c, first) PROVE (~overlapped => OneByOne)'
  BY <1>5 DEF Spawn, Return, seen, LifeInv, LifeType, SpawnedFromInside, OneByOne, Busy, Live, Working, Inside, Callers
<1>6. ASSUME NEW c \in Callers, CancelContext(c) PROVE (~overlapped => OneByOne)'
  BY <1>6 DEF CancelContext, seen, LifeInv, LifeType, SpawnedFromInside, OneByOne, Busy, Live, Working, Inside, Callers
<1>7. ASSUME NEW c \in Callers, WaitReturns(c) PROVE (~overlapped => OneByOne)'
  BY <1>7 DEF WaitReturns, seen, LifeInv, LifeType, SpawnedFromInside, OneByOne, Busy, Live, Working, Inside, Callers
<1>8. ASSUME NEW c \in Callers, SettlePause(c) PROVE (~overlapped => OneByOne)'
  BY <1>8 DEF SettlePause, Return, seen, LifeInv, LifeType, SpawnedFromInside, OneByOne, Busy, Live, Working, Inside, Callers
<1>9. ASSUME NEW c \in Callers, SettleCancel(c) PROVE (~overlapped => OneByOne)'
  BY <1>9 DEF SettleCancel, Return, LifeInv, LifeType, SpawnedFromInside, OneByOne, Busy, Live, Working, Inside, Callers
<1>10. ASSUME NEW r \in Runs, Advances(r) PROVE (~overlapped => OneByOne)'
  BY <1>10 DEF Advances, MovesOn, Finishes, CallsKept, LifeInv, LifeType, SpawnedFromInside, OneByOne, Busy, Live, Working, Inside, Callers
<1>11. ASSUME Beside PROVE (~overlapped => OneByOne)'
  BY <1>11 DEF Beside, CallsKept, LifeInv, LifeType, SpawnedFromInside, OneByOne, Busy, Live, Working, Inside, Callers
<1> QED
  BY <1>1, <1>2, <1>3, <1>4, <1>5, <1>6, <1>7, <1>8, <1>9, <1>10, <1>11 DEF CommonStep, Calling

LEMMA LifeKept ==
    ASSUME LifeInv, [Next]_vars
    PROVE  LifeInv'
<1>1. CASE Next
  BY <1>1, StepsCommon, TypeKept, BegunKept, SpawnedKept, AttendedKept, OneByOneKept DEF LifeInv
<1>2. CASE UNCHANGED vars
  BY <1>2 DEF vars, engineVars, seen, LifeInv, LifeType, OnlyBegun, SpawnedFromInside, Attended,
              OneByOne, Busy, Live, Inside
<1> QED
  BY <1>1, <1>2

LEMMA LifeFromInit ==
    ASSUME Init
    PROVE  LifeInv
<1>1. /\ status = "pending" /\ cancelOf = 0 /\ ctxDone = {}
      /\ phase = [r \in Runs |-> "none"] /\ pc = [c \in Callers |-> "idle"]
      /\ call = [c \in Callers |-> "none"] /\ held = [c \in Callers |-> 0]
      /\ dropped = FALSE /\ overlapped = FALSE
  BY DEF Init, Http!Init, Http!EngineInit, Http!Runs, Http!Callers, Runs, Callers
<1>2. LifeType
  BY <1>1 DEF LifeType, Statuses, Phases, Calls
<1>3. OnlyBegun /\ SpawnedFromInside /\ Attended
  BY <1>1 DEF OnlyBegun, SpawnedFromInside, Attended
<1>4. OneByOne
  BY <1>1 DEF OneByOne, Busy, Live, Inside, Callers
<1> QED
  BY <1>2, <1>3, <1>4 DEF LifeInv

\* The life of a task, of whatever engine: who starts, stops and ends its runs.
THEOREM LifeHeld == Spec => []LifeInv
BY LifeFromInit, LifeKept, PTL DEF Spec

\* When Pause or Cancel has returned nothing of the task is at work, whichever
\* engine it has, if calls do not overlap.
THEOREM StillOnceStopped == Spec => []StoppedIsStill
<1>1. LifeInv => StoppedIsStill
  BY DEF LifeInv, OneByOne, Busy, StoppedIsStill
<1> QED
  BY <1>1, LifeHeld, PTL

\* An active task has a goroutine, or somebody who is about to give it another
\* status, however calls overlap.
THEOREM ActiveIsAttended == Spec => []ActiveIsWorkedOn
<1>1. LifeInv => ActiveIsWorkedOn
  BY DEF LifeInv, Attended, Busy, ActiveIsWorkedOn
<1> QED
  BY <1>1, LifeHeld, PTL

-----------------------------------------------------------------------------
(* Whom a stop reaches.                                                    *)

\* A stop is under way, and the scheduler is inside Pause or Cancel.
Stopping == pc["scheduler"] \in {"holding", "waiting", "waited"}

\* The only run at work is the one whose context Task.cancel cancels; a stop
\* has read no older cancel, and when it waits that context is done.
LastIsCancelled ==
    /\ \A r \in Runs : Busy(r) => r = cancelOf
    /\ Stopping => held["scheduler"] = cancelOf
    /\ pc["scheduler"] \in {"waiting", "waited"} => cancelOf \in ctxDone \cup {0}

LastInv == ~overlapped => LastIsCancelled

\* Of two callers one at most is inside; who is inside may have spawned nothing.
LEMMA NobodyStarts ==
    ASSUME LifeInv, ~overlapped, Stopping, NEW r \in Runs
    PROVE  phase[r] # "spawning"
<1>1. Inside("scheduler") /\ pc["scheduler"] # "spawn"
  BY DEF Stopping, Inside
<1>2. pc["adder"] # "spawn"
  BY <1>1 DEF LifeInv, OneByOne, Inside
<1> QED
  BY <1>1, <1>2 DEF LifeInv, SpawnedFromInside, Callers

LEMMA LastKeptByResume ==
    ASSUME LifeInv, LastInv, NEW c \in Callers, Resume(c)
    PROVE  LastInv'
<1> SUFFICES ASSUME ~overlapped'
             PROVE  LastIsCancelled'
  BY DEF LastInv
<1>1. PICK r \in Runs :
          /\ phase' = [phase EXCEPT ![r] = "spawning"]
          /\ pc' = [pc EXCEPT ![c] = "spawn"]
          /\ overlapped' = (overlapped \/ \E d \in Callers : Inside(d))
          /\ cancelOf' = r
          /\ status # "active"
  BY DEF Resume, Enter
<1>2. ~overlapped /\ ~Inside("scheduler")
  BY <1>1 DEF Callers
<1>3. \A q \in Runs \ {r} : ~Busy(q)'
  <2>1. \A q \in Runs \ {r} : phase'[q] = phase[q] /\ ~Busy(q)
    BY <1>1, <1>2 DEF LifeInv, LifeType, OneByOne
  <2> QED
    BY <2>1 DEF Busy, Live
<1>4. pc'["scheduler"] \in {"idle", "gone", "spawn"}
  BY <1>1, <1>2 DEF LifeInv, LifeType, Inside, Callers
<1> QED
  BY <1>1, <1>3, <1>4 DEF LastIsCancelled, Stopping

LEMMA LastKeptByStop ==
    ASSUME LifeInv, LastInv, NEW method,
           Enter("scheduler", method, cancelOf, "holding"),
           UNCHANGED <<status, cancelOf, phase, ctxDone, dropped, faulted>>
    PROVE  LastInv'
<1> SUFFICES ASSUME ~overlapped'
             PROVE  LastIsCancelled'
  BY DEF LastInv
<1>1. ~overlapped
  BY DEF Enter
<1>2. pc'["scheduler"] = "holding" /\ held'["scheduler"] = cancelOf
  BY DEF Enter, LifeInv, LifeType, Callers
<1>3. \A r \in Runs : Busy(r)' => r = cancelOf
  BY <1>1 DEF LastInv, LastIsCancelled, Busy, Live
<1> QED
  BY <1>2, <1>3 DEF LastIsCancelled

LEMMA LastKeptBySpawn ==
    ASSUME LifeInv, LastInv, NEW c \in Callers, NEW first \in {"mkdir", "meta", "setup"},
           Spawn(c, first)
    PROVE  LastInv'
<1> SUFFICES ASSUME ~overlapped
             PROVE  LastIsCancelled'
  BY DEF LastInv, Spawn, seen
<1>1. LastIsCancelled
  BY DEF LastInv
<1>2. held[c] \in Runs /\ phase[held[c]] = "spawning"
  BY DEF LifeInv, LifeType, SpawnedFromInside, Spawn
<1>3. \A r \in Runs : Busy(r)' => r = cancelOf
  <2> SUFFICES ASSUME NEW r \in Runs, Busy(r)'
               PROVE  Busy(r)
    BY <1>1 DEF LastIsCancelled
  <2>1. CASE r = held[c]
    BY <1>2, <2>1 DEF Busy
  <2>2. CASE r # held[c]
    BY <1>2, <2>2 DEF Spawn, LifeInv, LifeType, Busy, Live
  <2> QED
    BY <2>1, <2>2
<1>4. CASE c = "scheduler"
  <2>1. pc'["scheduler"] = "idle"
    BY <1>4 DEF Spawn, Return, LifeInv, LifeType
  <2> QED
    BY <1>3, <2>1 DEF LastIsCancelled, Stopping, Spawn
<1>5. CASE c # "scheduler"
  <2>1. pc'["scheduler"] = pc["scheduler"] /\ held'["scheduler"] = held["scheduler"]
    BY <1>5 DEF Spawn, Return, LifeInv, LifeType, Callers
  <2> QED
    BY <1>1, <1>3, <2>1 DEF LastIsCancelled, Stopping, Spawn
<1> QED
  BY <1>4, <1>5

LEMMA LastKeptByCancel ==
    ASSUME LifeInv, LastInv, NEW c \in Callers, CancelContext(c)
    PROVE  LastInv'
<1> SUFFICES ASSUME ~overlapped
             PROVE  LastIsCancelled'
  BY DEF LastInv, CancelContext, seen
<1>1. LastIsCancelled
  BY DEF LastInv
<1>2. \A r \in Runs : Busy(r)' => r = cancelOf
  BY <1>1 DEF LastIsCancelled, CancelContext, Busy, Live
<1>3. CASE c = "scheduler"
  <2>1. held["scheduler"] = cancelOf
    BY <1>1, <1>3 DEF LastIsCancelled, Stopping, CancelContext
  <2>2. cancelOf \in ctxDone' \cup {0}
    BY <1>3, <2>1 DEF CancelContext
  <2> QED
    BY <1>2, <2>1, <2>2 DEF LastIsCancelled, CancelContext
<1>4. CASE c # "scheduler"
  <2>1. pc'["scheduler"] = pc["scheduler"]
    BY <1>4 DEF CancelContext, LifeInv, LifeType, Callers
  <2> QED
    BY <1>1, <1>2, <2>1 DEF LastIsCancelled, Stopping, CancelContext
<1> QED
  BY <1>3, <1>4

LEMMA LastKeptByWait ==
    ASSUME LifeInv, LastInv, NEW c \in Callers, WaitReturns(c)
    PROVE  LastInv'
<1>1. pc["scheduler"]' \in {"waiting", "waited"} => pc["scheduler"] \in {"waiting", "waited"}
  BY DEF WaitReturns, LifeInv, LifeType, Callers
<1>2. Stopping' => Stopping
  BY DEF WaitReturns, Stopping, LifeInv, LifeType, Callers
<1>3. \A r \in Runs : Busy(r)' = Busy(r)
  BY DEF WaitReturns, Busy, Live
<1> QED
  BY <1>1, <1>2, <1>3 DEF LastInv, LastIsCancelled, WaitReturns, seen

LEMMA LastKeptByReturn ==
    ASSUME LifeInv, LastInv, NEW c \in Callers, Return(c),
           UNCHANGED <<cancelOf, phase, ctxDone, overlapped>>
    PROVE  LastInv'
<1>1. Stopping' => Stopping /\ held'["scheduler"] = held["scheduler"]
                            /\ pc'["scheduler"] = pc["scheduler"]
  BY DEF Return, Stopping, LifeInv, LifeType, Callers
<1>2. \A r \in Runs : Busy(r)' = Busy(r)
  BY DEF Busy, Live
<1>3. pc["scheduler"]' \in {"waiting", "waited"} => Stopping'
  BY DEF Stopping
<1> QED
  BY <1>1, <1>2, <1>3 DEF LastInv, LastIsCancelled

LEMMA LastKeptByRun ==
    ASSUME LifeInv, LastInv, NEW r \in Runs, Advances(r)
    PROVE  LastInv'
<1>1. \A q \in Runs : Busy(q)' => Busy(q)
  BY DEF Advances, MovesOn, Finishes, LifeInv, LifeType, Busy, Live
<1> QED
  BY <1>1 DEF LastInv, LastIsCancelled, Stopping, Advances, CallsKept

LEMMA LastKept ==
    ASSUME LifeInv, LastInv, [Next]_vars
    PROVE  LastInv'
<1>1. ASSUME NEW c \in Callers, ResumeIgnored(c) \/ SettlePause(c) \/ SettleCancel(c)
      PROVE  LastInv'
  BY <1>1, LastKeptByReturn DEF ResumeIgnored, SettlePause, SettleCancel, seen
<1>2. ASSUME Pause \/ Cancel("cancel") \/ Cancel("remove") PROVE LastInv'
  BY <1>2, LastKeptByStop DEF Pause, Cancel
<1>3. ASSUME Beside \/ UNCHANGED vars PROVE LastInv'
  BY <1>3 DEF Beside, CallsKept, vars, engineVars, seen, LastInv, LastIsCancelled, Stopping,
              Busy, Live
<1>4. CASE Next
  BY <1>1, <1>2, <1>3, <1>4, StepsCommon, LastKeptByResume, LastKeptBySpawn, LastKeptByCancel,
     LastKeptByWait, LastKeptByRun
     DEF CommonStep, Calling
<1> QED
  BY <1>3, <1>4

\* While a stop waits (task.go:186 and 204 of httpengine, and their like), no
\* goroutine is about to start and each that is at work has its context done:
\* the wait is for nobody who was not told.  It is the safety half of StopReturns.
StopReachesAll ==
    ~overlapped /\ pc["scheduler"] = "waiting" =>
        \A r \in Runs : phase[r] # "spawning" /\ (Live(r) => r \in ctxDone)

\* Pause and Cancel wait only for a goroutine that has been told to stop.
THEOREM StopsReachAll == Spec => []StopReachesAll
<1>1. Init => LastInv
  BY DEF Init, Http!Init, Http!EngineInit, Http!Runs, Http!Callers, Runs, Callers,
         LastInv, LastIsCancelled, Stopping, Busy, Live
<1>2. LifeInv /\ LastInv => StopReachesAll
  <2> SUFFICES ASSUME LifeInv, LastInv, ~overlapped, pc["scheduler"] = "waiting",
                      NEW r \in Runs
               PROVE  phase[r] # "spawning" /\ (Live(r) => r \in ctxDone)
    BY DEF StopReachesAll
  <2>1. phase[r] # "spawning"
    BY NobodyStarts DEF Stopping
  <2>2. Live(r) => r \in ctxDone
    BY DEF LastInv, LastIsCancelled, Busy, Runs
  <2> QED
    BY <2>1, <2>2
<1> QED
  BY <1>1, <1>2, LastKept, LifeHeld, PTL DEF Spec

-----------------------------------------------------------------------------
(* The contract.                                                           *)

\* Every step of a task is one of its contract, or none for it.
LEMMA StepsContracted ==
    ASSUME LifeInv, LifeInv', [Next]_vars
    PROVE  [Contract!Next]_(IF overlapped THEN "cancelled" ELSE status)
<1>1. CASE UNCHANGED vars
  BY <1>1 DEF vars, engineVars, seen
<1>2. CASE overlapped'
  BY <1>2 DEF Contract!Next, Contract!Cancel
<1>3. CASE Next /\ ~overlapped'
  <2>1. CommonStep
    BY <1>3, StepsCommon
  <2>2. SUFFICES ~overlapped => \/ status' = status
                                \/ status \in {"pending", "paused", "error"} /\ status' = "active"
                                \/ status = "active" /\ status' \in {"paused", "complete", "error"}
                                \/ status' = "cancelled"
    <3>1. CASE overlapped
      <4>1. overlapped'
        BY <2>1, <3>1 DEF CommonStep, Calling, Resume, ResumeIgnored, Pause, Cancel, Enter, Spawn,
              CancelContext, WaitReturns, SettlePause, SettleCancel, Return, seen, Advances,
              Beside, CallsKept
      <4> QED
        BY <4>1, <1>3
    <3>2. CASE ~overlapped
      BY <1>3, <2>2, <3>2
         DEF Contract!Next, Contract!Start, Contract!Stop, Contract!End, Contract!Cancel
    <3> QED
      BY <3>1, <3>2
  <2> SUFFICES ASSUME ~overlapped
               PROVE  \/ status' = status
                      \/ status \in {"pending", "paused", "error"} /\ status' = "active"
                      \/ status = "active" /\ status' \in {"paused", "complete", "error"}
                      \/ status' = "cancelled"
    OBVIOUS
  <2>3. CASE Calling
    BY <2>3 DEF Calling, Resume, ResumeIgnored, Pause, Cancel, Spawn, CancelContext, WaitReturns,
          SettlePause, SettleCancel, LifeInv, LifeType, Statuses
  <2>4. ASSUME NEW r \in Runs, Advances(r)
        PROVE  status' = status \/ (status = "active" /\ status' \in {"complete", "error"})
    BY <2>4 DEF Advances, MovesOn, Finishes, LifeInv, OneByOne, Busy
  <2> QED
    BY <2>1, <2>3, <2>4 DEF CommonStep, Beside
<1> QED
  BY <1>1, <1>2, <1>3

\* Every engine implements the contract, as long as its callers do not overlap.
THEOREM EnginesKeepContract == Spec => ContractKept
<1>1. Init => Contract!Init
  BY DEF Init, Http!Init, Http!EngineInit, Contract!Init
<1>2. QED
  BY <1>1, StepsContracted, LifeHeld, PTL DEF Spec, ContractKept, Contract!Spec

-----------------------------------------------------------------------------
(* What the methods leave to the goroutines.                               *)

\* A call begins runs and has them cancelled, and does nothing else to them.
LEMMA CallsOnlyBegin ==
    ASSUME LifeInv, Calling, NEW r \in Runs
    PROVE  /\ \/ phase'[r] = phase[r]
              \/ /\ phase[r] \in {"none", "spawning"}
                 /\ phase'[r] \in {"spawning", "mkdir", "meta", "setup"}
           /\ r \in ctxDone => r \in ctxDone'
<1>1. ASSUME NEW c \in Callers, Resume(c)
      PROVE  phase'[r] = phase[r] \/ (phase[r] = "none" /\ phase'[r] = "spawning")
  BY <1>1 DEF Resume, LifeInv, LifeType
<1>2. ASSUME NEW c \in Callers, NEW first \in {"mkdir", "meta", "setup"}, Spawn(c, first)
      PROVE  phase'[r] = phase[r] \/ (phase[r] = "spawning" /\ phase'[r] = first)
  BY <1>2 DEF Spawn, LifeInv, LifeType, SpawnedFromInside
<1>3. CASE UNCHANGED phase
  BY <1>3 DEF Calling, Resume, ResumeIgnored, Pause, Cancel, Enter, Spawn,
       CancelContext, WaitReturns, SettlePause, SettleCancel, Return, seen
<1>4. r \in ctxDone => r \in ctxDone'
  BY DEF Calling, Resume, ResumeIgnored, Pause, Cancel, Enter, Spawn,
       CancelContext, WaitReturns, SettlePause, SettleCancel, Return, seen
<1> QED
  BY <1>1, <1>2, <1>3, <1>4 DEF Calling, Resume, ResumeIgnored, Pause, Cancel, Enter, Spawn,
       CancelContext, WaitReturns, SettlePause, SettleCancel, Return, seen

\* It ends no task well or badly, and no disk or network fails of it.
LEMMA CallsEndNothing ==
    ASSUME LifeInv, Calling
    PROVE  /\ status' \in {"complete", "error"} => status' = status
           /\ faulted' = faulted
<1>1. status' \in {"complete", "error"} => status' = status
  BY DEF Calling, Resume, ResumeIgnored, Pause, Cancel, Enter, Spawn,
       CancelContext, WaitReturns, SettlePause, SettleCancel, Return, seen
<1>2. faulted' = faulted
  BY DEF Calling, Resume, ResumeIgnored, Pause, Cancel, Enter, Spawn,
       CancelContext, WaitReturns, SettlePause, SettleCancel, Return, seen
<1> QED
  BY <1>1, <1>2

-----------------------------------------------------------------------------
(* HTTP downloads and those of mega.nz.                                    *)

\* A download ends badly, and an attempt at a mirror does, by a fault or by a
\* range that was asked for past its last byte.
HttpTold ==
    /\ status = "error" => faulted \/ overshot
    /\ \A r \in Runs :
          /\ phase[r] = "faulty" => faulted
          /\ phase[r] \in {"past", "refused"} => overshot

\* What is on disk is known to Remove, and a complete file is a whole one.
FilesInv ==
    /\ engine \in {"http", "mega", "process"}
    /\ engine # "process" => alive = {} /\ helped = {}
    /\ engine # "http" => ~file /\ ~sidecar
    /\ engine # "mega" => content = "none"
    /\ engine = "mega" /\ content # "none" => named
    /\ engine = "mega" => \A r \in Runs : phase[r] \in {"mkdir", "resolve", "copy"} => named
    /\ engine = "http" => HttpTold
    /\ RemovedLeavesNoFile
    /\ CompleteMeansWhole

LEMMA FilesFromInit ==
    ASSUME Init
    PROVE  FilesInv
<1>1. engine # "http" => ~file /\ ~sidecar
  BY DEF Init, Http!Init
<1>2. content = "none" /\ status = "pending" /\ dropped = FALSE
  BY DEF Init, Http!Init, Http!EngineInit, Mega!Init
<1>3. \A r \in Runs : phase[r] = "none"
  BY DEF Init, Http!Init, Http!EngineInit, Http!Runs, Runs
<1>4. engine \in {"http", "mega", "process"} /\ alive = {} /\ helped = {}
  BY DEF Init, Process!Init
<1> QED
  BY <1>1, <1>2, <1>3, <1>4 DEF FilesInv, HttpTold, RemovedLeavesNoFile, CompleteMeansWhole

\* A removed task has no run, and a run is of an active task.
LEMMA NoRunOfRemoved ==
    ASSUME LifeInv, ~overlapped, NEW r \in Runs, Live(r)
    PROVE  status = "active" /\ ~dropped
BY DEF LifeInv, OneByOne, Busy

LEMMA HttpToldKept ==
    ASSUME LifeInv, HttpTold, HttpStep
    PROVE  HttpTold'
<1>0. phase \in [Runs -> Phases]
  BY DEF LifeInv, LifeType
<1>1. CASE Http!NewCall \/ \E c \in Callers : Http!CallerStep(c)
  <2>1. Calling /\ overshot' = overshot
    BY <1>1, HttpCalls, HttpCaller
       DEF Http!NewCall, Http!CallerStep, Http!RemoveFiles, Http!httpVars
  <2>2. status' = "error" => faulted' \/ overshot'
    BY <2>1, CallsEndNothing DEF HttpTold
  <2>3. ASSUME NEW r \in Runs
        PROVE  /\ phase'[r] = "faulty" => faulted'
               /\ phase'[r] \in {"past", "refused"} => overshot'
    BY <2>1, CallsOnlyBegin, CallsEndNothing DEF HttpTold
  <2> QED
    BY <2>2, <2>3 DEF HttpTold
<1>2. ASSUME NEW r \in Runs, Http!RunStep(r) PROVE HttpTold'
  <2>1. CASE Http!MkDir(r) \/ Http!KnowsSegments(r) \/ Http!Probed(r) \/ Http!ProbeFails(r)
             \/ Http!Finalize(r)
    BY <1>0, <2>1 DEF HttpTold, Http!MkDir, Http!KnowsSegments, Http!Probed, Http!ProbeFails,
       Http!Finalize, Http!Goto, Http!EndSilently, Http!Complete, Http!FailByFault, Http!Fail,
       Http!httpVars, Http!seen
  <2>2. CASE Http!LastBlock(r) \/ Http!Fetched(r)
    BY <1>0, <2>2 DEF HttpTold, Http!LastBlock, Http!Fetched, Http!Goto, Http!httpVars, Http!seen
  <2>5. CASE Http!Open(r)
    <3>1. status' = status
      BY <2>5 DEF Http!Open, Http!Breaks, Http!Goto
    <3>4. (faulted => faulted') /\ (overshot => overshot')
      <4>1. faulted => faulted'
        BY <2>5, Zenon DEF Http!Open, Http!Breaks, Http!Goto, Http!seen
      <4>2. overshot => overshot'
        BY <2>5, Zenon DEF Http!Open
      <4> QED
        BY <4>1, <4>2
    <3>2. \A q \in Runs \ {r} : phase'[q] = phase[q]
      BY <1>0, <2>5 DEF Http!Open, Http!Breaks, Http!Goto
    <3>3. \/ phase'[r] = "past" /\ overshot'
          \/ phase'[r] = "fetch"
          \/ phase'[r] = "faulty" /\ faulted'
      BY <1>0, <2>5 DEF Http!Open, Http!Breaks, Http!Goto
    <3> QED
      BY <3>1, <3>2, <3>3, <3>4 DEF HttpTold
  <2>4. CASE Http!FetchFails(r)
    BY <1>0, <2>4 DEF HttpTold, Http!FetchFails, Http!Breaks, Http!Stops, Http!Goto,
       Http!httpVars, Http!seen
  <2>3. CASE Http!Judge(r)
    BY <1>0, <2>3 DEF HttpTold, Http!Judge, Http!NextMirror, Http!Goto, Http!EndSilently,
       Http!FailUnprovoked, Http!Fail, Http!seen
  <2> QED
    BY <1>2, <2>1, <2>2, <2>3, <2>4, <2>5 DEF Http!RunStep
<1>3. ASSUME NEW r \in Runs, Http!SaveProgress(r) PROVE HttpTold'
  BY <1>3 DEF HttpTold, Http!SaveProgress, Http!engineVars, Http!seen
<1> QED
  BY <1>1, <1>2, <1>3 DEF HttpStep, Http!Next, Http!Callers, Callers, Http!Runs, Runs

LEMMA FilesKeptByHttp ==
    ASSUME LifeInv, LifeInv', FilesInv, HttpStep
    PROVE  FilesInv'
<1>1. engine = "http" /\ engine' = "http" /\ content = "none" /\ content' = "none"
      /\ UNCHANGED <<alive, helped>>
  BY DEF HttpStep, OthersKept, megaVars, procVars, FilesInv
<1>2. HttpTold'
  BY <1>1, HttpToldKept DEF FilesInv
<1>3. RemovedLeavesNoFile'
  <2>1. CASE Http!NewCall
    BY <1>1, <2>1 DEF Http!NewCall, Http!httpVars, Http!Resume, Http!ResumeIgnored, Http!Pause, Http!Cancel,
       Http!Enter, Http!Return, Http!seen, FilesInv, RemovedLeavesNoFile
  <2>2. ASSUME NEW c \in Callers, Http!CallerStep(c) PROVE RemovedLeavesNoFile'
    <3>1. CASE Http!RemoveFiles(c)
      <4>1. CASE call[c] = "remove"
        BY <1>1, <3>1, <4>1 DEF Http!RemoveFiles, RemovedLeavesNoFile
      <4>2. CASE call[c] # "remove"
        BY <1>1, <3>1, <4>2 DEF Http!RemoveFiles, Http!SettleCancel, FilesInv, RemovedLeavesNoFile
      <4> QED
        BY <4>1, <4>2
    <3>2. CASE ~Http!RemoveFiles(c)
      BY <1>1, <2>2, <3>2 DEF Http!CallerStep, Http!httpVars, Http!Spawn, Http!CancelContext,
         Http!WaitReturns, Http!SettlePause, Http!Return, Http!seen, FilesInv, RemovedLeavesNoFile
    <3> QED
      BY <3>1, <3>2
  <2>3. ASSUME NEW r \in Runs, Http!RunStep(r) \/ Http!SaveProgress(r)
        PROVE  RemovedLeavesNoFile'
    <3>1. Live(r) /\ dropped' = dropped /\ overlapped' = overlapped
      <4>1. CASE Http!RunStep(r)
        BY <4>1, HttpWork DEF Advances, CallsKept
      <4>2. CASE Http!SaveProgress(r)
        BY <4>2 DEF Http!SaveProgress, Http!engineVars, Http!seen, Live
      <4> QED
        BY <2>3, <4>1, <4>2
    <3> QED
      BY <3>1, NoRunOfRemoved DEF RemovedLeavesNoFile
  <2> QED
    BY <2>1, <2>2, <2>3 DEF HttpStep, Http!Next, Http!Callers, Callers, Http!Runs, Runs
<1> QED
  BY <1>1, <1>2, <1>3 DEF FilesInv, CompleteMeansWhole

LEMMA FilesKeptByMega ==
    ASSUME LifeInv, LifeInv', FilesInv, MegaStep
    PROVE  FilesInv'
<1>1. engine = "mega" /\ engine' = "mega" /\ ~file /\ ~sidecar /\ ~file' /\ ~sidecar'
      /\ UNCHANGED <<alive, helped>>
  BY DEF MegaStep, OthersKept, httpVars, procVars, FilesInv
<1>2. CASE Mega!NewCall
  <2>1. UNCHANGED <<named, content>> /\ Calling
    BY <1>2, MegaCalls DEF Mega!NewCall, Mega!megaVars
  <2>2. dropped' = dropped
    BY <1>2 DEF Mega!NewCall, Mega!Resume, Mega!ResumeIgnored, Mega!Pause, Mega!Cancel, Mega!seen
  <2>5. overlapped => overlapped'
    BY <1>2 DEF Mega!NewCall, Mega!Resume, Mega!ResumeIgnored, Mega!Pause, Mega!Cancel,
       Mega!Enter, Mega!seen
  <2>3. (\A r \in Runs : phase[r] \in {"mkdir", "resolve", "copy"} => named)'
    BY <1>1, <1>2, <2>1 DEF FilesInv, Mega!NewCall, Mega!Resume, Mega!ResumeIgnored, Mega!Pause,
       Mega!Cancel, Mega!seen, LifeInv, LifeType
  <2>4. RemovedLeavesNoFile' /\ CompleteMeansWhole'
    BY <1>1, <2>1, <2>2, <2>5, CallsEndNothing DEF FilesInv, RemovedLeavesNoFile, CompleteMeansWhole
  <2> QED
    BY <1>1, <2>1, <2>3, <2>4 DEF FilesInv
<1>3. ASSUME NEW c \in Callers, Mega!CallerStep(c) PROVE FilesInv'
  <2>1. Calling /\ named' = named /\ overlapped' = overlapped
    BY <1>3, MegaCaller DEF Mega!CallerStep, Mega!megaVars, Mega!ResetCounter, Mega!RemoveFile,
       Mega!Spawn, Mega!CancelContext, Mega!WaitReturns, Mega!SettlePause, Mega!SettleCancel,
       Mega!Return, Mega!seen
  <2>2. (\A r \in Runs : phase[r] \in {"mkdir", "resolve", "copy"} => named)'
    BY <1>1, <1>3, <2>1 DEF FilesInv, Mega!CallerStep, Mega!ResetCounter, Mega!RemoveFile,
       Mega!Spawn, Mega!CancelContext, Mega!WaitReturns, Mega!SettlePause, Mega!SettleCancel,
       Mega!seen, LifeInv, LifeType
  <2>3. CASE Mega!RemoveFile(c)
    <3>1. status' = "cancelled" /\ (dropped' => dropped \/ call[c] = "remove")
      BY <2>3 DEF Mega!RemoveFile, Mega!SettleCancel
    <3>2. content' = IF call[c] = "remove" /\ named THEN "none" ELSE content
      BY <2>3 DEF Mega!RemoveFile
    <3> QED
      BY <1>1, <2>1, <2>2, <3>1, <3>2 DEF FilesInv, RemovedLeavesNoFile, CompleteMeansWhole
  <2>4. CASE ~Mega!RemoveFile(c)
    <3>1. content' = content /\ dropped' = dropped
      BY <1>3, <2>4 DEF Mega!CallerStep, Mega!megaVars, Mega!ResetCounter, Mega!Spawn,
         Mega!CancelContext, Mega!WaitReturns, Mega!SettlePause, Mega!seen
    <3> QED
      BY <1>1, <2>1, <2>2, <3>1, CallsEndNothing DEF FilesInv, RemovedLeavesNoFile, CompleteMeansWhole
  <2> QED
    BY <2>3, <2>4
<1>4. ASSUME NEW r \in Runs, Mega!RunStep(r) \/ Mega!CopyBlock(r) PROVE FilesInv'
  <2>1. /\ Live(r) /\ dropped' = dropped /\ overlapped' = overlapped
        /\ status' # status => phase'[r] = "ended"
    <3>1. CASE Mega!RunStep(r)
      BY <3>1, MegaWork DEF Advances, MovesOn, Finishes, CallsKept, LifeInv, LifeType
    <3>2. CASE Mega!CopyBlock(r)
      BY <3>2 DEF Mega!CopyBlock, Mega!engineVars, Mega!seen, Live
    <3> QED
      BY <1>4, <3>1, <3>2
  <2>2. RemovedLeavesNoFile'
    BY <2>1, NoRunOfRemoved DEF RemovedLeavesNoFile
  <2>3. CompleteMeansWhole'
    <3>1. SUFFICES ASSUME status' = "complete", ~overlapped PROVE content' = "all"
      BY <1>1, <2>1 DEF CompleteMeansWhole
    <3>2. status = "active"
      BY <2>1, <3>1, NoRunOfRemoved
    <3> QED
      BY <1>4, <3>1, <3>2 DEF Mega!RunStep, Mega!Metadata, Mega!MetadataCancelled, Mega!MkDir,
         Mega!DownloadFails, Mega!Create, Mega!CopyRest, Mega!CopyBlock, Mega!Goto,
         Mega!EndSilently, Mega!FailByFault, Mega!FailUnprovoked, Mega!Fail, Mega!engineVars
  <2>4. (named => named') /\ (content' # "none" => named)
    BY <1>1, <1>4 DEF FilesInv, Mega!RunStep, Mega!Metadata, Mega!MetadataCancelled, Mega!MkDir,
       Mega!DownloadFails, Mega!Create, Mega!CopyRest, Mega!CopyBlock, Mega!megaVars
  <2>5. \A q \in Runs : phase'[q] \in {"mkdir", "resolve", "copy"} => named'
    BY <1>1, <1>4, <2>4 DEF FilesInv, Mega!RunStep, Mega!Metadata, Mega!MetadataCancelled, Mega!MkDir,
       Mega!DownloadFails, Mega!Create, Mega!CopyRest, Mega!CopyBlock, Mega!Goto, Mega!EndSilently,
       Mega!Complete, Mega!FailByFault, Mega!FailUnprovoked, Mega!Fail, Mega!engineVars, LifeInv, LifeType
  <2> QED
    BY <1>1, <2>2, <2>3, <2>4, <2>5 DEF FilesInv
<1> QED
  BY <1>2, <1>3, <1>4 DEF MegaStep, Mega!Next, Mega!Callers, Callers, Mega!Runs, Runs

LEMMA FilesKept ==
    ASSUME LifeInv, LifeInv', FilesInv, [Next]_vars
    PROVE  FilesInv'
<1>1. CASE ProcessStep
  BY <1>1 DEF ProcessStep, OthersKept, httpVars, megaVars, FilesInv, RemovedLeavesNoFile, CompleteMeansWhole
<1>2. CASE UNCHANGED vars
  BY <1>2 DEF vars, engineVars, seen, httpVars, megaVars, procVars, FilesInv, HttpTold,
     RemovedLeavesNoFile, CompleteMeansWhole
<1> QED
  BY <1>1, <1>2, FilesKeptByHttp, FilesKeptByMega DEF Next

-----------------------------------------------------------------------------
(* The engines that run a program.                                         *)

ProcessType ==
    /\ alive \subseteq Runs /\ helped \subseteq Runs
    /\ exited \in [Runs -> {"not", "zero", "nonzero", "killed"}]
    /\ deaf \in [Runs -> SUBSET {"stdout", "stderr"}]

\* A process lives and ends within its run, its output is read to the end by
\* whoever can, and how it ended says why.
ProcessOf(r) ==
    /\ r \in alive => exited[r] = "not" /\ phase[r] \in {"stdout", "stderr", "wait"}
    /\ exited[r] # "not" \/ r \in helped => phase[r] \in {"stdout", "stderr", "wait", "ended"}
    /\ r \in alive \cup helped /\ phase[r] \in {"stderr", "wait", "ended"} => "stdout" \in deaf[r]
    /\ r \in alive \cup helped /\ phase[r] \in {"wait", "ended"} => "stderr" \in deaf[r]
    /\ phase[r] \in {"stdout", "stderr", "wait"} /\ r \notin alive => exited[r] # "not"
    /\ exited[r] = "nonzero" => faulted
    /\ exited[r] = "killed" => r \in ctxDone

\* The task says what became of it.
ProcessTold ==
    /\ status = "error" => faulted
    /\ status = "complete" => \E r \in Runs : exited[r] = "zero" /\ r \notin alive

ProcessInv ==
    engine = "process" => ProcessType /\ (\A r \in Runs : ProcessOf(r)) /\ ProcessTold

LEMMA ProcessFromInit ==
    ASSUME Init
    PROVE  ProcessInv
<1>1. /\ status = "pending" /\ alive = {} /\ helped = {}
      /\ exited = [r \in Runs |-> "not"] /\ deaf = [r \in Runs |-> {}]
      /\ phase = [r \in Runs |-> "none"]
  BY DEF Init, Http!Init, Http!EngineInit, Http!Runs, Process!Init, Process!Runs, Runs
<1> QED
  BY <1>1 DEF ProcessInv, ProcessType, ProcessOf, ProcessTold

\* The calls leave the processes alone.
LEMMA ProcessKeptByCalls ==
    ASSUME LifeInv, ProcessInv, engine = "process", Calling,
           UNCHANGED <<alive, helped, deaf, exited>>
    PROVE  ProcessType' /\ (\A r \in Runs : ProcessOf(r)') /\ ProcessTold'
<1>1. ProcessType'
  BY DEF ProcessInv, ProcessType
<1>2. ASSUME NEW r \in Runs PROVE ProcessOf(r)'
  BY <1>2, CallsOnlyBegin, CallsEndNothing DEF ProcessInv, ProcessOf
<1>3. ProcessTold'
  BY CallsEndNothing DEF ProcessInv, ProcessTold
<1> QED
  BY <1>1, <1>2, <1>3

\* The goroutine of a run, and its process.
LEMMA ProcessKeptByWork ==
    ASSUME LifeInv, ProcessInv, engine = "process", NEW r \in Runs,
           Process!RunStep(r) \/ ProcessAlone(r)
    PROVE  ProcessType' /\ \A q \in Runs : ProcessOf(q)'
<1>0. ProcessType /\ \A q \in Runs : ProcessOf(q)
  BY DEF ProcessInv
<1>1. ASSUME Process!Setup(r) PROVE ProcessType' /\ \A q \in Runs : ProcessOf(q)'
  <2>1. ProcessType'
    BY <1>0, <1>1 DEF Process!Setup, Process!Goto, Process!EndSilently, Process!Fail, Process!FailByFault, Process!FailUnprovoked,
       Process!Complete, Process!procVars, Process!pipes, Process!seen,
       ProcessInv, ProcessType
  <2>2. ASSUME NEW q \in Runs PROVE ProcessOf(q)'
    BY <1>0, <1>1 DEF Process!Setup, Process!Goto, Process!EndSilently, Process!Fail, Process!FailByFault, Process!FailUnprovoked,
       Process!Complete, Process!procVars, Process!pipes, Process!seen,
       LifeInv, LifeType, ProcessInv, ProcessType, ProcessOf
  <2> QED
    BY <2>1, <2>2
<1>2. ASSUME Process!Start(r) PROVE ProcessType' /\ \A q \in Runs : ProcessOf(q)'
  <2>1. ProcessType'
    BY <1>0, <1>2 DEF Process!Start, Process!Goto, Process!EndSilently, Process!Fail, Process!FailByFault, Process!FailUnprovoked,
       Process!Complete, Process!procVars, Process!pipes, Process!seen,
       ProcessInv, ProcessType
  <2>2. ASSUME NEW q \in Runs PROVE ProcessOf(q)'
    BY <1>0, <1>2 DEF Process!Start, Process!Goto, Process!EndSilently, Process!Fail, Process!FailByFault, Process!FailUnprovoked,
       Process!Complete, Process!procVars, Process!pipes, Process!seen,
       LifeInv, LifeType, ProcessInv, ProcessType, ProcessOf
  <2> QED
    BY <2>1, <2>2
<1>3. ASSUME Process!StartFails(r) PROVE ProcessType' /\ \A q \in Runs : ProcessOf(q)'
  <2>1. ProcessType'
    BY <1>0, <1>3 DEF Process!StartFails, Process!Goto, Process!EndSilently, Process!Fail, Process!FailByFault, Process!FailUnprovoked,
       Process!Complete, Process!procVars, Process!pipes, Process!seen,
       ProcessInv, ProcessType
  <2>2. ASSUME NEW q \in Runs PROVE ProcessOf(q)'
    BY <1>0, <1>3 DEF Process!StartFails, Process!Goto, Process!EndSilently, Process!Fail, Process!FailByFault, Process!FailUnprovoked,
       Process!Complete, Process!procVars, Process!pipes, Process!seen,
       LifeInv, LifeType, ProcessInv, ProcessType, ProcessOf
  <2> QED
    BY <2>1, <2>2
<1>4. ASSUME Process!StdoutEnds(r) PROVE ProcessType' /\ \A q \in Runs : ProcessOf(q)'
  <2>1. ProcessType'
    BY <1>0, <1>4 DEF Process!StdoutEnds, Process!ReadOut, Process!Goto, Process!EndSilently, Process!Fail, Process!FailByFault, Process!FailUnprovoked,
       Process!Complete, Process!procVars, Process!pipes, Process!seen,
       ProcessInv, ProcessType
  <2>2. ASSUME NEW q \in Runs PROVE ProcessOf(q)'
    BY <1>0, <1>4 DEF Process!StdoutEnds, Process!ReadOut, Process!Goto, Process!EndSilently, Process!Fail, Process!FailByFault, Process!FailUnprovoked,
       Process!Complete, Process!procVars, Process!pipes, Process!seen,
       LifeInv, LifeType, ProcessInv, ProcessType, ProcessOf
  <2> QED
    BY <2>1, <2>2
<1>5. ASSUME Process!StderrEnds(r) PROVE ProcessType' /\ \A q \in Runs : ProcessOf(q)'
  <2>1. ProcessType'
    BY <1>0, <1>5 DEF Process!StderrEnds, Process!ReadOut, Process!Goto, Process!EndSilently, Process!Fail, Process!FailByFault, Process!FailUnprovoked,
       Process!Complete, Process!procVars, Process!pipes, Process!seen,
       ProcessInv, ProcessType
  <2>2. ASSUME NEW q \in Runs PROVE ProcessOf(q)'
    BY <1>0, <1>5 DEF Process!StderrEnds, Process!ReadOut, Process!Goto, Process!EndSilently, Process!Fail, Process!FailByFault, Process!FailUnprovoked,
       Process!Complete, Process!procVars, Process!pipes, Process!seen,
       LifeInv, LifeType, ProcessInv, ProcessType, ProcessOf
  <2> QED
    BY <2>1, <2>2
<1>6. ASSUME Process!Reap(r) PROVE ProcessType' /\ \A q \in Runs : ProcessOf(q)'
  <2>1. ProcessType'
    BY <1>0, <1>6 DEF Process!Reap, Process!Goto, Process!EndSilently, Process!Fail, Process!FailByFault, Process!FailUnprovoked,
       Process!Complete, Process!procVars, Process!pipes, Process!seen,
       ProcessInv, ProcessType
  <2>2. ASSUME NEW q \in Runs PROVE ProcessOf(q)'
    BY <1>0, <1>6 DEF Process!Reap, Process!Goto, Process!EndSilently, Process!Fail, Process!FailByFault, Process!FailUnprovoked,
       Process!Complete, Process!procVars, Process!pipes, Process!seen,
       LifeInv, LifeType, ProcessInv, ProcessType, ProcessOf
  <2> QED
    BY <2>1, <2>2
<1>7. ASSUME NEW pipe \in {"stdout", "stderr"}, Process!LongLine(r, pipe) PROVE ProcessType' /\ \A q \in Runs : ProcessOf(q)'
  <2>1. ProcessType'
    BY <1>0, <1>7 DEF Process!LongLine, Process!engineVars, Process!seen, Process!pipes,
       ProcessInv, ProcessType
  <2>2. ASSUME NEW q \in Runs PROVE ProcessOf(q)'
    BY <1>0, <1>7 DEF Process!LongLine, Process!engineVars, Process!seen, Process!pipes,
       LifeInv, LifeType, ProcessInv, ProcessType, ProcessOf
  <2> QED
    BY <2>1, <2>2
<1>8. ASSUME Process!Block(r) PROVE ProcessType' /\ \A q \in Runs : ProcessOf(q)'
  <2>1. ProcessType'
    BY <1>0, <1>8 DEF Process!Block, Process!engineVars, Process!seen, Process!pipes,
       ProcessInv, ProcessType
  <2>2. ASSUME NEW q \in Runs PROVE ProcessOf(q)'
    BY <1>0, <1>8 DEF Process!Block, Process!engineVars, Process!seen, Process!pipes,
       LifeInv, LifeType, ProcessInv, ProcessType, ProcessOf
  <2> QED
    BY <2>1, <2>2
<1>9. ASSUME Process!StartHelper(r) PROVE ProcessType' /\ \A q \in Runs : ProcessOf(q)'
  <2>1. ProcessType'
    BY <1>0, <1>9 DEF Process!StartHelper, Process!engineVars, Process!seen, Process!pipes,
       ProcessInv, ProcessType
  <2>2. ASSUME NEW q \in Runs PROVE ProcessOf(q)'
    BY <1>0, <1>9 DEF Process!StartHelper, Process!engineVars, Process!seen, Process!pipes,
       LifeInv, LifeType, ProcessInv, ProcessType, ProcessOf
  <2> QED
    BY <2>1, <2>2
<1>10. ASSUME Process!HelperEnds(r) PROVE ProcessType' /\ \A q \in Runs : ProcessOf(q)'
  <2>1. ProcessType'
    BY <1>0, <1>10 DEF Process!HelperEnds, Process!engineVars, Process!seen, Process!pipes,
       ProcessInv, ProcessType
  <2>2. ASSUME NEW q \in Runs PROVE ProcessOf(q)'
    BY <1>0, <1>10 DEF Process!HelperEnds, Process!engineVars, Process!seen, Process!pipes,
       LifeInv, LifeType, ProcessInv, ProcessType, ProcessOf
  <2> QED
    BY <2>1, <2>2
<1>11. ASSUME Process!Exit(r) PROVE ProcessType' /\ \A q \in Runs : ProcessOf(q)'
  <2>1. ProcessType'
    BY <1>0, <1>11 DEF Process!Exit, Process!engineVars, Process!seen, Process!pipes,
       ProcessInv, ProcessType
  <2>2. ASSUME NEW q \in Runs PROVE ProcessOf(q)'
    BY <1>0, <1>11 DEF Process!Exit, Process!engineVars, Process!seen, Process!pipes,
       LifeInv, LifeType, ProcessInv, ProcessType, ProcessOf
  <2> QED
    BY <2>1, <2>2
<1>12. ASSUME Process!Kill(r) PROVE ProcessType' /\ \A q \in Runs : ProcessOf(q)'
  <2>1. ProcessType'
    BY <1>0, <1>12 DEF Process!Kill, Process!engineVars, Process!seen, Process!pipes,
       ProcessInv, ProcessType
  <2>2. ASSUME NEW q \in Runs PROVE ProcessOf(q)'
    BY <1>0, <1>12 DEF Process!Kill, Process!engineVars, Process!seen, Process!pipes,
       LifeInv, LifeType, ProcessInv, ProcessType, ProcessOf
  <2> QED
    BY <2>1, <2>2
<1> QED
  BY <1>1, <1>2, <1>3, <1>4, <1>5, <1>6, <1>7, <1>8, <1>9, <1>10, <1>11, <1>12 DEF Process!RunStep, ProcessAlone

\* What the task says of it.
LEMMA ProcessTellsByWork ==
    ASSUME LifeInv, ProcessInv, engine = "process", NEW r \in Runs,
           Process!RunStep(r) \/ ProcessAlone(r)
    PROVE  ProcessTold'
<1>0. ProcessType /\ ProcessOf(r) /\ ProcessTold
  BY DEF ProcessInv
<1>1. CASE Process!Setup(r) \/ Process!StartFails(r) \/ Process!StdoutEnds(r) \/ Process!StderrEnds(r)
  BY <1>0, <1>1 DEF Process!Setup, Process!StartFails, Process!StdoutEnds, Process!StderrEnds,
     Process!Goto, Process!EndSilently, Process!Fail, Process!FailByFault, Process!FailUnprovoked,
       Process!Complete, Process!procVars, Process!pipes, Process!seen, ProcessTold
<1>2. CASE Process!Start(r)
  BY <1>0, <1>2 DEF Process!Start, Process!Goto, Process!EndSilently, Process!Fail, Process!FailByFault, Process!FailUnprovoked,
       Process!Complete, Process!procVars, Process!pipes, Process!seen, ProcessOf, ProcessTold
<1>3. CASE Process!Reap(r)
  <2>1. status' = "error" => faulted'
    BY <1>0, <1>3 DEF Process!Reap, Process!Goto, Process!EndSilently, Process!Fail, Process!FailByFault, Process!FailUnprovoked,
       Process!Complete, Process!procVars, Process!pipes, Process!seen, ProcessType, ProcessOf, ProcessTold
  <2>2. status' = "complete" => exited[r] = "zero" \/ status = "complete"
    BY <1>3 DEF Process!Reap, Process!Goto, Process!EndSilently, Process!Fail, Process!FailByFault, Process!FailUnprovoked,
       Process!Complete, Process!procVars, Process!pipes, Process!seen
  <2>3. r \notin alive /\ alive' = alive /\ exited' = exited
    BY <1>3 DEF Process!Reap, Process!Goto, Process!EndSilently, Process!Fail, Process!FailByFault, Process!FailUnprovoked,
       Process!Complete, Process!procVars, Process!pipes, Process!seen
  <2> QED
    BY <1>0, <2>1, <2>2, <2>3 DEF ProcessTold
<1>4. CASE ProcessAlone(r)
  <2>1. status' = status
    BY <1>4 DEF ProcessAlone, Process!LongLine, Process!Block, Process!StartHelper,
       Process!HelperEnds, Process!Exit, Process!Kill, Process!engineVars, Process!seen, Process!pipes
  <2>3. faulted => faulted'
    BY <1>4 DEF ProcessAlone, Process!LongLine, Process!Block, Process!StartHelper,
       Process!HelperEnds, Process!Exit, Process!Kill, Process!engineVars, Process!seen, Process!pipes
  <2>2. \A q \in Runs : exited[q] = "zero" /\ q \notin alive => exited'[q] = "zero" /\ q \notin alive'
    BY <1>0, <1>4 DEF ProcessAlone, Process!LongLine, Process!Block, Process!StartHelper,
       Process!HelperEnds, Process!Exit, Process!Kill, Process!engineVars, Process!seen, Process!pipes, ProcessType
  <2> QED
    BY <1>0, <2>1, <2>2, <2>3 DEF ProcessTold
<1> QED
  BY <1>1, <1>2, <1>3, <1>4 DEF Process!RunStep

LEMMA ProcessKept ==
    ASSUME LifeInv, ProcessInv, [Next]_vars
    PROVE  ProcessInv'
<1>1. CASE ProcessStep
  <2>1. engine = "process" /\ engine' = "process"
    BY <1>1 DEF ProcessStep, OthersKept
  <2>2. CASE Process!NewCall \/ \E c \in Callers : Process!CallerStep(c)
    <3>1. Calling /\ UNCHANGED <<alive, helped, deaf, exited>>
      BY <2>2, ProcessCalls, ProcessCaller DEF Process!NewCall, Process!CallerStep, Process!procVars, Process!pipes
    <3> QED
      BY <2>1, <3>1, ProcessKeptByCalls DEF ProcessInv
  <2>3. ASSUME NEW r \in Runs, Process!RunStep(r) \/ ProcessAlone(r) PROVE ProcessInv'
    BY <2>1, <2>3, ProcessKeptByWork, ProcessTellsByWork DEF ProcessInv
  <2> QED
    BY <1>1, <2>2, <2>3
       DEF ProcessStep, Process!Next, Process!Callers, Callers, Process!Runs, Runs, ProcessAlone
<1>2. CASE HttpStep \/ MegaStep
  BY <1>2 DEF HttpStep, MegaStep, OthersKept, ProcessInv
<1>3. CASE UNCHANGED vars
  BY <1>3 DEF vars, engineVars, seen, procVars, ProcessInv, ProcessType, ProcessOf, ProcessTold
<1> QED
  BY <1>1, <1>2, <1>3 DEF Next

-----------------------------------------------------------------------------
(* What follows for the tasks of each engine.                              *)

\* The inductive invariant: the life of a task, its files, and its processes.
THEOREM EnginesHeld == Spec => [](LifeInv /\ FilesInv /\ ProcessInv)
<1>1. Init => FilesInv /\ ProcessInv
  BY FilesFromInit, ProcessFromInit
<1>2. LifeInv /\ LifeInv' /\ FilesInv /\ ProcessInv /\ [Next]_vars => FilesInv' /\ ProcessInv'
  BY FilesKept, ProcessKept
<1> QED
  BY <1>1, <1>2, LifeHeld, PTL DEF Spec

\* No call, however it overlaps others, puts a task that runs a process into the
\* error status, nor an HTTP download: only something outside does, or, of an
\* HTTP download, a range of unknown end that is asked for past its last byte.
THEOREM ErrorsHaveFaults == Spec => []NoErrorWithoutFault
<1>1. LifeInv /\ FilesInv /\ ProcessInv => NoErrorWithoutFault
  BY DEF FilesInv, HttpTold, ProcessInv, ProcessTold, NoErrorWithoutFault
<1> QED
  BY <1>1, EnginesHeld, PTL

\* Remove leaves no file of an HTTP or a mega.nz download behind.
THEOREM RemovedLeaveNoFile == Spec => []RemovedLeavesNoFile
<1>1. FilesInv => RemovedLeavesNoFile
  BY DEF FilesInv
<1> QED
  BY <1>1, EnginesHeld, PTL

\* A complete mega.nz download is all there.
THEOREM CompleteAreWhole == Spec => []CompleteMeansWhole
<1>1. FilesInv => CompleteMeansWhole
  BY DEF FilesInv
<1> QED
  BY <1>1, EnginesHeld, PTL

\* No process outlives a Pause, a Cancel or the task's own end, and nothing it has
\* started does while somebody reads its output.
THEOREM NoProcessIsLeft == Spec => []NoProcessLeft
<1>1. LifeInv /\ ProcessInv /\ engine = "process" => NoProcessLeft
  <2> SUFFICES ASSUME LifeInv, ProcessInv, engine = "process", ~overlapped,
                      status # "active"
               PROVE  alive = {} /\ \A r \in helped : deaf[r] = {"stdout", "stderr"}
    BY DEF NoProcessLeft
  <2>1. \A r \in Runs : ~Live(r)
    BY DEF LifeInv, OneByOne, Busy
  <2>2. \A r \in Runs : r \notin alive
    BY <2>1 DEF ProcessInv, ProcessOf, Live
  <2>3. ASSUME NEW r \in helped PROVE deaf[r] = {"stdout", "stderr"}
    <3>1. r \in Runs /\ deaf[r] \subseteq {"stdout", "stderr"}
      BY DEF ProcessInv, ProcessType
    <3>2. phase[r] = "ended"
      BY <2>1, <3>1 DEF ProcessInv, ProcessOf, Live
    <3> QED
      BY <3>1, <3>2 DEF ProcessInv, ProcessOf
  <2> QED
    BY <2>2, <2>3 DEF ProcessInv, ProcessType
<1>2. LifeInv /\ FilesInv /\ ProcessInv => NoProcessLeft
  BY <1>1 DEF FilesInv, NoProcessLeft
<1> QED
  BY <1>2, EnginesHeld, PTL

-----------------------------------------------------------------------------
(* How a run comes to its end.                                             *)

\* How many of its own steps a run is from its end, were no mirror given up.
RunAhead(place) ==
    CASE place \in {"meta", "setup"} -> 7
      [] place \in {"mkdir", "start"} -> 6
      [] place = "ensure" -> 5
      [] place \in {"open", "stdout"} -> 4
      [] place = "fetch" -> 3
      [] place \in {"tail", "past", "resolve", "stderr"} -> 2
      [] OTHER -> 1

\* With the mirrors that it may still turn to, and its process.
RunLeft(r) ==
    (IF Live(r) THEN 4 * (Mirrors - mirror[r]) + RunAhead(phase[r]) ELSE 0)
    + (IF r \in alive THEN 1 ELSE 0)

\* The goroutine of run r goes on, or its process is killed.
GoesOn(r) ==
    \/ engine = "http" /\ Http!RunStep(r)
    \/ engine = "mega" /\ Mega!RunStep(r)
    \/ engine = "process" /\ (Process!RunStep(r) \/ Process!Kill(r))

\* Whatever fails, and whether it was told to stop or not, every step of a run
\* leads to its end, and nothing else leads away from it: run (task.go:222-251 of
\* httpengine, and its like) tries each mirror once, in turn.
RunsWindDown ==
    [][\A r \in Runs :
          /\ GoesOn(r) => RunLeft(r)' < RunLeft(r)
          /\ Live(r) => RunLeft(r)' <= RunLeft(r)]_vars

MirrorsTyped == mirror \in [Runs -> 1 .. Mirrors]

LEMMA MirrorsInit == Init => MirrorsTyped
BY MirrorsAssumption DEF Init, Http!Init, Http!Runs, Runs, MirrorsTyped

LEMMA MirrorsKept ==
    ASSUME MirrorsTyped, [Next]_vars
    PROVE  MirrorsTyped'
<1>1. CASE UNCHANGED mirror
  BY <1>1 DEF MirrorsTyped
<1>2. ASSUME NEW r \in Runs, Http!RunStep(r) PROVE MirrorsTyped'
  <2>1. CASE UNCHANGED mirror
    BY <1>1, <2>1
  <2>2. CASE Http!Judge(r)
    <3>1. CASE mirror[r] < Mirrors /\ mirror' = [mirror EXCEPT ![r] = @ + 1]
      <4>1. mirror[r] + 1 \in 1 .. Mirrors
        BY <3>1, MirrorsAssumption DEF MirrorsTyped
      <4> QED
        BY <3>1, <4>1 DEF MirrorsTyped
    <3> QED
      BY <2>1, <2>2, <3>1 DEF Http!Judge, Http!NextMirror
  <2>3. UNCHANGED mirror \/ Http!Judge(r)
    BY <1>2 DEF Http!RunStep, Http!MkDir, Http!KnowsSegments, Http!Probed, Http!ProbeFails,
       Http!Open, Http!LastBlock, Http!Fetched, Http!FetchFails, Http!Finalize, Http!httpVars
  <2> QED
    BY <2>1, <2>2, <2>3
<1>3. CASE Http!NewCall \/ \E c \in Callers : Http!CallerStep(c)
  BY <1>1, <1>3 DEF Http!NewCall, Http!CallerStep, Http!RemoveFiles, Http!httpVars
<1>4. ASSUME NEW r \in Runs, Http!SaveProgress(r) PROVE MirrorsTyped'
  BY <1>1, <1>4 DEF Http!SaveProgress
<1>5. CASE HttpStep
  BY <1>2, <1>3, <1>4, <1>5 DEF HttpStep, Http!Next, Http!Callers, Callers, Http!Runs, Runs
<1>6. CASE MegaStep \/ ProcessStep \/ UNCHANGED vars
  BY <1>1, <1>6 DEF MegaStep, ProcessStep, OthersKept, httpVars, vars
<1> QED
  BY <1>5, <1>6 DEF Next

\* What is left of a run at work is its mirrors' share and its place's.
LEMMA LeftOfLive ==
    ASSUME MirrorsTyped, NEW r \in Runs
    PROVE  /\ 4 * (Mirrors - mirror[r]) \in Nat
           /\ RunAhead(phase[r]) \in 1 .. 7
<1>1. Mirrors - mirror[r] \in Nat
  BY MirrorsAssumption DEF MirrorsTyped
<1>2. RunAhead(phase[r]) \in 1 .. 7
  BY DEF RunAhead
<1> QED
  BY <1>1, <1>2

LEMMA HttpLess ==
    ASSUME LifeType, MirrorsTyped, NEW r \in Runs, Http!RunStep(r), UNCHANGED alive
    PROVE  /\ RunLeft(r)' < RunLeft(r)
           /\ \A q \in Runs \ {r} : RunLeft(q)' = RunLeft(q)
<1>1. \A q \in Runs \ {r} : phase'[q] = phase[q] /\ mirror'[q] = mirror[q]
  BY DEF Http!RunStep, Http!MkDir, Http!KnowsSegments, Http!Probed, Http!ProbeFails, Http!Open,
     Http!LastBlock, Http!Fetched, Http!FetchFails, Http!Breaks, Http!Stops, Http!Judge,
     Http!NextMirror, Http!Finalize, Http!Goto, Http!EndSilently, Http!Complete,
     Http!FailByFault, Http!FailUnprovoked, Http!Fail, Http!httpVars, LifeType, MirrorsTyped
<1>2. \/ phase'[r] = "ended"
      \/ mirror'[r] = mirror[r] /\ \/ phase[r] = "mkdir" /\ phase'[r] = "ensure"
                                   \/ phase[r] = "ensure" /\ phase'[r] = "open"
                                   \/ phase[r] = "open" /\ phase'[r] \in {"past", "fetch"}
                                   \/ phase[r] = "fetch" /\ phase'[r] \in {"tail", "finalize"}
                                   \/ phase[r] = "tail" /\ phase'[r] = "finalize"
                                   \/ /\ phase[r] \in {"open", "fetch", "tail", "past"}
                                      /\ phase'[r] \in {"faulty", "refused", "stopped"}
      \/ mirror'[r] = mirror[r] + 1 /\ phase'[r] = "open"
  BY DEF Http!RunStep, Http!MkDir, Http!KnowsSegments, Http!Probed, Http!ProbeFails, Http!Open,
     Http!LastBlock, Http!Fetched, Http!FetchFails, Http!Breaks, Http!Stops, Http!Judge,
     Http!NextMirror, Http!Finalize, Http!Goto, Http!EndSilently, Http!Complete,
     Http!FailByFault, Http!FailUnprovoked, Http!Fail, Http!httpVars, LifeType, MirrorsTyped
<1>3. Live(r)
  BY HttpWork DEF Advances
<1>4. 4 * (Mirrors - mirror[r]) \in Nat /\ RunAhead(phase[r]) \in 1 .. 7
  BY LeftOfLive
<1>5. mirror[r] \in Nat /\ Mirrors \in Nat
  BY MirrorsAssumption DEF MirrorsTyped
<1>6. RunLeft(r)' < RunLeft(r)
  <2>1. CASE phase'[r] = "ended"
    BY <1>3, <1>4, <2>1 DEF RunLeft, Live
  <2>2. CASE /\ mirror'[r] = mirror[r]
             /\ phase'[r] \notin {"none", "spawning", "ended"}
             /\ RunAhead(phase'[r]) \in 1 .. 7 /\ RunAhead(phase'[r]) < RunAhead(phase[r])
    BY <1>3, <1>4, <2>2 DEF RunLeft, Live
  <2>3. CASE mirror'[r] = mirror[r] + 1 /\ phase'[r] = "open"
    <3>1. 4 * (Mirrors - mirror'[r]) = 4 * (Mirrors - mirror[r]) - 4
      BY <1>5, <2>3
    <3>2. RunAhead(phase'[r]) = 4
      BY <2>3 DEF RunAhead
    <3> QED
      BY <1>3, <1>4, <2>3, <3>1, <3>2 DEF RunLeft, Live
  <2> QED
    BY <1>2, <2>1, <2>2, <2>3 DEF RunAhead
<1>7. \A q \in Runs \ {r} : RunLeft(q)' = RunLeft(q)
  BY <1>1 DEF RunLeft, Live
<1> QED
  BY <1>6, <1>7

LEMMA MegaLess ==
    ASSUME LifeType, MirrorsTyped, NEW r \in Runs, Mega!RunStep(r), UNCHANGED <<mirror, alive>>
    PROVE  /\ RunLeft(r)' < RunLeft(r)
           /\ \A q \in Runs \ {r} : RunLeft(q)' = RunLeft(q)
<1>1. \A q \in Runs \ {r} : phase'[q] = phase[q]
  BY DEF Mega!RunStep, Mega!Metadata, Mega!MetadataCancelled, Mega!MkDir, Mega!DownloadFails,
     Mega!Create, Mega!CopyRest, Mega!Goto, Mega!EndSilently, Mega!Complete, Mega!FailByFault,
     Mega!FailUnprovoked, Mega!Fail, LifeType
<1>2. \/ phase'[r] = "ended"
      \/ phase[r] = "meta" /\ phase'[r] = "mkdir"
      \/ phase[r] = "mkdir" /\ phase'[r] = "resolve"
      \/ phase[r] = "resolve" /\ phase'[r] = "copy"
  BY DEF Mega!RunStep, Mega!Metadata, Mega!MetadataCancelled, Mega!MkDir, Mega!DownloadFails,
     Mega!Create, Mega!CopyRest, Mega!Goto, Mega!EndSilently, Mega!Complete, Mega!FailByFault,
     Mega!FailUnprovoked, Mega!Fail, LifeType
<1>3. Live(r)
  BY MegaWork DEF Advances
<1>4. 4 * (Mirrors - mirror[r]) \in Nat /\ RunAhead(phase[r]) \in 1 .. 7
  BY LeftOfLive
<1>5. \/ phase'[r] = "ended"
      \/ /\ phase'[r] \notin {"none", "spawning", "ended"}
         /\ RunAhead(phase'[r]) \in 1 .. 7 /\ RunAhead(phase'[r]) < RunAhead(phase[r])
  BY <1>2 DEF RunAhead
<1>6. RunLeft(r)' < RunLeft(r)
  BY <1>3, <1>4, <1>5 DEF RunLeft, Live
<1>7. \A q \in Runs \ {r} : RunLeft(q)' = RunLeft(q)
  BY <1>1 DEF RunLeft, Live
<1> QED
  BY <1>6, <1>7

LEMMA ProcessLess ==
    ASSUME LifeType, MirrorsTyped, NEW r \in Runs, Process!RunStep(r), UNCHANGED mirror
    PROVE  /\ RunLeft(r)' < RunLeft(r)
           /\ \A q \in Runs \ {r} : RunLeft(q)' = RunLeft(q)
<1>1. \A q \in Runs \ {r} : phase'[q] = phase[q] /\ (q \in alive' <=> q \in alive)
  BY DEF Process!RunStep, Process!Setup, Process!Start, Process!StartFails, Process!StdoutEnds,
     Process!StderrEnds, Process!Reap, Process!Goto, Process!EndSilently, Process!Complete,
     Process!FailByFault, Process!FailUnprovoked, Process!Fail, Process!procVars, LifeType
<1>2. \/ phase'[r] = "ended" /\ alive' = alive
      \/ phase[r] = "setup" /\ phase'[r] = "start" /\ alive' = alive
      \/ phase[r] = "start" /\ phase'[r] = "stdout"
      \/ phase[r] = "stdout" /\ phase'[r] = "stderr" /\ alive' = alive
      \/ phase[r] = "stderr" /\ phase'[r] = "wait" /\ alive' = alive
  BY DEF Process!RunStep, Process!Setup, Process!Start, Process!StartFails, Process!StdoutEnds,
     Process!StderrEnds, Process!Reap, Process!Goto, Process!EndSilently, Process!Complete,
     Process!FailByFault, Process!FailUnprovoked, Process!Fail, Process!procVars, LifeType
<1>3. Live(r)
  BY ProcessWork DEF Advances
<1>4. 4 * (Mirrors - mirror[r]) \in Nat /\ RunAhead(phase[r]) \in 1 .. 7
  BY LeftOfLive
<1>5. \/ phase'[r] = "ended" /\ alive' = alive
      \/ /\ phase'[r] \notin {"none", "spawning", "ended"}
         /\ RunAhead(phase'[r]) \in 1 .. 7
         /\ \/ RunAhead(phase'[r]) < RunAhead(phase[r]) /\ alive' = alive
            \/ RunAhead(phase'[r]) + 1 < RunAhead(phase[r])
  BY <1>2 DEF RunAhead
<1>6. RunLeft(r)' < RunLeft(r)
  BY <1>3, <1>4, <1>5 DEF RunLeft, Live
<1>7. \A q \in Runs \ {r} : RunLeft(q)' = RunLeft(q)
  BY <1>1 DEF RunLeft, Live
<1> QED
  BY <1>6, <1>7

\* A call leaves a run at work where it is.
LEMMA CallLeaves ==
    ASSUME LifeInv, Calling, UNCHANGED <<mirror, alive>>, NEW r \in Runs, Live(r)
    PROVE  RunLeft(r)' = RunLeft(r)
<1>1. phase'[r] = phase[r]
  BY CallsOnlyBegin DEF Live
<1> QED
  BY <1>1 DEF RunLeft, Live

\* What a process does by itself leaves every run where it is, unless it ends.
LEMMA AloneLeaves ==
    ASSUME MirrorsTyped, NEW r \in Runs, ProcessAlone(r), UNCHANGED mirror
    PROVE  /\ \A q \in Runs : RunLeft(q)' <= RunLeft(q)
           /\ Process!Kill(r) => RunLeft(r)' < RunLeft(r)
<1>1. phase' = phase /\ \A q \in Runs : q \in alive' => q \in alive
  BY DEF ProcessAlone, Process!LongLine, Process!Block, Process!StartHelper, Process!HelperEnds,
     Process!Exit, Process!Kill, Process!engineVars
<1>2. Process!Kill(r) => r \in alive /\ r \notin alive'
  BY DEF Process!Kill
<1>3. \A q \in Runs : 4 * (Mirrors - mirror[q]) \in Nat /\ RunAhead(phase[q]) \in 1 .. 7
  BY LeftOfLive
<1>4. \A q \in Runs : RunLeft(q)' <= RunLeft(q)
  BY <1>1, <1>3 DEF RunLeft, Live
<1>5. Process!Kill(r) => RunLeft(r)' < RunLeft(r)
  BY <1>1, <1>2, <1>3 DEF RunLeft, Live
<1> QED
  BY <1>4, <1>5

\* No run goes on for ever, and none has more to do when it begins than what its
\* mirrors and its place cost.
RunsBounded == \A r \in Runs : RunLeft(r) \in 0 .. 4 * Mirrors + 4

LEMMA AllRunsBounded == MirrorsTyped => RunsBounded
<1> SUFFICES ASSUME MirrorsTyped, NEW r \in Runs
             PROVE  RunLeft(r) \in 0 .. 4 * Mirrors + 4
  BY DEF RunsBounded
<1>1. mirror[r] \in 1 .. Mirrors /\ Mirrors \in Nat /\ RunAhead(phase[r]) \in 1 .. 7
  BY MirrorsAssumption, LeftOfLive DEF MirrorsTyped
<1>2. 4 * (Mirrors - mirror[r]) \in Nat /\ 4 * (Mirrors - mirror[r]) <= 4 * Mirrors - 4
  BY <1>1
<1> QED
  BY <1>1, <1>2 DEF RunLeft

LEMMA RunLeftType ==
    ASSUME MirrorsTyped, NEW r \in Runs
    PROVE  RunLeft(r) \in Nat
BY LeftOfLive DEF RunLeft

LEMMA LeftOfNext ==
    ASSUME MirrorsTyped', NEW r \in Runs
    PROVE  RunLeft(r)' \in Nat
<1>1. 4 * (Mirrors - mirror'[r]) \in Nat /\ RunAhead(phase'[r]) \in 1 .. 7
  <2>1. Mirrors - mirror'[r] \in Nat
    BY MirrorsAssumption DEF MirrorsTyped
  <2>2. RunAhead(phase'[r]) \in 1 .. 7
    BY DEF RunAhead
  <2> QED
    BY <2>1, <2>2
<1> QED
  BY <1>1 DEF RunLeft

\* Every run of every engine ends after at most four steps of its own for each
\* mirror and four more, if it goes on at all: no order of failures keeps it going.
\* With StopReachesAll, and with the fairness of FairSpec, this is what
\* StopReturns needs.
THEOREM AllRunsWindDown == Spec => []RunsBounded /\ RunsWindDown
<1> DEFINE Winds == \A r \in Runs : /\ GoesOn(r) => RunLeft(r)' < RunLeft(r)
                                    /\ Live(r) => RunLeft(r)' <= RunLeft(r)
<1>1. LifeInv /\ MirrorsTyped /\ Next => Winds
  <2> SUFFICES ASSUME LifeInv, MirrorsTyped, Next, NEW r \in Runs
               PROVE  /\ GoesOn(r) => RunLeft(r)' < RunLeft(r)
                      /\ Live(r) => RunLeft(r)' <= RunLeft(r)
    OBVIOUS
  <2>0. LifeType /\ RunLeft(r) \in Nat /\ RunLeft(r)' \in Nat
    <3>1. MirrorsTyped'
      BY MirrorsKept
    <3>2. RunLeft(r)' \in Nat
      BY <3>1, LeftOfNext
    <3> QED
      BY <3>2, RunLeftType DEF LifeInv
  <2>1. CASE HttpStep
    <3>1. UNCHANGED alive /\ engine = "http"
      BY <2>1 DEF HttpStep, OthersKept, procVars
    <3>2. ASSUME NEW q \in Runs, Http!RunStep(q)
          PROVE  /\ RunLeft(q)' < RunLeft(q)
                 /\ \A p \in Runs \ {q} : RunLeft(p)' = RunLeft(p)
      BY <2>0, <3>1, <3>2, HttpLess
    <3>3. ASSUME Live(r), Http!NewCall \/ \E c \in Callers : Http!CallerStep(c)
          PROVE  RunLeft(r)' <= RunLeft(r)
      <4>1. Calling /\ UNCHANGED mirror
        BY <3>3, HttpCalls, HttpCaller
           DEF Http!NewCall, Http!CallerStep, Http!RemoveFiles, Http!httpVars
      <4> QED
        BY <2>0, <3>1, <3>3, <4>1, CallLeaves
    <3>4. ASSUME NEW q \in Runs, Http!SaveProgress(q) PROVE RunLeft(r)' <= RunLeft(r)
      <4>1. RunLeft(r)' = RunLeft(r)
        BY <3>1, <3>4 DEF Http!SaveProgress, Http!engineVars, RunLeft, Live
      <4> QED
        BY <2>0, <4>1
    <3>5. GoesOn(r) => RunLeft(r)' < RunLeft(r)
      BY <3>1, <3>2 DEF GoesOn
    <3>6. ASSUME NEW q \in Runs, Http!RunStep(q) PROVE RunLeft(r)' <= RunLeft(r)
      <4>1. CASE q = r
        BY <2>0, <3>2, <3>6, <4>1
      <4>2. CASE q # r
        BY <2>0, <3>2, <3>6, <4>2
      <4> QED
        BY <4>1, <4>2
    <3> QED
      BY <2>1, <3>3, <3>4, <3>5, <3>6 DEF HttpStep, Http!Next, Http!Callers, Callers, Http!Runs, Runs
  <2>2. CASE MegaStep
    <3>1. UNCHANGED <<mirror, alive>> /\ engine = "mega"
      BY <2>2 DEF MegaStep, OthersKept, httpVars, procVars
    <3>2. ASSUME NEW q \in Runs, Mega!RunStep(q)
          PROVE  /\ RunLeft(q)' < RunLeft(q)
                 /\ \A p \in Runs \ {q} : RunLeft(p)' = RunLeft(p)
      BY <2>0, <3>1, <3>2, MegaLess
    <3>3. ASSUME Live(r), Mega!NewCall \/ \E c \in Callers : Mega!CallerStep(c)
          PROVE  RunLeft(r)' <= RunLeft(r)
      <4>1. Calling
        BY <3>3, MegaCalls, MegaCaller
      <4> QED
        BY <2>0, <3>1, <3>3, <4>1, CallLeaves
    <3>4. ASSUME NEW q \in Runs, Mega!CopyBlock(q) PROVE RunLeft(r)' <= RunLeft(r)
      <4>1. RunLeft(r)' = RunLeft(r)
        BY <3>1, <3>4 DEF Mega!CopyBlock, Mega!engineVars, RunLeft, Live
      <4> QED
        BY <2>0, <4>1
    <3>5. GoesOn(r) => RunLeft(r)' < RunLeft(r)
      BY <3>1, <3>2 DEF GoesOn
    <3>6. ASSUME NEW q \in Runs, Mega!RunStep(q) PROVE RunLeft(r)' <= RunLeft(r)
      <4>1. CASE q = r
        BY <2>0, <3>2, <3>6, <4>1
      <4>2. CASE q # r
        BY <2>0, <3>2, <3>6, <4>2
      <4> QED
        BY <4>1, <4>2
    <3> QED
      BY <2>2, <3>3, <3>4, <3>5, <3>6 DEF MegaStep, Mega!Next, Mega!Callers, Callers, Mega!Runs, Runs
  <2>3. CASE ProcessStep
    <3>1. UNCHANGED mirror /\ engine = "process"
      BY <2>3 DEF ProcessStep, OthersKept, httpVars
    <3>2. ASSUME NEW q \in Runs, Process!RunStep(q)
          PROVE  /\ RunLeft(q)' < RunLeft(q)
                 /\ \A p \in Runs \ {q} : RunLeft(p)' = RunLeft(p)
      BY <2>0, <3>1, <3>2, ProcessLess
    <3>3. ASSUME Live(r), Process!NewCall \/ \E c \in Callers : Process!CallerStep(c)
          PROVE  RunLeft(r)' <= RunLeft(r)
      <4>1. Calling /\ UNCHANGED alive
        BY <3>3, ProcessCalls, ProcessCaller DEF Process!NewCall, Process!CallerStep, Process!procVars
      <4> QED
        BY <2>0, <3>1, <3>3, <4>1, CallLeaves
    <3>4. ASSUME NEW q \in Runs, ProcessAlone(q) PROVE RunLeft(r)' <= RunLeft(r)
      BY <3>1, <3>4, AloneLeaves
    <3>5. GoesOn(r) => RunLeft(r)' < RunLeft(r)
      <4>1. Process!Kill(r) => RunLeft(r)' < RunLeft(r)
        BY <3>1, AloneLeaves DEF ProcessAlone
      <4> QED
        BY <3>1, <3>2, <4>1 DEF GoesOn
    <3>6. ASSUME NEW q \in Runs, Process!RunStep(q) PROVE RunLeft(r)' <= RunLeft(r)
      <4>1. CASE q = r
        BY <2>0, <3>2, <3>6, <4>1
      <4>2. CASE q # r
        BY <2>0, <3>2, <3>6, <4>2
      <4> QED
        BY <4>1, <4>2
    <3> QED
      BY <2>3, <3>3, <3>4, <3>5, <3>6
         DEF ProcessStep, Process!Next, Process!Callers, Callers, Process!Runs, Runs, ProcessAlone
  <2> QED
    BY <2>1, <2>2, <2>3 DEF Next
<1>2. LifeInv /\ MirrorsTyped /\ [Next]_vars => [Winds]_vars
  BY <1>1
<1>3. LifeInv /\ MirrorsTyped /\ [Next]_vars => MirrorsTyped'
  BY MirrorsKept
<1> QED
  BY <1>2, <1>3, MirrorsInit, AllRunsBounded, LifeHeld, PTL DEF Spec, RunsWindDown
=============================================================================
