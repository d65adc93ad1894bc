------------------------------ MODULE Scheduler ------------------------------
(***************************************************************************)
(* The task scheduler of core/internal/scheduler and the API handlers that *)
(* call it.  Scheduler.mu serialises Enqueue, Pause, Resume, Cancel and    *)
(* Remove, but two things happen outside it: the engines' goroutines end a *)
(* transfer whenever they like, and an add handler calls Resume on its new *)
(* task after Enqueue has returned.  The model keeps the steps of          *)
(* rescheduleLocked apart so that both of those interleave with it.  What  *)
(* a save writes is the subject of TaskList.                               *)
(*                                                                         *)
(* A task is known here by its status only; what an engine does to reach   *)
(* it is the subject of the engine modules.  Locking s.mu, looking the     *)
(* task up and calling its Pause, Resume, Cancel or Remove is one step.    *)
(* What that leaves out is an add handler's Resume that overlaps such a    *)
(* call: the engine modules show that the task may then be at work though  *)
(* it is paused, cancelled or removed, so here it may still end, and a     *)
(* torrent may still start.                                                *)
(***************************************************************************)
EXTENDS Integers, FiniteSets

CONSTANTS
    Tasks,          \* task IDs; IDs are compared to break ties, so: numbers
    Handlers,       \* goroutines serving API requests
    Priority,       \* Options.Priority of each task
    MaxConcurrent,  \* Scheduler.maxConcurrent; <= 0 means unlimited
    Torrents        \* tasks of torrentengine: Resume may fail at once, and
                    \* the kill switch may trip

ASSUME TasksAssumption == Tasks \subseteq Nat /\ IsFiniteSet(Tasks)
ASSUME PriorityAssumption == Priority \in [Tasks -> Int]
ASSUME MaxConcurrentAssumption == MaxConcurrent \in Int
ASSUME TorrentsAssumption == Torrents \subseteq Tasks

VARIABLES
    entries,  \* Scheduler.entries: the IDs it holds
    addedAt,  \* entry.addedAt
    status,   \* each task's own status; "none" before the task is created
    pc,       \* where each handler is: idle, holding s.mu, about to call
              \* Resume itself, in it and yet to start the goroutine
    op,       \* the task of each handler's request, and the request
    scan,     \* entries the filter of rescheduleLocked has yet to look at
    queue,    \* the part of `runnable' not yet visited by its last loop
    index,    \* the index of the next visited element of `runnable'
    overlapped, \* tasks whose add handler's Resume overlapped with a stop
    stray,    \* history: running since an add handler's own Resume, and
              \* not visited by a reschedule since
    lapsed    \* history: ended by themselves, running or counted on by a
              \* plan, and not seen by the filter of a reschedule since

vars == <<entries, addedAt, status, pc, op, scan, queue, index, overlapped, stray, lapsed>>

Statuses == {"pending", "active", "paused", "complete", "error", "cancelled"}
Requests == {"none", "add", "pause", "resume", "cancel", "remove"}

NoOp == [kind |-> "none", task |-> 0]

-----------------------------------------------------------------------------
(* The statuses a task takes when the scheduler calls it (task.Task).      *)

Finished == {"complete", "cancelled", "error"}
Waiting(s) == s \in {"pending", "paused"}

\* Fault for RemovedStaysStopped: Resume forgets about cancelled tasks.
ResumableWhenCancelled(s) == s \notin {"active", "complete"}

\* Resume is ignored by a task that runs, is done or was cancelled.
Resumable(s) == s \notin {"active", "complete", "cancelled"}

\* The statuses Resume may leave task t with, starting from s.
ResumeOutcomes(t, s) ==
    IF Resumable(s)
    THEN {"active"} \cup (IF t \in Torrents THEN {"error"} ELSE {})
    ELSE {s}

\* Pause is ignored by a task that is not running.
PauseOutcome(s) == IF s = "active" THEN "paused" ELSE s

-----------------------------------------------------------------------------
(* The order of rescheduleLocked: priority, then age, then ID.             *)

Before(a, b) ==
    \/ Priority[a] > Priority[b]
    \/ /\ Priority[a] = Priority[b]
       /\ \/ addedAt[a] < addedAt[b]
          \/ addedAt[a] = addedAt[b] /\ a < b

\* Fault for NoPriorityInversion: `runnable' is not sorted.
IsFirstUnsorted(t) == t \in queue

IsFirst(t) == t \in queue /\ \A u \in queue \ {t} : Before(t, u)

\* s.mu is held by the handler whose pc says so.
Locked == \E h \in Handlers : pc[h] = "locked"

\* t is being stopped.  If its add handler has yet to call Resume, or is in
\* it, the two calls may overlap or they may not.
Stopping(t) ==
    \/ UNCHANGED overlapped
    \/ /\ \E h \in Handlers : pc[h] \in {"resume", "spawn"} /\ op[h].task = t
       /\ overlapped' = overlapped \cup {t}

\* t ends by itself, and may leave a slot unused.
Lapse(t) ==
    lapsed' = IF status[t] = "active" \/ t \in queue THEN lapsed \cup {t} ELSE lapsed

-----------------------------------------------------------------------------
TypeOK ==
    /\ entries \in SUBSET Tasks
    /\ addedAt \in [Tasks -> Nat]
    /\ status \in [Tasks -> Statuses \cup {"none"}]
    /\ pc \in [Handlers -> {"idle", "locked", "resume", "spawn"}]
    /\ op \in [Handlers -> [kind : Requests, task : Nat]]
    /\ \A h \in Handlers : pc[h] # "idle" => op[h].task \in Tasks
    /\ scan \in SUBSET Tasks
    /\ queue \in SUBSET Tasks
    /\ index \in Nat
    /\ overlapped \in SUBSET Tasks
    /\ stray \in SUBSET Tasks
    /\ lapsed \in SUBSET Tasks

Init ==
    /\ entries = {}
    /\ addedAt = [t \in Tasks |-> 0]
    /\ status = [t \in Tasks |-> "none"]
    /\ pc = [h \in Handlers |-> "idle"]
    /\ op = [h \in Handlers |-> NoOp]
    /\ scan = {}
    /\ queue = {}
    /\ index = 0
    /\ overlapped = {}
    /\ stray = {}
    /\ lapsed = {}

-----------------------------------------------------------------------------
(* The requests.  Each takes s.mu, does its own part, and leaves the       *)
(* handler at the start of rescheduleLocked.                               *)

StartRequest(h, kind, t) ==
    /\ ~Locked
    /\ pc[h] = "idle"
    /\ pc' = [pc EXCEPT ![h] = "locked"]
    /\ op' = [op EXCEPT ![h] = [kind |-> kind, task |-> t]]

\* rescheduleLocked begins: without a limit it returns at once.
StartReschedule(es) ==
    /\ scan' = IF MaxConcurrent > 0 THEN es ELSE {}
    /\ queue' = {}
    /\ index' = 0

\* time.Now() at Enqueue: the latest reading so far, or the next one.
StampNow(t) ==
    \E n \in 0 .. Cardinality(Tasks) :
        /\ \A u \in Tasks : addedAt[u] <= n
        /\ n = 0 \/ \E u \in Tasks : status[u] # "none" /\ n - 1 <= addedAt[u]
        /\ addedAt' = [addedAt EXCEPT ![t] = n]

Enqueue(h, t) ==
    /\ status[t] = "none"
    /\ StartRequest(h, "add", t)
    /\ entries' = entries \cup {t}
    /\ StampNow(t)
    /\ status' = [status EXCEPT ![t] = "pending"]
    /\ StartReschedule(entries \cup {t})
    /\ UNCHANGED <<overlapped, stray, lapsed>>

Pause(h, t) ==
    /\ t \in entries
    /\ StartRequest(h, "pause", t)
    /\ status' = [status EXCEPT ![t] = PauseOutcome(@)]
    /\ StartReschedule(entries)
    /\ stray' = stray \ {t}
    /\ Stopping(t)
    /\ UNCHANGED <<entries, addedAt, lapsed>>

Resume(h, t) ==
    /\ t \in entries
    /\ StartRequest(h, "resume", t)
    /\ status' = [status EXCEPT ![t] = IF Resumable(@) THEN "active" ELSE @]
    /\ StartReschedule(entries)
    /\ UNCHANGED <<entries, addedAt, overlapped, stray, lapsed>>

\* mutate returns the task's error before it reschedules or saves.
ResumeFails(h, t) ==
    /\ ~Locked
    /\ pc[h] = "idle"
    /\ t \in entries \cap Torrents
    /\ Resumable(status[t])
    /\ status' = [status EXCEPT ![t] = "error"]
    /\ UNCHANGED <<entries, addedAt, pc, op, scan, queue, index,
                   overlapped, stray, lapsed>>

Cancel(h, t) ==
    /\ t \in entries
    /\ StartRequest(h, "cancel", t)
    /\ status' = [status EXCEPT ![t] = "cancelled"]
    /\ StartReschedule(entries)
    /\ stray' = stray \ {t}
    /\ Stopping(t)
    /\ UNCHANGED <<entries, addedAt, lapsed>>

Remove(h, t) ==
    /\ t \in entries
    /\ StartRequest(h, "remove", t)
    /\ status' = [status EXCEPT ![t] = "cancelled"]
    /\ entries' = entries \ {t}
    /\ StartReschedule(entries \ {t})
    /\ stray' = stray \ {t}
    /\ Stopping(t)
    /\ UNCHANGED <<addedAt, lapsed>>

-----------------------------------------------------------------------------
(* rescheduleLocked, one task at a time.                                   *)

\* Fault for SlotsIdleOnlyAfterLapse: paused tasks are not put back in line.
FilterSkipsPaused(h, t) ==
    /\ pc[h] = "locked"
    /\ t \in scan
    /\ scan' = scan \ {t}
    /\ queue' = IF status[t] \in Finished \cup {"paused"} THEN queue ELSE queue \cup {t}
    /\ lapsed' = lapsed \ {t}
    /\ UNCHANGED <<entries, addedAt, status, pc, op, index,
                   overlapped, stray>>

\* The filter reads one task's status; map iteration order is random.
Filter(h, t) ==
    /\ pc[h] = "locked"
    /\ t \in scan
    /\ scan' = scan \ {t}
    /\ queue' = IF status[t] \in Finished THEN queue ELSE queue \cup {t}
    /\ lapsed' = lapsed \ {t}
    /\ UNCHANGED <<entries, addedAt, status, pc, op, index,
                   overlapped, stray>>

\* The loop visits the next element of the sorted slice.
NextInPlan(h, t) ==
    /\ pc[h] = "locked"
    /\ scan = {}
    /\ IsFirst(t)
    /\ queue' = queue \ {t}
    /\ index' = index + 1
    /\ stray' = stray \ {t}

\* Fault for LimitUpToStrays: the limit is off by one.
GiveSlotOneMore(h, t) ==
    /\ index <= MaxConcurrent
    /\ NextInPlan(h, t)
    /\ \E s \in ResumeOutcomes(t, status[t]) :
          /\ status' = [status EXCEPT ![t] = s]
          /\ IF s = "error" THEN Lapse(t) ELSE UNCHANGED lapsed
    /\ UNCHANGED <<entries, addedAt, pc, op, scan, overlapped>>

GiveSlot(h, t) ==
    /\ index < MaxConcurrent
    /\ NextInPlan(h, t)
    /\ \E s \in ResumeOutcomes(t, status[t]) :
          /\ status' = [status EXCEPT ![t] = s]
          /\ IF s = "error" THEN Lapse(t) ELSE UNCHANGED lapsed
    /\ UNCHANGED <<entries, addedAt, pc, op, scan, overlapped>>

TakeSlot(h, t) ==
    /\ index >= MaxConcurrent
    /\ NextInPlan(h, t)
    /\ status' = [status EXCEPT ![t] = PauseOutcome(@)]
    /\ Stopping(t)
    /\ UNCHANGED <<entries, addedAt, pc, op, scan, lapsed>>

\* The deferred unlock, after the save; an add handler still has its own
\* Resume to call.
Unlock(h) ==
    /\ pc[h] = "locked"
    /\ scan = {} /\ queue = {}
    /\ pc' = [pc EXCEPT ![h] = IF op[h].kind = "add" THEN "resume" ELSE "idle"]
    /\ op' = [op EXCEPT ![h] = IF @.kind = "add" THEN @ ELSE NoOp]
    /\ index' = 0
    /\ UNCHANGED <<entries, addedAt, status, scan, queue, overlapped,
                   stray, lapsed>>

-----------------------------------------------------------------------------
(* What happens without s.mu.                                              *)

\* A torrent's start is slow and does not look at the status again: one that
\* is stopped meanwhile, or started by the scheduler, and perhaps done with,
\* starts all the same.
LateOutcomes(t) ==
    IF t \in Torrents /\ (t \in overlapped \/ status[t] \in {"active", "complete"})
    THEN {"active", "error"} ELSE {}

\* The add handlers call tk.Resume() themselves once Enqueue has returned.
DirectResume(h) ==
    LET t == op[h].task IN
    /\ pc[h] = "resume"
    /\ \E s \in ResumeOutcomes(t, status[t]) \cup LateOutcomes(t) :
          /\ status' = [status EXCEPT ![t] = s]
          /\ stray' = IF s = "active" /\ status[t] # "active"
                      THEN stray \cup {t} ELSE stray
          /\ IF s = "error" THEN Lapse(t) ELSE UNCHANGED lapsed
    /\ pc' = [pc EXCEPT ![h] = "spawn"]
    /\ UNCHANGED <<entries, addedAt, op, scan, queue, index, overlapped>>

\* wg.Add and the go statement, and the response.
Respond(h) ==
    /\ pc[h] = "spawn"
    /\ pc' = [pc EXCEPT ![h] = "idle"]
    /\ op' = [op EXCEPT ![h] = NoOp]
    /\ UNCHANGED <<entries, addedAt, status, scan, queue, index,
                   overlapped, stray, lapsed>>

\* An engine's goroutine ends the transfer.
Finish(t) ==
    /\ status[t] = "active" \/ t \in overlapped
    /\ \E s \in {"complete", "error"} : status' = [status EXCEPT ![t] = s]
    /\ stray' = stray \ {t}
    /\ Lapse(t)
    /\ UNCHANGED <<entries, addedAt, pc, op, scan, queue, index, overlapped>>

\* The kill switch of a torrent runs on while it is paused or seeding, and
\* does not look at the status when it trips.
TripKillSwitch(t) ==
    /\ t \in Torrents
    /\ status[t] \in {"active", "paused", "complete"}
    /\ status' = [status EXCEPT ![t] = "error"]
    /\ stray' = stray \ {t}
    /\ Lapse(t)
    /\ UNCHANGED <<entries, addedAt, pc, op, scan, queue, index, overlapped>>

-----------------------------------------------------------------------------
Reschedule(h) ==
    \/ \E t \in Tasks : Filter(h, t) \/ GiveSlot(h, t) \/ TakeSlot(h, t)
    \/ Unlock(h)

Request(h) ==
    \E t \in Tasks :
        \/ Enqueue(h, t)
        \/ Pause(h, t)
        \/ Resume(h, t)
        \/ ResumeFails(h, t)
        \/ Cancel(h, t)
        \/ Remove(h, t)

Next ==
    \/ \E h \in Handlers : Request(h) \/ Reschedule(h) \/ DirectResume(h) \/ Respond(h)
    \/ \E t \in Tasks : Finish(t) \/ TripKillSwitch(t)

Spec == Init /\ [][Next]_vars

-----------------------------------------------------------------------------
(* What the scheduler promises.                                            *)

Running == {t \in entries : status[t] = "active"}

\* What rescheduleLocked does achieve: whatever the engines and the add
\* handlers do while it works, when s.mu is free the tasks over the limit are
\* all ones an add handler has resumed by itself and no reschedule has
\* visited since.
LimitUpToStrays ==
    MaxConcurrent > 0 /\ ~Locked => Cardinality(Running \ stray) <= MaxConcurrent

\* rescheduleLocked's ordering: when s.mu is free, no task waits behind a
\* running one that ranks below it, add handlers' own resumes excepted.
NoPriorityInversion ==
    MaxConcurrent > 0 /\ ~Locked =>
        \A a \in entries, b \in Running \ stray :
            Before(a, b) => ~Waiting(status[a])

\* A reschedule hands out every slot: when s.mu is free and a task waits,
\* each unused slot belonged to a task that stopped by itself after the last
\* filter had read it.
SlotsIdleOnlyAfterLapse ==
    /\ MaxConcurrent > 0 /\ ~Locked
    /\ \E t \in entries : Waiting(status[t])
    => Cardinality(Running \cup (lapsed \cap entries)) >= MaxConcurrent

\* Remove is final: a task that has left Scheduler.entries is cancelled and
\* stays so, also when its add handler gets to its Resume only afterwards.
\* The one exception is a Resume that the removal, or an earlier stop, has
\* overlapped with.
RemovedStaysStopped ==
    \A t \in Tasks \ overlapped :
        status[t] # "none" /\ t \notin entries => status[t] = "cancelled"

\* Pause's comment (scheduler.go:143-144): the task a Pause request names
\* is not running when the request returns.
PauseFreesSlot ==
    [][\A h \in Handlers :
          pc[h] = "locked" /\ pc'[h] = "idle" /\ op[h].kind = "pause"
          => status[op[h].task] # "active"]_vars

-----------------------------------------------------------------------------
(***************************************************************************)
(* The inductive invariant.  LimitUpToStrays and NoPriorityInversion speak *)
(* of the moments when s.mu is free; what makes them true there is what a  *)
(* reschedule has established by each of its steps.                        *)
(***************************************************************************)

\* Running tasks the current plan has dealt with, or will not.
Settled == (Running \ stray) \ (scan \cup queue)

\* One handler holds s.mu, and only it has a plan; the filter reads each entry
\* once and ends before the loop starts; without a limit nothing is planned.
Discipline ==
    /\ \A g, h \in Handlers : pc[g] = "locked" /\ pc[h] = "locked" => g = h
    /\ ~Locked => scan = {} /\ queue = {}
    /\ scan # {} => index = 0
    /\ scan \cap queue = {}
    /\ MaxConcurrent <= 0 => scan = {} /\ queue = {}

\* The entries a reschedule is working through are still the scheduler's:
\* nothing leaves Scheduler.entries under its feet.
PlanWithinEntries == scan \cup queue \subseteq entries

\* Requests and entries are about tasks that exist.
Created ==
    /\ \A t \in entries : status[t] # "none"
    /\ \A h \in Handlers : pc[h] # "idle" => status[op[h].task] # "none"

\* As many tasks have a slot as the loop has given away, and never too many.
SlotsCounted ==
    /\ Cardinality(Settled) <= MaxConcurrent
    /\ Locked => Cardinality(Settled) <= index
    /\ Locked /\ index = 0 => Settled = {}

\* Slots go in the order of the plan: nothing the loop has passed waits
\* while there are slots left, and who has one comes before the rest.
SlotsOrdered ==
    /\ \A a \in entries, b \in Settled : Before(a, b) => ~Waiting(status[a])
    /\ Locked /\ index < MaxConcurrent =>
          \A a \in entries \ (scan \cup queue) : ~Waiting(status[a])
    /\ \A b \in Settled, q \in queue : Before(b, q)

\* Every slot given away is in use, or was until its task stopped by itself.
Used == Running \cup (lapsed \cap entries)

SlotsUsed ==
    /\ \A t \in queue : status[t] \in Finished => t \in lapsed
    /\ Locked => \/ index <= Cardinality(Used \ queue)
                 \/ MaxConcurrent <= Cardinality(Used \ queue)
    /\ SlotsIdleOnlyAfterLapse

\* All of it: what a reschedule maintains at each of its steps.
SchedulerInv ==
    /\ TypeOK
    /\ Discipline
    /\ PlanWithinEntries
    /\ Created
    /\ RemovedStaysStopped
    /\ MaxConcurrent > 0 => SlotsCounted /\ SlotsOrdered /\ SlotsUsed
=============================================================================
