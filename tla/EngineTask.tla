----------------------------- MODULE EngineTask -----------------------------
(***************************************************************************)
(* The life of a task whose transfer is one goroutine: the part that       *)
(* httpengine, megalink, ytdlpengine and boothengine have in common.       *)
(* Resume starts the goroutine `run' with a context of its own; Pause and  *)
(* Cancel cancel the context and wait for the task's WaitGroup.  What run  *)
(* does is left to the engine's module, which extends this one.            *)
(*                                                                         *)
(* The callers are goroutines too.  The scheduler makes its calls under    *)
(* its own lock, one at a time: it is a single caller.  The handler that   *)
(* added the task calls Resume once more, outside that lock.  What the     *)
(* engines promise only to calls that do not overlap says so.              *)
(***************************************************************************)
EXTENDS Naturals

CONSTANT MaxRuns   \* bound: how many runs the checked behaviours start

ASSUME MaxRunsAssumption == MaxRuns \in Nat

VARIABLES
    status,   \* Task.status
    cancelOf, \* the run whose context Task.cancel cancels; 0: none
    phase,    \* where the goroutine of each run is
    ctxDone,  \* the runs whose context is cancelled
    pc,       \* where each caller is
    call,     \* the method each caller is in
    held,     \* the run a caller is about to start, or has the cancel of
    dropped,  \* Scheduler.Remove is done with it: no more calls from there
    overlapped,  \* two callers have been inside methods at once
    faulted      \* a disk, a network, a server or a process has failed

seen == <<dropped, overlapped, faulted>>
engineVars == <<status, cancelOf, phase, ctxDone, pc, call, held, seen>>

Callers == {"scheduler", "adder"}
Runs == 1 .. MaxRuns
Statuses == {"pending", "active", "paused", "complete", "error", "cancelled"}
Calls == {"none", "resume", "pause", "cancel", "remove"}

\* A run counts in the WaitGroup from wg.Add to wg.Done.
Live(r) == phase[r] \notin {"none", "spawning", "ended"}

EngineTypeOK(phases) ==
    /\ status \in Statuses
    /\ cancelOf \in {0} \cup Runs
    /\ phase \in [Runs -> {"none", "spawning", "ended"} \cup phases]
    /\ ctxDone \subseteq Runs
    /\ pc \in [Callers -> {"idle", "spawn", "holding", "waiting", "waited", "gone"}]
    /\ call \in [Callers -> Calls]
    /\ held \in [Callers -> {0} \cup Runs]
    /\ dropped \in BOOLEAN /\ overlapped \in BOOLEAN /\ faulted \in BOOLEAN

EngineInit ==
    /\ status = "pending"
    /\ cancelOf = 0
    /\ phase = [r \in Runs |-> "none"]
    /\ ctxDone = {}
    /\ pc = [c \in Callers |-> "idle"]
    /\ call = [c \in Callers |-> "none"]
    /\ held = [c \in Callers |-> 0]
    /\ dropped = FALSE /\ overlapped = FALSE /\ faulted = FALSE

\* A caller is inside a method.
Inside(c) == pc[c] \notin {"idle", "gone"}

Enter(c, method, r, next) ==
    /\ pc[c] = "idle"
    /\ c = "scheduler" => ~dropped
    /\ pc' = [pc EXCEPT ![c] = next]
    /\ call' = [call EXCEPT ![c] = method]
    /\ held' = [held EXCEPT ![c] = r]
    /\ overlapped' = (overlapped \/ \E d \in Callers : Inside(d))

\* The add handler's one call is over; the scheduler's next one may come.
Return(c) ==
    /\ pc' = [pc EXCEPT ![c] = IF c = "adder" THEN "gone" ELSE "idle"]
    /\ call' = [call EXCEPT ![c] = "none"]
    /\ held' = [held EXCEPT ![c] = 0]

-----------------------------------------------------------------------------
(* Resume: the critical section, and then the goroutine.                   *)

Resume(c) ==
    /\ status \notin {"active", "complete", "cancelled"}
    /\ \E r \in Runs :
          /\ phase[r] = "none" /\ \A q \in Runs : q < r => phase[q] # "none"
          /\ Enter(c, "resume", r, "spawn")
          /\ phase' = [phase EXCEPT ![r] = "spawning"]
          /\ cancelOf' = r
    /\ status' = "active"
    /\ UNCHANGED <<ctxDone, dropped, faulted>>

ResumeIgnored(c) ==
    /\ status \in {"active", "complete", "cancelled"}
    /\ pc[c] = "idle"
    /\ Return(c)
    /\ UNCHANGED <<status, cancelOf, phase, ctxDone, seen>>

\* wg.Add(1); go run(ctx): after t.mu was released.
Spawn(c, first) ==
    /\ pc[c] = "spawn"
    /\ phase' = [phase EXCEPT ![held[c]] = first]
    /\ Return(c)
    /\ UNCHANGED <<status, cancelOf, ctxDone, seen>>

-----------------------------------------------------------------------------
(* Pause and Cancel: read t.cancel under t.mu, call it, wait, set status.  *)

Pause ==
    /\ status = "active"
    /\ Enter("scheduler", "pause", cancelOf, "holding")
    /\ UNCHANGED <<status, cancelOf, phase, ctxDone, dropped, faulted>>

Cancel(method) ==
    /\ Enter("scheduler", method, cancelOf, "holding")
    /\ UNCHANGED <<status, cancelOf, phase, ctxDone, dropped, faulted>>

\* Fault for StopReturns: the context is never cancelled.
CancelContextForgotten(c) ==
    /\ pc[c] = "holding"
    /\ pc' = [pc EXCEPT ![c] = "waiting"]
    /\ UNCHANGED <<status, cancelOf, phase, ctxDone, call, held, seen>>

CancelContext(c) ==
    /\ pc[c] = "holding"
    /\ ctxDone' = ctxDone \cup ({held[c]} \ {0})
    /\ pc' = [pc EXCEPT ![c] = "waiting"]
    /\ UNCHANGED <<status, cancelOf, phase, call, held, seen>>

\* Fault for StoppedIsStill: nobody waits.
WaitReturnsAtOnce(c) ==
    /\ pc[c] = "waiting"
    /\ pc' = [pc EXCEPT ![c] = "waited"]
    /\ UNCHANGED <<status, cancelOf, phase, ctxDone, call, held, seen>>

\* wg.Wait() returns: no run is counted.
WaitReturns(c) ==
    /\ pc[c] = "waiting"
    /\ \A r \in Runs : ~Live(r)
    /\ pc' = [pc EXCEPT ![c] = "waited"]
    /\ UNCHANGED <<status, cancelOf, phase, ctxDone, call, held, seen>>

\* Fault for ContractKept: a download that ended meanwhile is paused, too.
SettlePauseUnchecked(c) ==
    /\ pc[c] = "waited" /\ call[c] = "pause"
    /\ status' = "paused"
    /\ Return(c)
    /\ UNCHANGED <<cancelOf, phase, ctxDone, seen>>

SettlePause(c) ==
    /\ pc[c] = "waited" /\ call[c] = "pause"
    /\ status' = IF status = "active" THEN "paused" ELSE status
    /\ Return(c)
    /\ UNCHANGED <<cancelOf, phase, ctxDone, seen>>

SettleCancel(c) ==
    /\ pc[c] = "waited" /\ call[c] \in {"cancel", "remove"}
    /\ status' = "cancelled"
    /\ dropped' = (dropped \/ call[c] = "remove")
    /\ Return(c)
    /\ UNCHANGED <<cancelOf, phase, ctxDone, overlapped, faulted>>

-----------------------------------------------------------------------------
(* How a run's goroutine moves and ends.                                   *)

Goto(r, next) ==
    /\ phase' = [phase EXCEPT ![r] = next]
    /\ UNCHANGED <<status, cancelOf, ctxDone, pc, call, held, seen>>

\* Fault for ActiveIsWorkedOn: any error is taken for the cancellation.
EndSilentlyAlways(r) == Goto(r, "ended")

\* It returns without a word: somebody else sets the status.
EndSilently(r) == r \in ctxDone /\ Goto(r, "ended")

Complete(r) ==
    /\ phase' = [phase EXCEPT ![r] = "ended"]
    /\ status' = "complete"
    /\ UNCHANGED <<cancelOf, ctxDone, pc, call, held, seen>>

Fail(r) ==
    /\ phase' = [phase EXCEPT ![r] = "ended"]
    /\ status' = "error"
    /\ UNCHANGED <<cancelOf, ctxDone, pc, call, held, dropped, overlapped>>

\* Something really went wrong.
FailByFault(r) == Fail(r) /\ faulted' = TRUE

\* Nothing did, that the code does not itself bring about.
FailUnprovoked(r) == Fail(r) /\ UNCHANGED faulted

-----------------------------------------------------------------------------
(* What the scheduler may rely on.                                         *)

\* The contract binds a task until two of its callers overlap: from then on
\* the mapping shows a cancelled task, of which the contract allows nothing.
Contract == INSTANCE TaskContract WITH
                StartMayFail <- FALSE,
                status <- IF overlapped THEN "cancelled" ELSE status
=============================================================================
