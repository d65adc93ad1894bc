------------------------------ MODULE Engines ------------------------------
(***************************************************************************)
(* One download task, of the engine that fits its link: httpengine,        *)
(* megalink, or one of the two that run a program, ytdlpengine and         *)
(* boothengine.  The scheduler and the add handler see the Task interface  *)
(* only, so that what they rely on is stated here, once for all engines.   *)
(* The engine is chosen when the task is created and stays; what belongs   *)
(* to the other engines keeps its initial value.                           *)
(***************************************************************************)
EXTENDS EngineTask

CONSTANTS
    Mirrors,       \* how many links an HTTP download has
    MaxProcesses   \* bound: how many of the runs may start a process

ASSUME MirrorsAssumption == Mirrors \in Nat \ {0}
ASSUME MaxProcessesAssumption == MaxProcesses \in Nat

VARIABLES
    engine,                           \* the package that implements the task
    plan, arrived, mirror, file, sidecar, overshot,   \* of HttpTask
    named, content, shown,                            \* of MegaTask
    alive, helped, deaf, blocked, exited              \* of SubprocessTask

Http == INSTANCE HttpTask
Mega == INSTANCE MegaTask
Process == INSTANCE SubprocessTask

httpVars == <<plan, arrived, mirror, file, sidecar, overshot>>
megaVars == <<named, content, shown>>
procVars == <<alive, helped, deaf, blocked, exited>>
vars == <<engineVars, engine, httpVars, megaVars, procVars>>

TypeOK ==
    \/ engine = "http" /\ Http!TypeOK
    \/ engine = "mega" /\ Mega!TypeOK
    \/ engine = "process" /\ Process!TypeOK

Init ==
    /\ engine \in {"http", "mega", "process"}
    /\ Http!Init /\ Mega!Init /\ Process!Init
    /\ engine # "http" => plan = "none"

\* What belongs to the other engines.
OthersKept ==
    /\ engine' = engine
    /\ engine # "http" => UNCHANGED httpVars
    /\ engine # "mega" => UNCHANGED megaVars
    /\ engine # "process" => UNCHANGED procVars

HttpStep == engine = "http" /\ Http!Next /\ OthersKept
MegaStep == engine = "mega" /\ Mega!Next /\ OthersKept
ProcessStep == engine = "process" /\ Process!Next /\ OthersKept

Next == HttpStep \/ MegaStep \/ ProcessStep

Spec == Init /\ [][Next]_vars

\* A caller inside a method goes on.
Caller(c) ==
    /\ \/ engine = "http" /\ Http!CallerStep(c)
       \/ engine = "mega" /\ Mega!CallerStep(c)
       \/ engine = "process" /\ Process!CallerStep(c)
    /\ OthersKept

\* A transfer that has been told to stop goes on; so does a goroutine that runs
\* a process, and the kernel that kills it.
Worker(r) ==
    /\ \/ engine = "http" /\ r \in ctxDone /\ Http!RunStep(r)
       \/ engine = "mega" /\ r \in ctxDone /\ Mega!RunStep(r)
       \/ engine = "process" /\ (Process!RunStep(r) \/ Process!Kill(r))
    /\ OthersKept

(***************************************************************************)
(* Every request of a transfer is bound to its context, so that cancelling *)
(* it moves the transfer on; one whose context is not cancelled may stall  *)
(* for ever, because nothing has a timeout.  A process, and what it has    *)
(* started, need never end.                                                *)
(***************************************************************************)
Fairness ==
    /\ \A c \in Callers : WF_vars(Caller(c))
    /\ \A r \in Runs : WF_vars(Worker(r))

FairSpec == Spec /\ Fairness

-----------------------------------------------------------------------------
(* Of every engine.                                                        *)

\* Cancel stops a task (scheduler.go:155): once it has returned, and Pause
\* likewise, nothing of the task is at work.
StoppedIsStill ==
    /\ ~overlapped
    /\ status \in {"paused", "cancelled"} /\ pc["scheduler"] = "idle"
    => \A r \in Runs : ~Live(r)

\* A task that says it runs has somebody working on it, or to be started, or
\* somebody who is about to give it another status, however calls overlap.
ActiveIsWorkedOn ==
    status = "active" =>
        \/ \E r \in Runs : phase[r] = "spawning" \/ Live(r)
        \/ \E c \in Callers : pc[c] \in {"holding", "waiting", "waited"}

\* Being stopped is not a failure: while nothing goes wrong outside, no
\* sequence of calls, overlapping or not, puts a task into the error status,
\* from which the scheduler would not start it again.  There are two
\* exceptions, and no others.  A mega.nz task takes the cancellation of its
\* request for the metadata for a failure (task.go:93-98 of megalink).  And an
\* HTTP download of unknown size that is stopped after its last byte is asked,
\* when it is resumed, for a byte that is not there (task.go:393-411 of
\* httpengine).
NoErrorWithoutFault == status = "error" /\ engine # "mega" => faulted \/ overshot

\* Every step of every engine is one the scheduler's view of a task allows.
ContractKept == Contract!Spec

\* Pause and Cancel, and the scheduler's lock with them, are held up by a
\* transfer only until it has noticed its context, and by a process only as
\* long as something that it has started holds its output open, whatever
\* amount of output nobody reads: they return.
StopReturns ==
    pc["scheduler"] = "waiting" ~>
        pc["scheduler"] = "idle" \/ overlapped \/ helped # {}

-----------------------------------------------------------------------------
(* Of some.                                                                *)

\* Scheduler.Remove, and with it a deleted task, leaves neither the file of an
\* HTTP download nor its sidecar, nor what mega.nz sent, in the directory.
RemovedLeavesNoFile ==
    dropped /\ ~overlapped => ~file /\ ~sidecar /\ content = "none"

\* A complete mega.nz download has all of its file, whatever was paused,
\* truncated and started over before.
CompleteMeansWhole ==
    status = "complete" /\ ~overlapped /\ engine = "mega" => content = "all"

\* Pause kills the subprocess (task.go:72-74 of ytdlpengine), Cancel stops the
\* task (scheduler.go:155), and a task that has ended by itself is reaped: none
\* of them leaves a process behind.  Nor is there what the subprocess has
\* started, because its output is read to the end, unless both scanners have
\* given up.
NoProcessLeft ==
    /\ ~overlapped
    /\ status # "active" /\ pc["scheduler"] = "idle"
    => alive = {} /\ \A r \in helped : deaf[r] = {"stdout", "stderr"}

\* A process that has ended, whatever it wrote and however it ended, is
\* reaped, and its task gets the status that goes with it: only a helper
\* that still holds its pipes can keep the goroutine.
ExitIsNoticed ==
    \A r \in Runs : exited[r] # "not" ~> ~Live(r) \/ r \in helped
=============================================================================
