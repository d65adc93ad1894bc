--------------------------- MODULE SubprocessTask ---------------------------
(***************************************************************************)
(* ytdlpengine.Task and boothengine.Task: a transfer done by a subprocess. *)
(* There is no pausing a process: Pause and Cancel cancel the context the  *)
(* process was started with, os/exec kills it, and Resume starts another.  *)
(* The goroutine reads what the process writes to stdout, another one what *)
(* it writes to stderr, each to the end, and then the process is reaped.   *)
(* A pipe ends when nobody can write to it any more: not the process, and  *)
(* not another program it has started, such as the ffmpeg of a yt-dlp.     *)
(* bufio.Scanner gives up at a line that is longer than its buffer, and    *)
(* then nobody empties that pipe.                                          *)
(***************************************************************************)
EXTENDS EngineTask

CONSTANT MaxProcesses   \* bound: how many of the runs may start a process

VARIABLES
    alive,    \* the runs whose subprocess is running
    helped,   \* the runs whose subprocess has left a helper running
    deaf,     \* the pipes of each run whose scanner has given up
    blocked,  \* the runs whose subprocess waits for room in such a pipe
    exited    \* how the subprocess of each run ended

pipes == <<helped, deaf, blocked>>
procVars == <<alive, exited, pipes>>
vars == <<engineVars, procVars>>

Phases == {"setup", "start", "stdout", "stderr", "wait"}

TypeOK ==
    /\ EngineTypeOK(Phases)
    /\ alive \subseteq Runs
    /\ exited \in [Runs -> {"not", "zero", "nonzero", "killed"}]
    /\ helped \subseteq Runs /\ blocked \subseteq Runs
    /\ deaf \in [Runs -> SUBSET {"stdout", "stderr"}]

Init ==
    /\ EngineInit
    /\ alive = {}
    /\ exited = [r \in Runs |-> "not"]
    /\ helped = {} /\ blocked = {}
    /\ deaf = [r \in Runs |-> {}]

-----------------------------------------------------------------------------
(* run                                                                     *)

\* The directory, and for BoothDownloader its config file, and the pipes.
Setup(r) ==
    /\ phase[r] = "setup"
    /\ Goto(r, "start") \/ FailByFault(r)
    /\ UNCHANGED procVars

\* exec.Cmd.Start does not start a process under a cancelled context.
Start(r) ==
    /\ phase[r] = "start"
    /\ r \notin ctxDone
    /\ Goto(r, "stdout")
    /\ alive' = alive \cup {r}
    /\ UNCHANGED <<exited, pipes>>

StartFails(r) ==
    /\ phase[r] = "start"
    /\ EndSilently(r) \/ (r \notin ctxDone /\ FailByFault(r))
    /\ UNCHANGED procVars

\* The scanner of a pipe has ended.
ReadOut(r, pipe) == r \notin alive \cup helped \/ pipe \in deaf[r]

\* scanProgress or scanLogLines returns.
StdoutEnds(r) ==
    /\ phase[r] = "stdout"
    /\ ReadOut(r, "stdout")
    /\ Goto(r, "stderr")
    /\ UNCHANGED procVars

\* Fault for ExitIsNoticed: the end of stderr is not told to the WaitGroup.
StderrEndsUntold(r) ==
    /\ phase[r] = "stderr"
    /\ "stderr" \in deaf[r]
    /\ Goto(r, "wait")
    /\ UNCHANGED procVars

\* stderrWg.Wait() returns.
StderrEnds(r) ==
    /\ phase[r] = "stderr"
    /\ ReadOut(r, "stderr")
    /\ Goto(r, "wait")
    /\ UNCHANGED procVars

\* Fault for NoProcessLeft: run returns without waiting for the process.
ReapEarly(r) ==
    /\ phase[r] = "wait"
    /\ EndSilently(r)
    /\ UNCHANGED procVars

\* cmd.Wait() returns when the process has ended: a cancelled context comes
\* before the exit code, which a killed process has none of.
Reap(r) ==
    /\ phase[r] = "wait"
    /\ r \notin alive
    /\ \/ EndSilently(r)
       \/ r \notin ctxDone /\ exited[r] # "zero" /\ FailUnprovoked(r)
       \/ r \notin ctxDone /\ exited[r] = "zero" /\ Complete(r)
    /\ UNCHANGED procVars

RunStep(r) ==
    \/ Setup(r) \/ Start(r) \/ StartFails(r)
    \/ StdoutEnds(r) \/ StderrEnds(r) \/ Reap(r)

-----------------------------------------------------------------------------
(* The process.                                                            *)

LongLine(r, pipe) ==
    /\ r \in alive /\ pipe \notin deaf[r]
    /\ deaf' = [deaf EXCEPT ![r] = @ \cup {pipe}]
    /\ UNCHANGED <<engineVars, alive, exited, helped, blocked>>

\* What it writes from then on fits into the pipe, or does not.
Block(r) ==
    /\ r \in alive \ blocked /\ deaf[r] # {}
    /\ blocked' = blocked \cup {r}
    /\ UNCHANGED <<engineVars, alive, exited, helped, deaf>>

StartHelper(r) ==
    /\ r \in alive \ helped
    /\ helped' = helped \cup {r}
    /\ UNCHANGED <<engineVars, alive, exited, deaf, blocked>>

HelperEnds(r) ==
    /\ r \in helped
    /\ helped' = helped \ {r}
    /\ UNCHANGED <<engineVars, alive, exited, deaf, blocked>>

Exit(r) ==
    /\ r \in alive \ blocked
    /\ alive' = alive \ {r}
    /\ \E code \in {"zero", "nonzero"} :
          /\ exited' = [exited EXCEPT ![r] = code]
          /\ faulted' = (faulted \/ code = "nonzero")
    /\ UNCHANGED <<status, cancelOf, phase, ctxDone, pc, call, held,
                   dropped, overlapped, pipes>>

\* exec.CommandContext kills it when the context is cancelled: the process,
\* and nothing that it has started.
Kill(r) ==
    /\ r \in alive
    /\ r \in ctxDone
    /\ alive' = alive \ {r}
    /\ exited' = [exited EXCEPT ![r] = "killed"]
    /\ blocked' = blocked \ {r}
    /\ UNCHANGED <<engineVars, helped, deaf>>

-----------------------------------------------------------------------------
(* The methods are those of the common part; Remove keeps the files.       *)

CallerStep(c) ==
    /\ \/ Spawn(c, "setup") \/ CancelContext(c) \/ WaitReturns(c)
       \/ SettlePause(c) \/ SettleCancel(c)
    /\ UNCHANGED procVars

NewCall ==
    /\ \/ \E c \in Callers :
             \/ Resume(c) /\ \A r \in Runs : r > MaxProcesses => phase'[r] = "none"
             \/ ResumeIgnored(c)
       \/ Pause
       \/ Cancel("cancel") \/ Cancel("remove")
    /\ UNCHANGED procVars

Next ==
    \/ NewCall
    \/ \E c \in Callers : CallerStep(c)
    \/ \E r \in Runs :
          \/ RunStep(r)
          \/ \E pipe \in {"stdout", "stderr"} : LongLine(r, pipe)
          \/ Block(r) \/ StartHelper(r) \/ HelperEnds(r)
          \/ Exit(r) \/ Kill(r)

Spec == Init /\ [][Next]_vars
=============================================================================
