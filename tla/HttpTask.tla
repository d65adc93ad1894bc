------------------------------ MODULE HttpTask ------------------------------
(***************************************************************************)
(* httpengine.Task: one HTTP download with mirrors.  The goroutine probes  *)
(* the mirrors for the size until one answers, then tries the mirrors in   *)
(* order until one yields every segment.  How the segments themselves are  *)
(* fetched is left out here: an attempt at a mirror succeeds, or it ends   *)
(* in an error, and run looks at the error only.  A range without an end,  *)
(* of a file whose size the server does not tell, is asked for again after *)
(* a stop even if its last byte has arrived, and then nobody has more.     *)
(***************************************************************************)
EXTENDS EngineTask

CONSTANT Mirrors   \* len(Options.URLs)

VARIABLES
    plan,      \* Task.segments: none yet; one range without an end; or others,
               \* including the whole file of a server without ranges
    arrived,   \* the last byte of a range without an end has been recorded
    mirror,    \* the index of the mirror each run is at
    file,      \* Task.dest exists
    sidecar,   \* the progress file beside it exists
    overshot   \* history: a range has been asked for from one past its last byte

httpVars == <<plan, arrived, mirror, file, sidecar, overshot>>
vars == <<engineVars, httpVars>>

\* At "past" the request is the one that cannot be answered; at "tail" there is
\* only the end of the body to come; the last three are the errors of an attempt.
Phases == {"mkdir", "ensure", "open", "fetch", "tail", "past", "finalize",
           "faulty", "refused", "stopped"}

TypeOK ==
    /\ EngineTypeOK(Phases)
    /\ plan \in {"none", "endless", "other"} /\ arrived \in BOOLEAN
    /\ mirror \in [Runs -> 1 .. Mirrors]
    /\ file \in BOOLEAN /\ sidecar \in BOOLEAN
    /\ overshot \in BOOLEAN

\* New takes up the segments of a progress file it finds.
Init ==
    /\ EngineInit
    /\ plan \in {"none", "endless", "other"}
    /\ arrived \in {FALSE, plan = "endless"}
    /\ mirror = [r \in Runs |-> 1]
    /\ file \in {FALSE, plan # "none"}
    /\ sidecar = (plan # "none")
    /\ overshot = FALSE

-----------------------------------------------------------------------------
(* run                                                                     *)

MkDir(r) ==
    /\ phase[r] = "mkdir"
    /\ Goto(r, "ensure") \/ FailByFault(r)
    /\ UNCHANGED httpVars

\* ensureSegments finds segments of an earlier run.
KnowsSegments(r) ==
    /\ phase[r] = "ensure"
    /\ plan # "none"
    /\ Goto(r, "open")
    /\ UNCHANGED httpVars

\* A mirror answers the probe: the segments are set, the file may be
\* preallocated, and the sidecar is written.
Probed(r) ==
    /\ phase[r] = "ensure"
    /\ plan = "none"
    /\ plan' \in {"endless", "other"}
    /\ file' \in {file, file \/ plan' = "other"}
    /\ \/ Goto(r, "open") /\ sidecar' = TRUE
       \/ FailByFault(r) /\ UNCHANGED sidecar
    /\ UNCHANGED <<arrived, mirror, overshot>>

ProbeFails(r) ==
    /\ phase[r] = "ensure"
    /\ plan = "none"
    /\ EndSilently(r) \/ FailByFault(r)
    /\ UNCHANGED httpVars

\* An attempt ends in the error of a disk, a network or a server.
Breaks(r) ==
    /\ phase' = [phase EXCEPT ![r] = "faulty"]
    /\ faulted' = TRUE
    /\ UNCHANGED <<status, cancelOf, ctxDone, pc, call, held, dropped, overlapped>>

\* Cancelled, the request and the wait between two of them end in the error of
\* the context, and the loop over the body asks the context itself.
Stops(r) == r \in ctxDone /\ Goto(r, "stopped")

\* downloadSegments opens the file, creating it if need be, and asks for what
\* is pending; a range without an end always is.
Open(r) ==
    /\ phase[r] = "open"
    /\ \/ /\ file' = TRUE
          /\ Goto(r, IF arrived THEN "past" ELSE "fetch")
          /\ overshot' = (overshot \/ arrived)
       \/ Breaks(r) /\ UNCHANGED <<file, overshot>>
    /\ UNCHANGED <<plan, arrived, mirror, sidecar>>

\* A block arrives; fetchSegment records it in the sidecar, and sets back what
\* another run has recorded.
SaveProgress(r) ==
    /\ phase[r] = "fetch"
    /\ sidecar' = TRUE
    /\ arrived' = FALSE
    /\ UNCHANGED <<engineVars, plan, mirror, file, overshot>>

\* The last block of a range without an end: the end of the body is yet to come.
LastBlock(r) ==
    /\ phase[r] = "fetch" /\ plan = "endless"
    /\ Goto(r, "tail")
    /\ sidecar' = TRUE
    /\ arrived' = TRUE
    /\ UNCHANGED <<plan, mirror, file, overshot>>

\* Every segment has been read to its end.
Fetched(r) ==
    /\ phase[r] = IF plan = "endless" THEN "tail" ELSE "fetch"
    /\ Goto(r, "finalize")
    /\ UNCHANGED httpVars

\* The attempts at a mirror are used up, or cut short.  Past its last byte a
\* range is answered 416, each time.
FetchFails(r) ==
    /\ phase[r] \in {"fetch", "tail", "past"}
    /\ \/ Breaks(r)
       \/ Stops(r)
       \/ phase[r] = "past" /\ Goto(r, "refused")
    /\ UNCHANGED httpVars

NextMirror(r) ==
    IF mirror[r] < Mirrors
    THEN Goto(r, "open") /\ mirror' = [mirror EXCEPT ![r] = @ + 1]
    ELSE FailUnprovoked(r) /\ UNCHANGED mirror

\* Fault for NoErrorWithoutFault: any error gives up the mirror.
JudgeAlike(r) ==
    /\ phase[r] \in {"faulty", "refused", "stopped"}
    /\ NextMirror(r)
    /\ UNCHANGED <<plan, arrived, file, sidecar, overshot>>

\* run ends without a word if the error is the context's, and else goes on to
\* the next mirror, or fails after the last.
Judge(r) ==
    /\ \/ phase[r] = "stopped" /\ EndSilently(r) /\ UNCHANGED mirror
       \/ phase[r] \in {"faulty", "refused"} /\ NextMirror(r)
    /\ UNCHANGED <<plan, arrived, file, sidecar, overshot>>

\* A checksum that does not match, or a file that is gone, is a failure.
Finalize(r) ==
    /\ phase[r] = "finalize"
    /\ \/ Complete(r) /\ sidecar' = FALSE
       \/ FailByFault(r) /\ UNCHANGED sidecar
    /\ UNCHANGED <<plan, arrived, mirror, file, overshot>>

-----------------------------------------------------------------------------
\* Fault for RemovedLeavesNoFile: Remove deletes the download only.
RemoveFilesNotSidecar(c) ==
    /\ SettleCancel(c)
    /\ file' = (file /\ call[c] # "remove")
    /\ UNCHANGED <<plan, arrived, mirror, sidecar, overshot>>

\* Remove deletes the files once Cancel has returned.
RemoveFiles(c) ==
    /\ SettleCancel(c)
    /\ IF call[c] = "remove"
       THEN file' = FALSE /\ sidecar' = FALSE
       ELSE UNCHANGED <<file, sidecar>>
    /\ UNCHANGED <<plan, arrived, mirror, overshot>>

RunStep(r) ==
    \/ MkDir(r) \/ KnowsSegments(r) \/ Probed(r) \/ ProbeFails(r)
    \/ Open(r) \/ LastBlock(r) \/ Fetched(r) \/ FetchFails(r) \/ Judge(r) \/ Finalize(r)

\* A caller that is inside a method goes on.
CallerStep(c) ==
    \/ /\ Spawn(c, "mkdir") \/ CancelContext(c) \/ WaitReturns(c) \/ SettlePause(c)
       /\ UNCHANGED httpVars
    \/ RemoveFiles(c)

NewCall ==
    /\ \/ \E c \in Callers : Resume(c) \/ ResumeIgnored(c)
       \/ Pause
       \/ Cancel("cancel") \/ Cancel("remove")
    /\ UNCHANGED httpVars

Next ==
    \/ NewCall
    \/ \E c \in Callers : CallerStep(c)
    \/ \E r \in Runs : RunStep(r) \/ SaveProgress(r)

Spec == Init /\ [][Next]_vars
=============================================================================
