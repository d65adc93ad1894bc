------------------------------ MODULE MegaTask ------------------------------
(***************************************************************************)
(* megalink.Task: a single-shot mega.nz download.  The goroutine asks for  *)
(* the metadata, then resolves the link again, truncates the file and      *)
(* copies the decrypted stream into it.  A paused download starts over.    *)
(***************************************************************************)
EXTENDS EngineTask

VARIABLES
    named,   \* Task.destPath is set: Remove knows which file to delete
    content, \* what the destination holds: absent, part of the file, all of it
    shown    \* Task.downloaded: no byte, some, all

megaVars == <<named, content, shown>>
vars == <<engineVars, megaVars>>

Phases == {"meta", "mkdir", "resolve", "copy"}
Amounts == {"none", "some", "all"}

TypeOK ==
    /\ EngineTypeOK(Phases)
    /\ named \in BOOLEAN
    /\ content \in Amounts
    /\ shown \in Amounts

Init ==
    /\ EngineInit
    /\ named = FALSE
    /\ content = "none"
    /\ shown = "none"

-----------------------------------------------------------------------------
(* run                                                                     *)

Metadata(r) ==
    /\ phase[r] = "meta"
    /\ \/ Goto(r, "mkdir") /\ named' = TRUE
       \/ FailByFault(r) /\ UNCHANGED named
    /\ UNCHANGED <<content, shown>>

\* The request for the metadata is cancelled: to run, one more error.
MetadataCancelled(r) ==
    /\ phase[r] = "meta"
    /\ r \in ctxDone
    /\ FailUnprovoked(r)
    /\ UNCHANGED megaVars

MkDir(r) ==
    /\ phase[r] = "mkdir"
    /\ Goto(r, "resolve") \/ FailByFault(r)
    /\ UNCHANGED megaVars

\* Any error of DownloadWithProgress under a cancelled context is taken for
\* the cancellation.
DownloadFails(r) ==
    /\ phase[r] \in {"resolve", "copy"}
    /\ EndSilently(r) \/ (r \notin ctxDone /\ FailByFault(r))
    /\ UNCHANGED megaVars

\* The link is resolved and answered: os.Create truncates the file.
Create(r) ==
    /\ phase[r] = "resolve"
    /\ Goto(r, "copy")
    /\ content' = "some"
    /\ UNCHANGED <<named, shown>>

CopyBlock(r) ==
    /\ phase[r] = "copy"
    /\ shown' = "some"
    /\ UNCHANGED <<engineVars, named, content>>

CopyRest(r) ==
    /\ phase[r] = "copy"
    /\ Complete(r)
    /\ content' = "all"
    /\ shown' = "all"
    /\ UNCHANGED named

RunStep(r) ==
    \/ Metadata(r) \/ MetadataCancelled(r) \/ MkDir(r) \/ DownloadFails(r)
    \/ Create(r) \/ CopyRest(r)

-----------------------------------------------------------------------------
(* The methods: as in the common part, but for two details.                *)

\* Pause sets the counter back once it has waited.
ResetCounter(c) ==
    /\ SettlePause(c)
    /\ shown' = "none"
    /\ UNCHANGED <<named, content>>

RemoveFile(c) ==
    /\ SettleCancel(c)
    /\ content' = IF call[c] = "remove" /\ named THEN "none" ELSE content
    /\ UNCHANGED <<named, shown>>

CallerStep(c) ==
    \/ /\ Spawn(c, "meta") \/ CancelContext(c) \/ WaitReturns(c)
       /\ UNCHANGED megaVars
    \/ ResetCounter(c)
    \/ RemoveFile(c)

NewCall ==
    /\ \/ \E c \in Callers : Resume(c) \/ ResumeIgnored(c)
       \/ Pause
       \/ Cancel("cancel") \/ Cancel("remove")
    /\ UNCHANGED megaVars

Next ==
    \/ NewCall
    \/ \E c \in Callers : CallerStep(c)
    \/ \E r \in Runs : RunStep(r) \/ CopyBlock(r)

Spec == Init /\ [][Next]_vars
=============================================================================
