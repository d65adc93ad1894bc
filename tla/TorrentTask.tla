----------------------------- MODULE TorrentTask -----------------------------
(***************************************************************************)
(* torrentengine.Task: one torrent.Client per task, built by the first     *)
(* Resume outside Task.mu and then kept: Pause and later Resumes switch    *)
(* the data download off and on.  Three goroutines go with it: one waits   *)
(* for the content, the kill switch compares the public address with and   *)
(* without the proxy, the seed limiter stops the upload.                   *)
(*                                                                         *)
(* The callers are those of EngineTask: the scheduler, one call at a time, *)
(* and the add handler with its one Resume.                                *)
(***************************************************************************)
EXTENDS Naturals, FiniteSets

CONSTANTS
    Proxy,      \* Options.ProxyAddr is set
    SeedLimits, \* the seeding limits that are set, among "ratio" and "time"
    MaxStarts   \* bound: how many clients the checked behaviours build

ASSUME OptionsAssumption == Proxy \in BOOLEAN /\ SeedLimits \subseteq {"ratio", "time"}
ASSUME MaxStartsAssumption == MaxStarts \in Nat

VARIABLES
    status,     \* Task.status
    completed,  \* Task.completedAt is set
    current,    \* the start Task.client, .tor and .cancel belong to; 0: none
    client,     \* the client of each start: not built, open, closed
    download,   \* starts whose torrent may download data
    upload,     \* starts whose torrent may upload data
    whole,      \* starts whose torrent has all its content
    waiter,     \* runDownload of each start: waiting for the info, the data
    guard,      \* runKillSwitch: between two checks, or in the middle of one
    limiter,    \* runSeedLimiter
    ctxDone,    \* starts whose context is cancelled
    pc, call, held,  \* where a caller is, in which method, with which start
    dropped,    \* Scheduler.Remove is done with the task
    overlapped  \* two callers have been inside methods at once

torrent == <<client, download, upload, whole>>
goroutines == <<waiter, guard, limiter>>
callers == <<pc, call, held, dropped, overlapped>>
vars == <<status, completed, current, torrent, goroutines, ctxDone, callers>>

Callers == {"scheduler", "adder"}
Starts == 1 .. MaxStarts
Statuses == {"pending", "active", "paused", "complete", "error", "cancelled"}

Open == {s \in Starts : client[s] = "open"}

\* A start that Task.wg counts goroutines of.
Live(s) ==
    \/ waiter[s] \in {"info", "data"}
    \/ guard[s] \in {"ticking", "checking"}
    \/ limiter[s] = "ticking"

TypeOK ==
    /\ status \in Statuses
    /\ completed \in BOOLEAN
    /\ current \in {0} \cup Starts
    /\ client \in [Starts -> {"none", "open", "closed"}]
    /\ download \subseteq Starts /\ upload \subseteq Starts /\ whole \subseteq Starts
    /\ waiter \in [Starts -> {"none", "info", "data", "ended"}]
    /\ guard \in [Starts -> {"none", "ticking", "checking", "tripped", "ended"}]
    /\ limiter \in [Starts -> {"none", "ticking", "ended"}]
    /\ ctxDone \subseteq Starts
    /\ pc \in [Callers -> {"idle", "toggling", "building", "built", "launching",
                           "holding", "waiting", "waited", "gone"}]
    /\ call \in [Callers -> {"none", "resume", "cancel", "remove"}]
    /\ held \in [Callers -> {0} \cup Starts]
    /\ dropped \in BOOLEAN /\ overlapped \in BOOLEAN

Init ==
    /\ status = "pending"
    /\ completed = FALSE
    /\ current = 0
    /\ client = [s \in Starts |-> "none"]
    /\ download = {} /\ upload = {} /\ whole = {}
    /\ waiter = [s \in Starts |-> "none"]
    /\ guard = [s \in Starts |-> "none"]
    /\ limiter = [s \in Starts |-> "none"]
    /\ ctxDone = {}
    /\ pc = [c \in Callers |-> "idle"]
    /\ call = [c \in Callers |-> "none"]
    /\ held = [c \in Callers |-> 0]
    /\ dropped = FALSE /\ overlapped = FALSE

-----------------------------------------------------------------------------
(* Entering and leaving the methods.                                       *)

Inside(c) == pc[c] \notin {"idle", "gone"}

Enter(c, method, s, next) ==
    /\ pc[c] = "idle"
    /\ c = "scheduler" => ~dropped
    /\ pc' = [pc EXCEPT ![c] = next]
    /\ call' = [call EXCEPT ![c] = method]
    /\ held' = [held EXCEPT ![c] = s]
    /\ overlapped' = (overlapped \/ \E d \in Callers : Inside(d))
    /\ UNCHANGED dropped

Goto(c, next) ==
    /\ pc' = [pc EXCEPT ![c] = next]
    /\ UNCHANGED <<call, held, dropped, overlapped>>

\* The add handler's one call is over; the scheduler's next one may come.
Return(c) ==
    /\ pc' = [pc EXCEPT ![c] = IF c = "adder" THEN "gone" ELSE "idle"]
    /\ call' = [call EXCEPT ![c] = "none"]
    /\ held' = [held EXCEPT ![c] = 0]
    /\ dropped' = (dropped \/ call[c] = "remove")
    /\ UNCHANGED overlapped

-----------------------------------------------------------------------------
(* Resume and start.                                                       *)

ResumeIgnored(c) ==
    /\ status \in {"active", "complete", "cancelled"}
    /\ pc[c] = "idle"
    /\ Return(c)
    /\ UNCHANGED <<status, completed, current, torrent, goroutines, ctxDone>>

\* The first critical section only finds out what there is to do.
Resume(c) ==
    /\ status \notin {"active", "complete", "cancelled"}
    /\ \/ current # 0 /\ Enter(c, "resume", current, "toggling")
       \/ /\ current = 0
          /\ \E s \in Starts :
                /\ client[s] = "none" /\ \A d \in Callers : held[d] # s
                /\ \A r \in Starts : r < s => client[r] # "none" \/ \E d \in Callers : held[d] = r
                /\ Enter(c, "resume", s, "building")
    /\ UNCHANGED <<status, completed, current, torrent, goroutines, ctxDone>>

\* AllowDataDownload on the torrent there is; no goroutine is started.
Toggle(c) ==
    /\ pc[c] = "toggling"
    /\ download' = download \cup ({current} \cap Open)
    /\ status' = "active"
    /\ Return(c)
    /\ UNCHANGED <<completed, current, client, upload, whole, goroutines, ctxDone>>

StartFails(c) ==
    /\ pc[c] = "building"
    /\ status' = "error"
    /\ Return(c)
    /\ UNCHANGED <<completed, current, torrent, goroutines, ctxDone>>

\* The client is there and the torrent in it; it connects to its swarm.
Build(c) ==
    /\ pc[c] = "building"
    /\ client' = [client EXCEPT ![held[c]] = "open"]
    /\ download' = download \cup {held[c]}
    /\ upload' = upload \cup {held[c]}
    /\ Goto(c, "built")
    /\ UNCHANGED <<status, completed, current, whole, goroutines, ctxDone>>

\* Task.mu again, this time without a look at the status.
Record(c) ==
    /\ pc[c] = "built"
    /\ current' = held[c]
    /\ status' = "active"
    /\ Goto(c, "launching")
    /\ UNCHANGED <<completed, torrent, goroutines, ctxDone>>

Launch(c) ==
    /\ pc[c] = "launching"
    /\ waiter' = [waiter EXCEPT ![held[c]] = "info"]
    /\ guard' = [guard EXCEPT ![held[c]] = IF Proxy THEN "ticking" ELSE @]
    /\ limiter' = [limiter EXCEPT ![held[c]] = IF SeedLimits # {} THEN "ticking" ELSE @]
    /\ Return(c)
    /\ UNCHANGED <<status, completed, current, torrent, ctxDone>>

-----------------------------------------------------------------------------
(* Pause and Cancel.                                                       *)

\* Fault for StoppedDownloadsNothing: Pause sets the status, and that is all.
PauseStatusOnly ==
    /\ pc["scheduler"] = "idle" /\ ~dropped
    /\ status = "active" /\ current # 0
    /\ status' = "paused"
    /\ UNCHANGED <<completed, current, torrent, goroutines, ctxDone, callers>>

Pause ==
    /\ pc["scheduler"] = "idle" /\ ~dropped
    /\ status = "active" /\ current # 0
    /\ download' = download \ {current}
    /\ status' = "paused"
    /\ UNCHANGED <<completed, current, client, upload, whole, goroutines,
                   ctxDone, callers>>

Cancel(method) ==
    /\ Enter("scheduler", method, current, "holding")
    /\ UNCHANGED <<status, completed, current, torrent, goroutines, ctxDone>>

\* Fault for CancelReturns: the context is never cancelled.
CancelContextForgotten(c) ==
    /\ pc[c] = "holding"
    /\ Goto(c, "waiting")
    /\ UNCHANGED <<status, completed, current, torrent, goroutines, ctxDone>>

CancelContext(c) ==
    /\ pc[c] = "holding"
    /\ ctxDone' = ctxDone \cup ({held[c]} \ {0})
    /\ Goto(c, "waiting")
    /\ UNCHANGED <<status, completed, current, torrent, goroutines>>

\* Fault for CancelledIsClosed: nobody waits.
WaitReturnsAtOnce(c) ==
    /\ pc[c] = "waiting"
    /\ Goto(c, "waited")
    /\ UNCHANGED <<status, completed, current, torrent, goroutines, ctxDone>>

\* wg.Wait() returns: no goroutine of any start is left.
WaitReturns(c) ==
    /\ pc[c] = "waiting"
    /\ \A s \in Starts : ~Live(s)
    /\ Goto(c, "waited")
    /\ UNCHANGED <<status, completed, current, torrent, goroutines, ctxDone>>

\* The client goes, and all it did; then the status is set.
SettleCancel(c) ==
    /\ pc[c] = "waited"
    /\ client' = [s \in Starts |-> IF s = held[c] THEN "closed" ELSE client[s]]
    /\ download' = download \ {held[c]}
    /\ upload' = upload \ {held[c]}
    /\ status' = "cancelled"
    /\ Return(c)
    /\ UNCHANGED <<completed, current, whole, goroutines, ctxDone>>

-----------------------------------------------------------------------------
(* runDownload                                                             *)

GotInfo(s) ==
    /\ waiter[s] = "info" /\ s \in Open
    /\ waiter' = [waiter EXCEPT ![s] = "data"]
    /\ UNCHANGED <<status, completed, current, torrent, guard, limiter,
                   ctxDone, callers>>

\* The last piece passes its hash check.
LastPiece(s) ==
    /\ waiter[s] = "data" /\ s \in download \cap Open
    /\ whole' = whole \cup {s}
    /\ UNCHANGED <<status, completed, current, client, download, upload,
                   goroutines, ctxDone, callers>>

WaiterEnds(s) ==
    /\ waiter' = [waiter EXCEPT ![s] = "ended"]
    /\ UNCHANGED <<current, torrent, guard, limiter, ctxDone, callers>>

\* Fault for ContractKept: a task that was paused meanwhile completes, too.
CompleteUnchecked(s) ==
    /\ waiter[s] = "data" /\ s \in whole
    /\ status' = "complete"
    /\ completed' = TRUE
    /\ WaiterEnds(s)

\* Fault for SeedingEnds: completedAt is left at zero.
CompleteUnstamped(s) ==
    /\ waiter[s] = "data" /\ s \in whole
    /\ status' = IF status = "active" THEN "complete" ELSE status
    /\ WaiterEnds(s)
    /\ UNCHANGED completed

\* A task that was paused meanwhile keeps its status.
Complete(s) ==
    /\ waiter[s] = "data" /\ s \in whole
    /\ status' = IF status = "active" THEN "complete" ELSE status
    /\ completed' = TRUE
    /\ WaiterEnds(s)

DownloadCancelled(s) ==
    /\ waiter[s] \in {"info", "data"} /\ s \in ctxDone
    /\ WaiterEnds(s)
    /\ UNCHANGED <<status, completed>>

-----------------------------------------------------------------------------
(* runKillSwitch and DetectLeak: a request without the proxy, then one     *)
(* with it.  A failure of the first is no result, one of the second is a   *)
(* leak; a cancelled context makes either fail.                            *)

GuardGoes(s, next) ==
    /\ guard' = [guard EXCEPT ![s] = next]
    /\ UNCHANGED <<completed, current, client, upload, whole, waiter, limiter,
                   ctxDone, callers>>

CheckDirect(s) ==
    /\ guard[s] = "ticking" /\ s \notin ctxDone
    /\ GuardGoes(s, "checking")
    /\ UNCHANGED <<status, download>>

\* Fault for WatchedUnlessTripped: one check that passes is the last.
CheckPassedForGood(s) ==
    /\ guard[s] = "checking"
    /\ GuardGoes(s, "ended")
    /\ UNCHANGED <<status, download>>

CheckPassed(s) ==
    /\ guard[s] = "checking"
    /\ GuardGoes(s, "ticking")
    /\ UNCHANGED <<status, download>>

Trip(s) ==
    /\ guard[s] = "checking"
    /\ download' = download \ {current}
    /\ status' = "error"
    /\ GuardGoes(s, "tripped")

GuardCancelled(s) ==
    /\ guard[s] = "ticking" /\ s \in ctxDone
    /\ GuardGoes(s, "ended")
    /\ UNCHANGED <<status, download>>

-----------------------------------------------------------------------------
(* runSeedLimiter.  The time limit counts from completedAt; the ratio is   *)
(* that of the data written to the data read.                              *)

UploadEnds(s) ==
    /\ limiter[s] = "ticking"
    /\ upload' = upload \ {s}
    /\ limiter' = [limiter EXCEPT ![s] = "ended"]
    /\ UNCHANGED <<status, completed, current, client, download, whole,
                   waiter, guard, ctxDone, callers>>

TimeReached(s) == "time" \in SeedLimits /\ completed /\ UploadEnds(s)

RatioReached(s) == "ratio" \in SeedLimits /\ waiter[s] # "info" /\ UploadEnds(s)

LimiterCancelled(s) ==
    /\ limiter[s] = "ticking" /\ s \in ctxDone
    /\ limiter' = [limiter EXCEPT ![s] = "ended"]
    /\ UNCHANGED <<status, completed, current, torrent, waiter, guard,
                   ctxDone, callers>>

-----------------------------------------------------------------------------
\* A caller that is inside a method goes on.
CallerStep(c) ==
    \/ Toggle(c) \/ StartFails(c) \/ Build(c) \/ Record(c) \/ Launch(c)
    \/ CancelContext(c) \/ WaitReturns(c) \/ SettleCancel(c)

\* What a cancelled start's goroutines do, each by itself.
Unwind(s) ==
    \/ DownloadCancelled(s)
    \/ CheckPassed(s) \/ Trip(s) \/ GuardCancelled(s)
    \/ LimiterCancelled(s)

Next ==
    \/ \E c \in Callers : Resume(c) \/ ResumeIgnored(c) \/ CallerStep(c)
    \/ Pause
    \/ Cancel("cancel") \/ Cancel("remove")
    \/ \E s \in Starts :
          \/ GotInfo(s) \/ LastPiece(s) \/ Complete(s)
          \/ CheckDirect(s) \/ TimeReached(s) \/ RatioReached(s)
          \/ Unwind(s)

Spec == Init /\ [][Next]_vars

(***************************************************************************)
(* Callers inside a method go on; so do goroutines whose context is done,  *)
(* the one that finds the content whole, and the limiter, whose time comes *)
(* some time after the download.  A swarm owes nothing, nor a ratio.       *)
(***************************************************************************)
Fairness ==
    /\ \A c \in Callers : WF_vars(CallerStep(c))
    /\ \A s \in Starts :
          /\ WF_vars(s \in ctxDone /\ Unwind(s))
          /\ WF_vars(Complete(s))
          /\ WF_vars(TimeReached(s))

FairSpec == Spec /\ Fairness

-----------------------------------------------------------------------------
\* The kill switch of some start has tripped.
Tripped == \E s \in Starts : guard[s] = "tripped"

\* A torrent lives as the scheduler expects of any task, at whatever moment of
\* a Pause or a Resume its content becomes whole.  The contract binds it until
\* two callers overlap or the kill switch trips, which may end a task in any
\* status: from then on the mapping shows a cancelled task, of which the
\* contract allows nothing.
Contract == INSTANCE TaskContract WITH
                StartMayFail <- TRUE,
                status <- IF overlapped \/ Tripped THEN "cancelled" ELSE status

ContractKept == Contract!Spec

\* Cancel stops a task (scheduler.go:155): afterwards no client of it is
\* connected to a swarm, and none of its goroutines is left.
CancelledIsClosed ==
    /\ ~overlapped
    /\ status = "cancelled" /\ pc["scheduler"] = "idle"
    => Open = {} /\ \A s \in Starts : ~Live(s)

\* A torrent that is not running downloads nothing, whenever the kill switch
\* trips between the steps of the other calls.
StoppedDownloadsNothing ==
    /\ ~overlapped
    /\ status \in {"paused", "error", "cancelled"}
    /\ \A c \in Callers : ~Inside(c)
    => download = {}

\* The package comment (task.go:11-13): a task with a proxy has a check that
\* periodically confirms that the proxy is used, for as long as it runs, after
\* whatever Pauses and Resumes.  The exception is a task that was resumed after
\* the check had found a leak: nothing starts another one.
WatchedUnlessTripped ==
    /\ ~overlapped
    /\ Proxy /\ status = "active" /\ ~Tripped
    /\ \A c \in Callers : ~Inside(c)
    => guard[current] \in {"ticking", "checking"}

\* SeedTimeLimit (task.go:51-54): uploading stops once that long has passed
\* since the download completed.
SeedingEnds ==
    "time" \in SeedLimits =>
        (status = "complete" ~> upload = {} \/ overlapped)

\* runDownload, as TestPauseAndResumeOverLoopback (task_test.go:91-129) has it:
\* a torrent that runs and has all its content is reported as complete, also
\* when it was paused in between.
WholeIsReported ==
    status = "active" /\ current \in whole ~> status # "active" \/ overlapped

\* Cancel, and the scheduler's lock with it, waits for the goroutines only
\* until they have noticed their context: it returns.
CancelReturns ==
    pc["scheduler"] = "waiting" ~> pc["scheduler"] # "waiting" \/ overlapped
=============================================================================
