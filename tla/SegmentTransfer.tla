--------------------------- MODULE SegmentTransfer ---------------------------
(***************************************************************************)
(* The bytes of an httpengine.Task: one goroutine per segment asks for its *)
(* range, writes what arrives into the file, moves its segment's resume    *)
(* point, and rewrites the progress file (the sidecar) from a snapshot of  *)
(* all segments.  Task.mu covers the snapshot, but not the writing of it.  *)
(* The process may crash at any moment; New takes up the sidecar.          *)
(*                                                                         *)
(* HttpTask has the calls and their overlaps; here Pause and Resume come   *)
(* one after the other.  The servers keep to HTTP: a body is the range     *)
(* that was asked for, or it ends in an error.                             *)
(***************************************************************************)
EXTENDS Segments, FiniteSets

CONSTANTS
    Size,        \* bytes of the content
    SizeKnown,   \* whether the servers tell it
    MaxConn,     \* Options.MaxConnections
    MaxRetries,  \* Options.MaxRetries
    Mirrors      \* len(Options.URLs)

ASSUME SizeAssumption == Size \in Nat \ {0} /\ SizeKnown \in BOOLEAN
ASSUME LimitsAssumption ==
    MaxConn \in Nat \ {0} /\ MaxRetries \in Nat /\ Mirrors \in Nat \ {0}

VARIABLES
    status,      \* Task.status; "down": no process; "refused": New failed
    run,         \* where the task's goroutine is
    mirror,      \* the index of the mirror it is at
    ctxDone,     \* its context is cancelled
    pausing,     \* a Pause is waiting for it
    ranged,      \* Task.rangesSupported
    segments,    \* Task.segments; empty before a mirror was probed
    downloaded,  \* Task.downloaded
    pc,          \* where each segment's goroutine is; 0: the task's own
    offset,      \* the next byte it will write
    snap,        \* the snapshot it is about to save
    tries,       \* how often it has failed at this mirror
    firstErr,    \* the first error of a segment at this mirror
    file,        \* the bytes written to Task.dest
    sidecar,     \* the progress file
    faulted      \* a disk, a network or a server has failed

control == <<status, run, mirror, ctxDone, pausing, firstErr, faulted>>
plan == <<ranged, segments, downloaded>>
workers == <<pc, offset, snap, tries>>
vars == <<control, plan, workers, file, sidecar>>

Bytes == 0 .. Size - 1

\* Task.total: probe gives -1 when the servers do not tell.
Total == IF SizeKnown THEN Size ELSE -1
Connections == 1 .. MaxConn
Workers == 0 .. MaxConn

Segment == [start : 0 .. Size, current : 0 .. Size, end : -1 .. Size - 1]
SegmentLists == UNION {[1 .. n -> Segment] : n \in 0 .. MaxConn}
NoSegments == [k \in {} |-> 0]
Snapshots == [ranged : BOOLEAN, segments : SegmentLists]
NoSnapshot == [ranged |-> FALSE, segments |-> NoSegments]

\* The sidecar, or what is there in its place: no file; none of the text yet; or
\* two texts that make no valid JSON together.
Saved(s) == [kind |-> "saved", snapshot |-> s]
Absent == [kind |-> "absent", snapshot |-> NoSnapshot]
Torn == [kind |-> "torn", snapshot |-> NoSnapshot]
Spoiled == [kind |-> "spoiled", snapshot |-> NoSnapshot]

TypeOK ==
    /\ status \in {"pending", "active", "paused", "complete", "error", "down", "refused"}
    /\ run \in {"off", "ensure", "save", "open", "fetch"}
    /\ mirror \in 1 .. Mirrors
    /\ ctxDone \in BOOLEAN /\ pausing \in BOOLEAN /\ faulted \in BOOLEAN
    /\ ranged \in BOOLEAN
    /\ segments \in SegmentLists
    /\ downloaded \in Nat
    /\ pc \in [Workers -> {"off", "ask", "read", "wrote", "save", "opened", "check"}]
    /\ offset \in [Workers -> 0 .. Size]
    /\ snap \in [Workers -> Snapshots]
    /\ tries \in [Workers -> 0 .. MaxRetries]
    /\ firstErr \in {"none", "fault", "cancelled"}
    /\ file \subseteq Bytes
    /\ sidecar \in [kind : {"absent", "torn", "spoiled", "saved"}, snapshot : Snapshots]

\* The bytes the resume points of a list of segments answer for.
Fetched(segs) ==
    UNION {segs[k].start .. segs[k].current - 1 : k \in DOMAIN segs}

\* The sum of what has been fetched of each segment.
BytesFetched(segs) ==
    Cardinality({b \in (DOMAIN segs) \X Bytes :
                    segs[b[1]].start <= b[2] /\ b[2] < segs[b[1]].current})

\* Fault for CompleteMeansContent: the last byte of a range does not count.
PendingButForOne(k) == segments[k].end < 0 \/ segments[k].current < segments[k].end

\* The segment has bytes to come, as far as the code can tell.
Pending(k) == segments[k].end < 0 \/ segments[k].current <= segments[k].end

\* One past the last byte of a segment: where the body of its request ends.
Limit(s) == IF s.end < 0 THEN Size ELSE s.end + 1
BodyEnd(k) == Limit(segments[k])

AllOff == [w \in Workers |-> "off"]
AllZero == [w \in Workers |-> 0]
NoSnapshots == [w \in Workers |-> NoSnapshot]

\* A first start: no sidecar, no file.
Init ==
    /\ status = "pending" /\ run = "off" /\ mirror = 1
    /\ ctxDone = FALSE /\ pausing = FALSE /\ firstErr = "none" /\ faulted = FALSE
    /\ ranged = FALSE /\ segments = NoSegments /\ downloaded = 0
    /\ pc = AllOff /\ offset = AllZero /\ snap = NoSnapshots /\ tries = AllZero
    /\ file = {} /\ sidecar = Absent

-----------------------------------------------------------------------------
(* Resume, Pause, and the task's goroutine.                                *)

Resume ==
    /\ status \in {"pending", "paused", "error"} /\ ~pausing
    /\ status' = "active"
    /\ run' = IF DOMAIN segments = {} THEN "ensure" ELSE "open"
    /\ mirror' = 1
    /\ ctxDone' = FALSE
    /\ UNCHANGED <<pausing, firstErr, faulted, plan, workers, file, sidecar>>

\* Fault for PauseEnds: the context is not cancelled.
PauseUncancelled ==
    /\ status = "active" /\ ~pausing
    /\ pausing' = TRUE
    /\ UNCHANGED <<status, run, mirror, ctxDone, firstErr, faulted, plan, workers,
                   file, sidecar>>

Pause ==
    /\ status = "active" /\ ~pausing
    /\ ctxDone' = TRUE
    /\ pausing' = TRUE
    /\ UNCHANGED <<status, run, mirror, firstErr, faulted, plan, workers, file, sidecar>>

PauseReturns ==
    /\ pausing /\ run = "off"
    /\ status' = IF status = "active" THEN "paused" ELSE status
    /\ pausing' = FALSE
    /\ UNCHANGED <<run, mirror, ctxDone, firstErr, faulted, plan, workers, file, sidecar>>

\* run returns, without a word or with an error.
Stop ==
    /\ run' = "off"
    /\ UNCHANGED <<status, mirror, ctxDone, pausing, firstErr, faulted>>

Fail ==
    /\ run' = "off"
    /\ status' = "error"
    /\ UNCHANGED <<mirror, ctxDone, pausing, firstErr>>

\* ensureSegments: a mirror has answered the probe, with or without ranges.
Probed ==
    /\ run = "ensure"
    /\ ranged' \in BOOLEAN
    /\ segments' = BuildSegments(Total, MaxConn, ranged')
    /\ \/ /\ run' = "save"
          /\ pc' = [pc EXCEPT ![0] = "save"]
          /\ snap' = [snap EXCEPT ![0] = [ranged |-> ranged', segments |-> segments']]
          /\ UNCHANGED <<status, mirror, ctxDone, pausing, firstErr, faulted>>
       \/ Fail /\ faulted' = TRUE /\ UNCHANGED <<pc, snap>>   \* preallocate
    /\ UNCHANGED <<downloaded, offset, tries, file, sidecar>>

ProbeFails ==
    /\ run = "ensure"
    /\ (ctxDone /\ Stop) \/ (Fail /\ faulted' = TRUE)
    /\ UNCHANGED <<plan, workers, file, sidecar>>

\* downloadSegments starts a goroutine for every segment that is pending.
Open ==
    /\ run = "open"
    /\ run' = "fetch"
    /\ pc' = [w \in Workers |->
                IF w \in DOMAIN segments /\ Pending(w) THEN "ask" ELSE "off"]
    /\ tries' = AllZero
    /\ firstErr' = "none"
    /\ UNCHANGED <<status, mirror, ctxDone, pausing, faulted, plan, offset, snap,
                   file, sidecar>>

NextMirror ==
    \/ /\ mirror < Mirrors
       /\ mirror' = mirror + 1
       /\ run' = "open"
       /\ UNCHANGED <<status, ctxDone, pausing, firstErr>>
    \/ mirror = Mirrors /\ Fail

\* The file cannot be opened.  A directory that cannot be made fails the task
\* likewise, without a try at each mirror.
OpenFails ==
    /\ run = "open"
    /\ NextMirror
    /\ faulted' = TRUE
    /\ UNCHANGED <<plan, workers, file, sidecar>>

\* It waits for all of them, and run looks at the first error.
Collect ==
    /\ run = "fetch" /\ pc = AllOff
    /\ \/ /\ firstErr = "none"      \* finalize: the checksum fits, or not
          /\ \/ /\ run' = "off" /\ status' = "complete"
                /\ sidecar' = Absent
                /\ UNCHANGED <<mirror, ctxDone, pausing, firstErr, faulted>>
             \/ Fail /\ faulted' = TRUE /\ UNCHANGED sidecar
       \/ firstErr = "cancelled" /\ Stop /\ UNCHANGED sidecar
       \/ firstErr = "fault" /\ NextMirror /\ UNCHANGED <<faulted, sidecar>>
    /\ UNCHANGED <<plan, workers, file>>

-----------------------------------------------------------------------------
(* fetchSegment, as run by the goroutine of segment k, and its retries.    *)

GoesTo(w, next) ==
    /\ pc' = [pc EXCEPT ![w] = next]
    /\ UNCHANGED <<status, run, mirror, ctxDone, pausing>>

\* The goroutine is done with this mirror: fetched, or with an error.
Leave(k, err) ==
    /\ GoesTo(k, "off")
    /\ offset' = [offset EXCEPT ![k] = 0]
    /\ firstErr' = IF firstErr = "none" THEN err ELSE firstErr
    /\ UNCHANGED <<snap, tries>>

\* Fault for TransferInv: one attempt more than there should be.
TryAgainOnceMore(k) ==
    \/ /\ tries[k] <= MaxRetries
       /\ tries' = [tries EXCEPT ![k] = @ + 1]
       /\ offset' = [offset EXCEPT ![k] = 0]
       /\ GoesTo(k, "ask")
       /\ UNCHANGED <<snap, firstErr>>
    \/ tries[k] > MaxRetries /\ Leave(k, "fault")

\* retryWithBackoff: the request is made again, or this was the last time.
TryAgain(k) ==
    \/ /\ tries[k] < MaxRetries
       /\ tries' = [tries EXCEPT ![k] = @ + 1]
       /\ offset' = [offset EXCEPT ![k] = 0]
       /\ GoesTo(k, "ask")
       /\ UNCHANGED <<snap, firstErr>>
    \/ tries[k] = MaxRetries /\ Leave(k, "fault")

\* Fault for ProgressAddsUp: the counter is not set back.
StartOverUncounted(k) ==
    /\ pc[k] = "ask" /\ k # 0
    /\ segments' = IF ranged THEN segments ELSE [segments EXCEPT ![k].current = 0]
    /\ UNCHANGED <<ranged, downloaded, file, sidecar>>

\* Without ranges every request is for the whole file again.
StartOver(k) ==
    /\ pc[k] = "ask" /\ k # 0
    /\ segments' = IF ranged THEN segments ELSE [segments EXCEPT ![k].current = 0]
    /\ downloaded' = IF ranged THEN downloaded ELSE 0
    /\ UNCHANGED <<ranged, file, sidecar>>

\* The server can answer: there are bytes in the range that is asked for.
Ask(k) ==
    /\ StartOver(k)
    /\ segments'[k].current < BodyEnd(k)
    /\ offset' = [offset EXCEPT ![k] = segments'[k].current]
    /\ GoesTo(k, "read")
    /\ UNCHANGED <<snap, tries, firstErr, faulted>>

AskFails(k) ==
    /\ StartOver(k)
    /\ \/ /\ TryAgain(k)
          /\ \/ faulted' = TRUE
             \/ segments'[k].current >= BodyEnd(k) /\ UNCHANGED faulted
       \/ ctxDone /\ Leave(k, "cancelled") /\ UNCHANGED faulted

\* Fault for SidecarNotAhead: the error of WriteAt is ignored.
WriteUnchecked(k) ==
    /\ pc[k] = "read"
    /\ \E n \in 1 .. BodyEnd(k) - offset[k] :
          /\ file' \in {file, file \cup (offset[k] .. offset[k] + n - 1)}
          /\ offset' = [offset EXCEPT ![k] = @ + n]
          /\ downloaded' = downloaded + n
    /\ GoesTo(k, "wrote")
    /\ UNCHANGED <<firstErr, faulted, ranged, segments, snap, tries, sidecar>>

\* Some bytes arrive and are written where they belong.
Write(k) ==
    /\ pc[k] = "read"
    /\ \E n \in 1 .. BodyEnd(k) - offset[k] :
          /\ file' = file \cup (offset[k] .. offset[k] + n - 1)
          /\ offset' = [offset EXCEPT ![k] = @ + n]
          /\ downloaded' = downloaded + n
    /\ GoesTo(k, "wrote")
    /\ UNCHANGED <<firstErr, faulted, ranged, segments, snap, tries, sidecar>>

\* The resume point moves under Task.mu, which also covers the snapshot.
Record(k) ==
    /\ pc[k] = "wrote"
    /\ segments' = [segments EXCEPT ![k].current = offset[k]]
    /\ snap' = [snap EXCEPT ![k] = [ranged |-> ranged, segments |-> segments']]
    /\ GoesTo(k, "save")
    /\ UNCHANGED <<firstErr, faulted, ranged, downloaded, offset, tries, file, sidecar>>

\* The body is read to its end; the context is not looked at any more.
EndOfBody(k) ==
    /\ pc[k] \in {"read", "check"} /\ offset[k] = BodyEnd(k)
    /\ Leave(k, "none")
    /\ UNCHANGED <<faulted, plan, file, sidecar>>

ReadOn(k) ==
    /\ pc[k] = "check" /\ ~ctxDone
    /\ GoesTo(k, "read")
    /\ UNCHANGED <<firstErr, faulted, plan, offset, snap, tries, file, sidecar>>

\* Fault for NoErrorWithoutFault: a cancelled read is retried like a broken one.
ReadCancelledRetried(k) ==
    /\ pc[k] \in {"read", "check"} /\ ctxDone
    /\ TryAgain(k)
    /\ UNCHANGED <<faulted, plan, file, sidecar>>

ReadCancelled(k) ==
    /\ pc[k] \in {"read", "check"} /\ ctxDone
    /\ Leave(k, "cancelled")
    /\ UNCHANGED <<faulted, plan, file, sidecar>>

\* The connection breaks, or the disk is full.
ReadFails(k) ==
    /\ pc[k] \in {"read", "check"}
    /\ TryAgain(k)
    /\ faulted' = TRUE
    /\ UNCHANGED <<plan, file, sidecar>>

-----------------------------------------------------------------------------
(* saveProgress: os.WriteFile truncates, then writes at offset 0.  Two     *)
(* goroutines may have the file open at once; what a shorter text leaves   *)
(* of a longer one spoils it, and a snapshot with a smaller number in it   *)
(* may be shorter.  What is spoiled is right again only when a text covers *)
(* all of it, or the file is truncated.                                    *)

OpenSidecar(w) ==
    /\ pc[w] = "save"
    /\ sidecar' = Torn
    /\ GoesTo(w, "opened")
    /\ UNCHANGED <<firstErr, faulted, plan, offset, snap, tries, file>>

MayBeShorter(s, t) ==
    \E k \in DOMAIN s.segments : s.segments[k].current < t.segments[k].current

WriteSidecar(w) ==
    /\ pc[w] = "opened"
    /\ \/ sidecar' = Saved(snap[w])
       \/ /\ \/ sidecar.kind = "saved" /\ MayBeShorter(snap[w], sidecar.snapshot)
             \/ sidecar.kind = "spoiled"
          /\ sidecar' = Spoiled
    /\ snap' = [snap EXCEPT ![w] = NoSnapshot]
    /\ pc' = [pc EXCEPT ![w] = IF w = 0 THEN "off" ELSE "check"]
    /\ run' = IF w = 0 THEN "open" ELSE run
    /\ UNCHANGED <<status, mirror, ctxDone, pausing, firstErr, faulted, plan,
                   offset, tries, file>>

\* The goroutine of a segment ignores the error, ensureSegments returns it.
SaveFails(w) ==
    /\ pc[w] \in {"save", "opened"}
    /\ snap' = [snap EXCEPT ![w] = NoSnapshot]
    /\ pc' = [pc EXCEPT ![w] = IF w = 0 THEN "off" ELSE "check"]
    /\ IF w = 0 THEN Fail ELSE UNCHANGED <<status, run, mirror, ctxDone, pausing, firstErr>>
    /\ faulted' = TRUE
    /\ UNCHANGED <<plan, offset, tries, file, sidecar>>

-----------------------------------------------------------------------------
(* A crash loses what is in memory; New makes a task of what it finds.     *)

Crash ==
    /\ status \notin {"down", "refused"}
    /\ status' = "down" /\ run' = "off" /\ mirror' = 1
    /\ ctxDone' = FALSE /\ pausing' = FALSE /\ firstErr' = "none"
    /\ ranged' = FALSE /\ segments' = NoSegments /\ downloaded' = 0
    /\ pc' = AllOff /\ offset' = AllZero /\ snap' = NoSnapshots /\ tries' = AllZero
    /\ UNCHANGED <<faulted, file, sidecar>>

\* New looks beside Options.DestPath.  If ensureSegments had renamed Task.dest
\* after a server's hint, the file and its sidecar are elsewhere, until the next
\* probe has given them the same name.
Restart ==
    \E found \in {sidecar, Absent} :
        /\ status = "down"
        /\ status' = IF found.kind \in {"torn", "spoiled"} THEN "refused" ELSE "pending"
        /\ ranged' = found.snapshot.ranged
        /\ segments' = found.snapshot.segments
        /\ downloaded' = BytesFetched(segments')
        /\ UNCHANGED <<run, mirror, ctxDone, pausing, firstErr, faulted, workers,
                       file, sidecar>>

-----------------------------------------------------------------------------
\* What the task's goroutines do once they are cancelled.
SegmentStep(k) ==
    \/ Ask(k) \/ AskFails(k) \/ Write(k) \/ Record(k)
    \/ EndOfBody(k) \/ ReadOn(k) \/ ReadCancelled(k) \/ ReadFails(k)

SaveStep(w) == OpenSidecar(w) \/ WriteSidecar(w) \/ SaveFails(w)

RunStep == Probed \/ ProbeFails \/ Open \/ OpenFails \/ Collect

Next ==
    \/ Resume \/ Pause \/ PauseReturns
    \/ RunStep
    \/ \E k \in Connections : SegmentStep(k)
    \/ \E w \in Workers : SaveStep(w)
    \/ Crash \/ Restart

Spec == Init /\ [][Next]_vars

(***************************************************************************)
(* Every request is bound to the context and every write to the disk ends: *)
(* once cancelled the goroutines go on.  Until then a server may stall.    *)
(***************************************************************************)
Fairness ==
    /\ WF_vars(ctxDone /\ RunStep)
    /\ \A k \in Connections : WF_vars(ctxDone /\ SegmentStep(k))
    /\ \A w \in Workers : WF_vars(ctxDone /\ SaveStep(w))
    /\ WF_vars(PauseReturns)

FairSpec == Spec /\ Fairness

-----------------------------------------------------------------------------
\* What a complete download has on disk is all of it, whatever was paused,
\* retried, taken from another mirror, or crashed and taken up before.
CompleteMeansContent == status = "complete" => file = Bytes

\* The sidecar, however late or out of order its snapshots are written, never
\* claims a byte that is not in the file: a restart refetches, it never skips.
SidecarNotAhead == Fetched(sidecar.snapshot.segments) \subseteq file

\* While nobody is at work the counter Progress reports agrees with the resume
\* points, after any retries, and after a restart.
ProgressAddsUp == run = "off" => downloaded = BytesFetched(segments)

\* Being paused is not a failure: without a fault outside, no task fails.
NoErrorWithoutFault == status = "error" => faulted

\* Pause waits for all the goroutines, and they come to an end.
PauseEnds == pausing ~> ~pausing

\* progressSnapshot's comment (progress.go:18-19): the sidecar lets a download
\* resume after a restart.  A task that was paused while nothing went wrong has
\* one that New can read.
SidecarReadable == status = "paused" /\ ~faulted => sidecar.kind \notin {"torn", "spoiled"}

-----------------------------------------------------------------------------
(***************************************************************************)
(* The inductive invariant.                                                *)
(***************************************************************************)

\* A plan's segments are none, or those that buildSegments makes for it, their
\* resume points moved within their ranges.
Shaped(p) ==
    DOMAIN p.segments # {} =>
        LET made == BuildSegments(Total, MaxConn, p.ranged)
        IN  /\ DOMAIN p.segments = DOMAIN made
            /\ \A k \in DOMAIN made :
                  /\ p.segments[k].start = made[k].start
                  /\ p.segments[k].end = made[k].end
                  /\ p.segments[k].current \in made[k].start .. Limit(made[k])

\* What a plan answers for is among the bytes f.
Backed(p, f) == Shaped(p) /\ Fetched(p.segments) \subseteq f

\* In memory, on its way to the disk, and there: at each of the three the
\* others may be long out of date, and none is ahead of the file.
AllBacked ==
    /\ Backed([ranged |-> ranged, segments |-> segments], file)
    /\ \A w \in Workers : Backed(snap[w], file)
    /\ Backed(sidecar.snapshot, file)

\* The goroutines of segments are at work only while run waits for them.
Discipline ==
    /\ run \in {"save", "open", "fetch"} => DOMAIN segments # {}
    /\ pc[0] # "off" => run = "save"
    /\ run # "off" => status = "active"
    /\ \A k \in Connections :
          pc[k] # "off" => run = "fetch" /\ k \in DOMAIN segments

\* Between a write and the moment it is recorded the file is ahead of the
\* segment, and never behind.
WrittenBeforeRecorded ==
    \A k \in Connections :
        pc[k] \in {"read", "wrote", "save", "opened", "check"} =>
            /\ offset[k] \in segments[k].start .. BodyEnd(k)
            /\ segments[k].start .. offset[k] - 1 \subseteq file

\* A goroutine that is gone has left its whole range, or an error.
NothingSkipped ==
    run = "fetch" =>
        \A k \in DOMAIN segments :
            \/ pc[k] # "off"
            \/ firstErr # "none"
            \/ segments[k].start .. BodyEnd(k) - 1 \subseteq file

\* All of it.
TransferInv ==
    /\ TypeOK
    /\ AllBacked
    /\ Discipline
    /\ WrittenBeforeRecorded
    /\ NothingSkipped
    /\ CompleteMeansContent
=============================================================================
