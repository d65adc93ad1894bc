-------------------------- MODULE TorrentTaskProofs --------------------------
(***************************************************************************)
(* A torrent that is not running downloads nothing, a cancelled one is     *)
(* disconnected, one that runs is watched, and the contract is kept, for   *)
(* any number of clients.                                                  *)
(***************************************************************************)
EXTENDS TorrentTask, TLAPS

\* A goroutine of start s goes on: it was there, no other comes, and of what the
\* methods keep it changes nothing.  The task completes if it ran, or the kill
\* switch trips.
Works(s) ==
    /\ Live(s)
    /\ UNCHANGED <<current, client, ctxDone, callers>>
    /\ waiter' \in [Starts -> {"none", "info", "data", "ended"}]
    /\ guard' \in [Starts -> {"none", "ticking", "checking", "tripped", "ended"}]
    /\ limiter' \in [Starts -> {"none", "ticking", "ended"}]
    /\ \A q \in Starts : Live(q)' => Live(q)
    /\ \A q \in Starts : guard'[q] = "none" <=> guard[q] = "none"
    /\ \A q \in Starts : waiter'[q] = "none" <=> waiter[q] = "none"
    /\ \A q \in Starts : limiter'[q] = "none" <=> limiter[q] = "none"
    /\ \A q \in Starts : guard[q] = "tripped" => guard'[q] = "tripped"
    /\ \A q \in Starts : guard'[q] = "ended" => guard[q] = "ended" \/ q \in ctxDone
    /\ completed' \in BOOLEAN /\ upload' \subseteq upload /\ whole' \subseteq Starts
    /\ \A q \in upload' : limiter'[q] = "ended" => limiter[q] = "ended" \/ q \in ctxDone
    /\ completed => completed'
    /\ status' = "complete" => status = "complete" \/ completed'
    /\ \/ status' = status /\ download' = download
       \/ status = "active" /\ status' = "complete" /\ download' = download
       \/ status' = "error" /\ download' = download \ {current} /\ guard'[s] = "tripped"

LEMMA Working ==
    ASSUME TypeOK, NEW s \in Starts,
           \/ GotInfo(s) \/ LastPiece(s) \/ Complete(s) \/ DownloadCancelled(s)
           \/ CheckDirect(s) \/ CheckPassed(s) \/ Trip(s) \/ GuardCancelled(s)
           \/ UploadEnds(s) \/ LimiterCancelled(s)
    PROVE  Works(s)
<1>1. CASE GotInfo(s)
  BY <1>1 DEF GotInfo, torrent, TypeOK, Works, Live
<1>2. CASE LastPiece(s)
  BY <1>2 DEF LastPiece, goroutines, torrent, TypeOK, Works, Live
<1>3. CASE Complete(s)
  BY <1>3 DEF Complete, WaiterEnds, torrent, torrent, TypeOK, Works, Live
<1>4. CASE DownloadCancelled(s)
  BY <1>4 DEF DownloadCancelled, WaiterEnds, torrent, torrent, TypeOK, Works, Live
<1>5. CASE CheckDirect(s)
  BY <1>5 DEF CheckDirect, GuardGoes, torrent, TypeOK, Works, Live
<1>6. CASE CheckPassed(s)
  BY <1>6 DEF CheckPassed, GuardGoes, torrent, TypeOK, Works, Live
<1>7. CASE Trip(s)
  BY <1>7 DEF Trip, GuardGoes, torrent, TypeOK, Works, Live
<1>8. CASE GuardCancelled(s)
  BY <1>8 DEF GuardCancelled, GuardGoes, torrent, TypeOK, Works, Live
<1>9. CASE UploadEnds(s)
  BY <1>9 DEF UploadEnds, torrent, TypeOK, Works, Live
<1>10. CASE LimiterCancelled(s)
  BY <1>10 DEF LimiterCancelled, torrent, torrent, TypeOK, Works, Live
<1> QED
  BY <1>1, <1>2, <1>3, <1>4, <1>5, <1>6, <1>7, <1>8, <1>9, <1>10

\* Every step is one of the methods' or of a goroutine.
Step ==
    \/ \E c \in Callers :
          \/ Resume(c) \/ ResumeIgnored(c) \/ Toggle(c) \/ StartFails(c) \/ Build(c)
          \/ Record(c) \/ Launch(c) \/ CancelContext(c) \/ WaitReturns(c) \/ SettleCancel(c)
    \/ Pause \/ Cancel("cancel") \/ Cancel("remove")
    \/ \E s \in Starts : Works(s)

LEMMA Steps ==
    ASSUME TypeOK, Next
    PROVE  Step
BY Working DEF Next, CallerStep, Unwind, TimeReached, RatioReached, Step

-----------------------------------------------------------------------------
(* The inductive invariant: what holds of calls that come one by one.      *)

\* Whoever makes a start has one, however calls overlap.
Typed ==
    /\ TypeOK
    /\ \A c \in Callers : pc[c] \in {"building", "built", "launching"} => held[c] # 0

\* One caller at a time is inside a method, ...
OneInside == ~(Inside("scheduler") /\ Inside("adder"))

\* ... and it is where it thinks it is: the start it is making belongs to nobody
\* and has no goroutine yet, one that it stops is the current one, and when the
\* wait is over nothing is at work.
Placed(c) ==
    /\ pc[c] = "toggling" => current # 0
    /\ pc[c] \in {"building", "built"} => current = 0
    /\ pc[c] \in {"building", "built", "launching"} =>
          /\ waiter[held[c]] = "none" /\ guard[held[c]] = "none" /\ limiter[held[c]] = "none"
    /\ pc[c] \in {"launching", "holding", "waiting", "waited"} => held[c] = current
    /\ pc[c] \in {"toggling", "building", "built"} => status \in {"pending", "paused", "error"}
    /\ pc[c] \in {"built", "launching"} => client[held[c]] = "open"
    /\ pc[c] = "launching" => status # "cancelled"
    /\ pc[c] = "waited" => \A s \in Starts : ~Live(s)

\* Only the current start, or one that is about to be, has a client or goroutines.
AtCurrent ==
    \A s \in Starts :
        /\ Live(s) => s = current
        /\ client[s] = "open" => s = current \/ \E c \in Callers : pc[c] = "built" /\ held[c] = s
        /\ client[s] = "none" => waiter[s] = "none" /\ guard[s] = "none" /\ limiter[s] = "none"

\* Data flows only through an open client, and not while the task is stopped,
\* unless the client was built a moment ago.
Quiet ==
    /\ download \subseteq Open
    /\ status \in {"pending", "paused", "error", "cancelled"} /\ (\A c \in Callers : pc[c] # "built")
       => download = {}

\* A cancelled task has nothing left, and only its context, or that of one that is
\* being cancelled, is done.
Left ==
    /\ status = "cancelled" => Open = {} /\ \A s \in Starts : ~Live(s)
    /\ ctxDone # {} => status = "cancelled" \/ \E c \in Callers : pc[c] \in {"waiting", "waited"}

\* The kill switch of the current start was launched, and ends only when it trips or
\* is cancelled.
Guarded ==
    /\ status = "active" => current # 0
    /\ Proxy /\ current # 0 /\ guard[current] = "none" => \E c \in Callers : pc[c] = "launching"
    /\ \A s \in Starts : guard[s] = "ended" => s \in ctxDone

OneByOne ==
    /\ OneInside
    /\ \A c \in Callers : Placed(c)
    /\ AtCurrent
    /\ Quiet
    /\ Left
    /\ Guarded

TorrentInv == Typed /\ (~overlapped => OneByOne)

\* Types.
LEMMA TypeKept ==
    ASSUME Typed, Step
    PROVE  Typed'
<1>1. ASSUME NEW c \in Callers, ResumeIgnored(c) PROVE Typed'
  BY <1>1 DEF ResumeIgnored, Return, torrent, goroutines, Typed, TypeOK, Starts, Callers, Statuses, callers, torrent
<1>2. ASSUME NEW c \in Callers, Resume(c) PROVE Typed'
  <2>1. TypeOK'
    <3>1. pc' \in [Callers -> {"idle", "toggling", "building", "built", "launching",
                            "holding", "waiting", "waited", "gone"}]
      BY <1>2 DEF Resume, Enter, torrent, goroutines, Typed, TypeOK, Callers
    <3>2. call' \in [Callers -> {"none", "resume", "cancel", "remove"}] /\ held' \in [Callers -> {0} \cup Starts]
      BY <1>2 DEF Resume, Enter, torrent, goroutines, Typed, TypeOK, Callers, callers
    <3>3. dropped' \in BOOLEAN /\ overlapped' \in BOOLEAN
      BY <1>2 DEF Resume, Enter, torrent, goroutines, Typed, TypeOK, callers
    <3>4. /\ status' \in Statuses /\ completed' \in BOOLEAN /\ current' \in {0} \cup Starts
          /\ client' \in [Starts -> {"none", "open", "closed"}]
          /\ download' \subseteq Starts /\ upload' \subseteq Starts /\ whole' \subseteq Starts
          /\ waiter' \in [Starts -> {"none", "info", "data", "ended"}]
          /\ guard' \in [Starts -> {"none", "ticking", "checking", "tripped", "ended"}]
          /\ limiter' \in [Starts -> {"none", "ticking", "ended"}]
          /\ ctxDone' \subseteq Starts
      BY <1>2 DEF Resume, Enter, torrent, goroutines, Typed, TypeOK, Statuses, Open
    <3> QED
      BY <3>1, <3>2, <3>3, <3>4 DEF TypeOK
  <2>2. \A d \in Callers : pc'[d] \in {"building", "built", "launching"} => held'[d] # 0
    BY <1>2 DEF Resume, Enter, torrent, goroutines, Typed, TypeOK, Callers, Starts
  <2> QED
    BY <2>1, <2>2 DEF Typed
<1>3. ASSUME NEW c \in Callers, Toggle(c) PROVE Typed'
  <2>1. TypeOK'
    <3>1. pc' \in [Callers -> {"idle", "toggling", "building", "built", "launching",
                            "holding", "waiting", "waited", "gone"}]
      BY <1>3 DEF Toggle, Return, goroutines, Typed, TypeOK, Callers
    <3>2. call' \in [Callers -> {"none", "resume", "cancel", "remove"}] /\ held' \in [Callers -> {0} \cup Starts]
      BY <1>3 DEF Toggle, Return, goroutines, Typed, TypeOK, Callers, callers
    <3>3. dropped' \in BOOLEAN /\ overlapped' \in BOOLEAN
      BY <1>3 DEF Toggle, Return, goroutines, Typed, TypeOK, callers
    <3>4. /\ status' \in Statuses /\ completed' \in BOOLEAN /\ current' \in {0} \cup Starts
          /\ client' \in [Starts -> {"none", "open", "closed"}]
          /\ download' \subseteq Starts /\ upload' \subseteq Starts /\ whole' \subseteq Starts
          /\ waiter' \in [Starts -> {"none", "info", "data", "ended"}]
          /\ guard' \in [Starts -> {"none", "ticking", "checking", "tripped", "ended"}]
          /\ limiter' \in [Starts -> {"none", "ticking", "ended"}]
          /\ ctxDone' \subseteq Starts
      BY <1>3 DEF Toggle, Return, goroutines, Typed, TypeOK, Statuses, Open
    <3> QED
      BY <3>1, <3>2, <3>3, <3>4 DEF TypeOK
  <2>2. \A d \in Callers : pc'[d] \in {"building", "built", "launching"} => held'[d] # 0
    BY <1>3 DEF Toggle, Return, goroutines, Typed, TypeOK, Callers, Starts
  <2> QED
    BY <2>1, <2>2 DEF Typed
<1>4. ASSUME NEW c \in Callers, StartFails(c) PROVE Typed'
  BY <1>4 DEF StartFails, Return, torrent, goroutines, Typed, TypeOK, Starts, Callers, Statuses, callers, torrent
<1>5. ASSUME NEW c \in Callers, Build(c) PROVE Typed'
  <2>1. TypeOK'
    <3>1. pc' \in [Callers -> {"idle", "toggling", "building", "built", "launching",
                            "holding", "waiting", "waited", "gone"}]
      BY <1>5 DEF Build, Goto, goroutines, Typed, TypeOK, Callers
    <3>2. call' \in [Callers -> {"none", "resume", "cancel", "remove"}] /\ held' \in [Callers -> {0} \cup Starts]
      BY <1>5 DEF Build, Goto, goroutines, Typed, TypeOK, Callers, callers
    <3>3. dropped' \in BOOLEAN /\ overlapped' \in BOOLEAN
      BY <1>5 DEF Build, Goto, goroutines, Typed, TypeOK, callers
    <3>4. /\ status' \in Statuses /\ completed' \in BOOLEAN /\ current' \in {0} \cup Starts
          /\ client' \in [Starts -> {"none", "open", "closed"}]
          /\ download' \subseteq Starts /\ upload' \subseteq Starts /\ whole' \subseteq Starts
          /\ waiter' \in [Starts -> {"none", "info", "data", "ended"}]
          /\ guard' \in [Starts -> {"none", "ticking", "checking", "tripped", "ended"}]
          /\ limiter' \in [Starts -> {"none", "ticking", "ended"}]
          /\ ctxDone' \subseteq Starts
      BY <1>5 DEF Build, Goto, goroutines, Typed, TypeOK, Statuses, Open
    <3> QED
      BY <3>1, <3>2, <3>3, <3>4 DEF TypeOK
  <2>2. \A d \in Callers : pc'[d] \in {"building", "built", "launching"} => held'[d] # 0
    BY <1>5 DEF Build, Goto, goroutines, Typed, TypeOK, Callers, Starts
  <2> QED
    BY <2>1, <2>2 DEF Typed
<1>6. ASSUME NEW c \in Callers, Record(c) PROVE Typed'
  BY <1>6 DEF Record, Goto, torrent, goroutines, Typed, TypeOK, Starts, Callers, Statuses, callers, torrent
<1>7. ASSUME NEW c \in Callers, Launch(c) PROVE Typed'
  BY <1>7 DEF Launch, Return, torrent, Typed, TypeOK, Starts, Callers, Statuses, callers, torrent
<1>8. ASSUME Pause PROVE Typed'
  BY <1>8 DEF Pause, goroutines, callers, Typed, TypeOK, Starts, Callers, Statuses, callers, torrent
<1>9. ASSUME NEW method \in {"cancel", "remove"}, Cancel(method) PROVE Typed'
  BY <1>9 DEF Cancel, Enter, torrent, goroutines, Typed, TypeOK, Starts, Callers, Statuses, callers, torrent
<1>10. ASSUME NEW c \in Callers, CancelContext(c) PROVE Typed'
  BY <1>10 DEF CancelContext, Goto, torrent, goroutines, Typed, TypeOK, Starts, Callers, Statuses, callers, torrent
<1>11. ASSUME NEW c \in Callers, WaitReturns(c) PROVE Typed'
  BY <1>11 DEF WaitReturns, Goto, torrent, goroutines, Typed, TypeOK, Starts, Callers, Statuses, callers, torrent
<1>12. ASSUME NEW c \in Callers, SettleCancel(c) PROVE Typed'
  BY <1>12 DEF SettleCancel, Return, goroutines, Typed, TypeOK, Starts, Callers, Statuses, callers, torrent
<1>13. ASSUME NEW s \in Starts, Works(s) PROVE Typed'
  BY <1>13 DEF Works, Typed, TypeOK, Starts, Callers, Statuses, callers, torrent
<1> QED
  BY <1>1, <1>2, <1>3, <1>4, <1>5, <1>6, <1>7, <1>8, <1>9, <1>10, <1>11, <1>12, <1>13 DEF Step

\* One caller at a time.
LEMMA InsideKept ==
    ASSUME Typed, Step, ~overlapped, OneInside, ~overlapped'
    PROVE  OneInside'
<1>1. ASSUME NEW c \in Callers, ResumeIgnored(c) PROVE OneInside'
  BY <1>1 DEF ResumeIgnored, Return, torrent, goroutines, OneInside, Inside, callers, Typed, TypeOK, Callers
<1>2. ASSUME NEW c \in Callers, Resume(c) PROVE OneInside'
  <2>1. overlapped' = (overlapped \/ \E d \in Callers : Inside(d)) /\ pc' = [pc EXCEPT ![c] = pc'[c]]
    BY <1>2 DEF Resume, Enter, Typed, TypeOK
  <2>2. \A d \in Callers : ~Inside(d)
    BY <2>1
  <2> QED
    BY <2>1, <2>2 DEF OneInside, Inside, Callers, Typed, TypeOK
<1>3. ASSUME NEW c \in Callers, Toggle(c) PROVE OneInside'
  BY <1>3 DEF Toggle, Return, goroutines, OneInside, Inside, callers, Typed, TypeOK, Callers
<1>4. ASSUME NEW c \in Callers, StartFails(c) PROVE OneInside'
  BY <1>4 DEF StartFails, Return, torrent, goroutines, OneInside, Inside, callers, Typed, TypeOK, Callers
<1>5. ASSUME NEW c \in Callers, Build(c) PROVE OneInside'
  BY <1>5 DEF Build, Goto, goroutines, OneInside, Inside, callers, Typed, TypeOK, Callers
<1>6. ASSUME NEW c \in Callers, Record(c) PROVE OneInside'
  BY <1>6 DEF Record, Goto, torrent, goroutines, OneInside, Inside, callers, Typed, TypeOK, Callers
<1>7. ASSUME NEW c \in Callers, Launch(c) PROVE OneInside'
  BY <1>7 DEF Launch, Return, torrent, OneInside, Inside, callers, Typed, TypeOK, Callers
<1>8. ASSUME Pause PROVE OneInside'
  BY <1>8 DEF Pause, goroutines, callers, OneInside, Inside, callers, Typed, TypeOK, Callers
<1>9. ASSUME NEW method \in {"cancel", "remove"}, Cancel(method) PROVE OneInside'
  BY <1>9 DEF Cancel, Enter, torrent, goroutines, OneInside, Inside, callers, Typed, TypeOK, Callers
<1>10. ASSUME NEW c \in Callers, CancelContext(c) PROVE OneInside'
  BY <1>10 DEF CancelContext, Goto, torrent, goroutines, OneInside, Inside, callers, Typed, TypeOK, Callers
<1>11. ASSUME NEW c \in Callers, WaitReturns(c) PROVE OneInside'
  BY <1>11 DEF WaitReturns, Goto, torrent, goroutines, OneInside, Inside, callers, Typed, TypeOK, Callers
<1>12. ASSUME NEW c \in Callers, SettleCancel(c) PROVE OneInside'
  BY <1>12 DEF SettleCancel, Return, goroutines, OneInside, Inside, callers, Typed, TypeOK, Callers
<1>13. ASSUME NEW s \in Starts, Works(s) PROVE OneInside'
  BY <1>13 DEF Works, OneInside, Inside, callers, Typed, TypeOK, Callers
<1> QED
  BY <1>1, <1>2, <1>3, <1>4, <1>5, <1>6, <1>7, <1>8, <1>9, <1>10, <1>11, <1>12, <1>13 DEF Step

\* Where the callers are.
LEMMA PlacedKept ==
    ASSUME Typed, Step, ~overlapped, OneByOne, ~overlapped'
    PROVE  \A d \in Callers : Placed(d)'
<1>1. ASSUME NEW c \in Callers, ResumeIgnored(c) PROVE \A d \in Callers : Placed(d)'
  BY <1>1 DEF ResumeIgnored, Return, torrent, goroutines, OneByOne, OneInside, Placed, AtCurrent, Left, Live, Inside, callers, Typed, TypeOK, Starts, Callers, Statuses
<1>2. ASSUME NEW c \in Callers, Resume(c) PROVE \A d \in Callers : Placed(d)'
  BY <1>2 DEF Resume, Enter, torrent, goroutines, OneByOne, OneInside, Placed, AtCurrent, Left, Live, Inside, callers, Typed, TypeOK, Starts, Callers, Statuses
<1>3. ASSUME NEW c \in Callers, Toggle(c) PROVE \A d \in Callers : Placed(d)'
  BY <1>3 DEF Toggle, Return, goroutines, OneByOne, OneInside, Placed, AtCurrent, Left, Live, Inside, callers, Typed, TypeOK, Starts, Callers, Statuses
<1>4. ASSUME NEW c \in Callers, StartFails(c) PROVE \A d \in Callers : Placed(d)'
  BY <1>4 DEF StartFails, Return, torrent, goroutines, OneByOne, OneInside, Placed, AtCurrent, Left, Live, Inside, callers, Typed, TypeOK, Starts, Callers, Statuses
<1>5. ASSUME NEW c \in Callers, Build(c) PROVE \A d \in Callers : Placed(d)'
  BY <1>5 DEF Build, Goto, goroutines, OneByOne, OneInside, Placed, AtCurrent, Left, Live, Inside, callers, Typed, TypeOK, Starts, Callers, Statuses
<1>6. ASSUME NEW c \in Callers, Record(c) PROVE \A d \in Callers : Placed(d)'
  BY <1>6 DEF Record, Goto, torrent, goroutines, OneByOne, OneInside, Placed, AtCurrent, Left, Live, Inside, callers, Typed, TypeOK, Starts, Callers, Statuses
<1>7. ASSUME NEW c \in Callers, Launch(c) PROVE \A d \in Callers : Placed(d)'
  BY <1>7 DEF Launch, Return, torrent, OneByOne, OneInside, Placed, AtCurrent, Left, Live, Inside, callers, Typed, TypeOK, Starts, Callers, Statuses
<1>8. ASSUME Pause PROVE \A d \in Callers : Placed(d)'
  BY <1>8 DEF Pause, goroutines, callers, OneByOne, OneInside, Placed, AtCurrent, Left, Live, Inside, callers, Typed, TypeOK, Starts, Callers, Statuses
<1>9. ASSUME NEW method \in {"cancel", "remove"}, Cancel(method) PROVE \A d \in Callers : Placed(d)'
  BY <1>9 DEF Cancel, Enter, torrent, goroutines, OneByOne, OneInside, Placed, AtCurrent, Left, Live, Inside, callers, Typed, TypeOK, Starts, Callers, Statuses
<1>10. ASSUME NEW c \in Callers, CancelContext(c) PROVE \A d \in Callers : Placed(d)'
  BY <1>10 DEF CancelContext, Goto, torrent, goroutines, OneByOne, OneInside, Placed, AtCurrent, Left, Live, Inside, callers, Typed, TypeOK, Starts, Callers, Statuses
<1>11. ASSUME NEW c \in Callers, WaitReturns(c) PROVE \A d \in Callers : Placed(d)'
  BY <1>11 DEF WaitReturns, Goto, torrent, goroutines, OneByOne, OneInside, Placed, AtCurrent, Left, Live, Inside, callers, Typed, TypeOK, Starts, Callers, Statuses
<1>12. ASSUME NEW c \in Callers, SettleCancel(c) PROVE \A d \in Callers : Placed(d)'
  BY <1>12 DEF SettleCancel, Return, goroutines, OneByOne, OneInside, Placed, AtCurrent, Left, Live, Inside, callers, Typed, TypeOK, Starts, Callers, Statuses
<1>13. ASSUME NEW s \in Starts, Works(s) PROVE \A d \in Callers : Placed(d)'
  BY <1>13 DEF Works, OneByOne, OneInside, Placed, AtCurrent, Left, Live, Inside, callers, Typed, TypeOK, Starts, Callers, Statuses
<1> QED
  BY <1>1, <1>2, <1>3, <1>4, <1>5, <1>6, <1>7, <1>8, <1>9, <1>10, <1>11, <1>12, <1>13 DEF Step

\* Which start is in use.
LEMMA AtCurrentKept ==
    ASSUME Typed, Step, ~overlapped, OneByOne, ~overlapped'
    PROVE  AtCurrent'
<1>1. ASSUME NEW c \in Callers, ResumeIgnored(c) PROVE AtCurrent'
  BY <1>1 DEF ResumeIgnored, Return, torrent, goroutines, OneByOne, OneInside, Placed, AtCurrent, Live, Inside, callers, Typed, TypeOK, Starts, Callers, Statuses
<1>2. ASSUME NEW c \in Callers, Resume(c) PROVE AtCurrent'
  BY <1>2 DEF Resume, Enter, torrent, goroutines, OneByOne, OneInside, Placed, AtCurrent, Live, Inside, callers, Typed, TypeOK, Starts, Callers, Statuses
<1>3. ASSUME NEW c \in Callers, Toggle(c) PROVE AtCurrent'
  BY <1>3 DEF Toggle, Return, goroutines, OneByOne, OneInside, Placed, AtCurrent, Live, Inside, callers, Typed, TypeOK, Starts, Callers, Statuses
<1>4. ASSUME NEW c \in Callers, StartFails(c) PROVE AtCurrent'
  BY <1>4 DEF StartFails, Return, torrent, goroutines, OneByOne, OneInside, Placed, AtCurrent, Live, Inside, callers, Typed, TypeOK, Starts, Callers, Statuses
<1>5. ASSUME NEW c \in Callers, Build(c) PROVE AtCurrent'
  BY <1>5 DEF Build, Goto, goroutines, OneByOne, OneInside, Placed, AtCurrent, Live, Inside, callers, Typed, TypeOK, Starts, Callers, Statuses
<1>6. ASSUME NEW c \in Callers, Record(c) PROVE AtCurrent'
  BY <1>6 DEF Record, Goto, torrent, goroutines, OneByOne, OneInside, Placed, AtCurrent, Live, Inside, callers, Typed, TypeOK, Starts, Callers, Statuses
<1>7. ASSUME NEW c \in Callers, Launch(c) PROVE AtCurrent'
  BY <1>7 DEF Launch, Return, torrent, OneByOne, OneInside, Placed, AtCurrent, Live, Inside, callers, Typed, TypeOK, Starts, Callers, Statuses
<1>8. ASSUME Pause PROVE AtCurrent'
  BY <1>8 DEF Pause, goroutines, callers, OneByOne, OneInside, Placed, AtCurrent, Live, Inside, callers, Typed, TypeOK, Starts, Callers, Statuses
<1>9. ASSUME NEW method \in {"cancel", "remove"}, Cancel(method) PROVE AtCurrent'
  BY <1>9 DEF Cancel, Enter, torrent, goroutines, OneByOne, OneInside, Placed, AtCurrent, Live, Inside, callers, Typed, TypeOK, Starts, Callers, Statuses
<1>10. ASSUME NEW c \in Callers, CancelContext(c) PROVE AtCurrent'
  BY <1>10 DEF CancelContext, Goto, torrent, goroutines, OneByOne, OneInside, Placed, AtCurrent, Live, Inside, callers, Typed, TypeOK, Starts, Callers, Statuses
<1>11. ASSUME NEW c \in Callers, WaitReturns(c) PROVE AtCurrent'
  BY <1>11 DEF WaitReturns, Goto, torrent, goroutines, OneByOne, OneInside, Placed, AtCurrent, Live, Inside, callers, Typed, TypeOK, Starts, Callers, Statuses
<1>12. ASSUME NEW c \in Callers, SettleCancel(c) PROVE AtCurrent'
  BY <1>12 DEF SettleCancel, Return, goroutines, OneByOne, OneInside, Placed, AtCurrent, Live, Inside, callers, Typed, TypeOK, Starts, Callers, Statuses
<1>13. ASSUME NEW s \in Starts, Works(s) PROVE AtCurrent'
  BY <1>13 DEF Works, OneByOne, OneInside, Placed, AtCurrent, Live, Inside, callers, Typed, TypeOK, Starts, Callers, Statuses
<1> QED
  BY <1>1, <1>2, <1>3, <1>4, <1>5, <1>6, <1>7, <1>8, <1>9, <1>10, <1>11, <1>12, <1>13 DEF Step

\* Whether data flows.
LEMMA QuietKept ==
    ASSUME Typed, Step, ~overlapped, OneByOne, ~overlapped'
    PROVE  Quiet'
<1>1. ASSUME NEW c \in Callers, ResumeIgnored(c) PROVE Quiet'
  BY <1>1 DEF ResumeIgnored, Return, torrent, goroutines, OneByOne, OneInside, Placed, AtCurrent, Quiet, Open, Live, Inside, callers, Typed, TypeOK, Starts, Callers, Statuses
<1>2. ASSUME NEW c \in Callers, Resume(c) PROVE Quiet'
  BY <1>2 DEF Resume, Enter, torrent, goroutines, OneByOne, OneInside, Placed, AtCurrent, Quiet, Open, Live, Inside, callers, Typed, TypeOK, Starts, Callers, Statuses
<1>3. ASSUME NEW c \in Callers, Toggle(c) PROVE Quiet'
  BY <1>3 DEF Toggle, Return, goroutines, OneByOne, OneInside, Placed, AtCurrent, Quiet, Open, Live, Inside, callers, Typed, TypeOK, Starts, Callers, Statuses
<1>4. ASSUME NEW c \in Callers, StartFails(c) PROVE Quiet'
  BY <1>4 DEF StartFails, Return, torrent, goroutines, OneByOne, OneInside, Placed, AtCurrent, Quiet, Open, Live, Inside, callers, Typed, TypeOK, Starts, Callers, Statuses
<1>5. ASSUME NEW c \in Callers, Build(c) PROVE Quiet'
  <2>1. pc'[c] = "built"
    BY <1>5 DEF Build, Goto, Typed, TypeOK
  <2>2. held[c] \in Starts
    BY <1>5 DEF Build, Typed, TypeOK
  <2>3. ASSUME NEW s \in download' PROVE s \in Starts /\ client'[s] = "open"
    BY <1>5, <2>2, <2>3 DEF Build, OneByOne, Quiet, Open, Typed, TypeOK
  <2> QED
    BY <2>1, <2>3 DEF Quiet, Open
<1>6. ASSUME NEW c \in Callers, Record(c) PROVE Quiet'
  BY <1>6 DEF Record, Goto, torrent, goroutines, OneByOne, OneInside, Placed, AtCurrent, Quiet, Open, Live, Inside, callers, Typed, TypeOK, Starts, Callers, Statuses
<1>7. ASSUME NEW c \in Callers, Launch(c) PROVE Quiet'
  BY <1>7 DEF Launch, Return, torrent, OneByOne, OneInside, Placed, AtCurrent, Quiet, Open, Live, Inside, callers, Typed, TypeOK, Starts, Callers, Statuses
<1>8. ASSUME Pause PROVE Quiet'
  BY <1>8 DEF Pause, goroutines, callers, OneByOne, OneInside, Placed, AtCurrent, Quiet, Open, Live, Inside, callers, Typed, TypeOK, Starts, Callers, Statuses
<1>9. ASSUME NEW method \in {"cancel", "remove"}, Cancel(method) PROVE Quiet'
  BY <1>9 DEF Cancel, Enter, torrent, goroutines, OneByOne, OneInside, Placed, AtCurrent, Quiet, Open, Live, Inside, callers, Typed, TypeOK, Starts, Callers, Statuses
<1>10. ASSUME NEW c \in Callers, CancelContext(c) PROVE Quiet'
  BY <1>10 DEF CancelContext, Goto, torrent, goroutines, OneByOne, OneInside, Placed, AtCurrent, Quiet, Open, Live, Inside, callers, Typed, TypeOK, Starts, Callers, Statuses
<1>11. ASSUME NEW c \in Callers, WaitReturns(c) PROVE Quiet'
  BY <1>11 DEF WaitReturns, Goto, torrent, goroutines, OneByOne, OneInside, Placed, AtCurrent, Quiet, Open, Live, Inside, callers, Typed, TypeOK, Starts, Callers, Statuses
<1>12. ASSUME NEW c \in Callers, SettleCancel(c) PROVE Quiet'
  <2>1. \A d \in Callers : pc[d] # "built"
    BY <1>12 DEF SettleCancel, OneByOne, OneInside, Inside, Callers
  <2>2. \A s \in download : s \in Starts /\ client[s] = "open"
    BY DEF OneByOne, Quiet, Open
  <2>3. \A s \in download : s = held[c]
    BY <1>12, <2>1, <2>2 DEF SettleCancel, OneByOne, Placed, AtCurrent
  <2>4. download' = {}
    BY <1>12, <2>3 DEF SettleCancel
  <2> QED
    BY <2>4 DEF Quiet
<1>13. ASSUME NEW s \in Starts, Works(s) PROVE Quiet'
  <2>1. download' \subseteq Open'
    BY <1>13 DEF Works, OneByOne, Quiet, Open
  <2>2. ASSUME status' \in {"pending", "paused", "error", "cancelled"},
               \A c \in Callers : pc'[c] # "built"
        PROVE  download' = {}
    <3>1. \A c \in Callers : pc[c] # "built"
      BY <1>13, <2>2 DEF Works, callers
    <3>2. CASE status' = status /\ download' = download
      BY <2>2, <3>1, <3>2 DEF OneByOne, Quiet
    <3>3. CASE download' = download \ {current}
      <4>1. \A q \in download : q \in Starts /\ client[q] = "open"
        BY DEF OneByOne, Quiet, Open
      <4>2. \A q \in download : q = current
        BY <3>1, <4>1 DEF OneByOne, AtCurrent
      <4> QED
        BY <3>3, <4>2
    <3> QED
      BY <1>13, <2>2, <3>2, <3>3 DEF Works
  <2> QED
    BY <2>1, <2>2 DEF Quiet
<1> QED
  BY <1>1, <1>2, <1>3, <1>4, <1>5, <1>6, <1>7, <1>8, <1>9, <1>10, <1>11, <1>12, <1>13 DEF Step

\* What a cancelled task has left.
LEMMA LeftKept ==
    ASSUME Typed, Step, ~overlapped, OneByOne, ~overlapped'
    PROVE  Left'
<1>1. ASSUME NEW c \in Callers, ResumeIgnored(c) PROVE Left'
  BY <1>1 DEF ResumeIgnored, Return, torrent, goroutines, OneByOne, OneInside, Placed, AtCurrent, Left, Open, Live, Inside, callers, Typed, TypeOK, Starts, Callers, Statuses
<1>2. ASSUME NEW c \in Callers, Resume(c) PROVE Left'
  BY <1>2 DEF Resume, Enter, torrent, goroutines, OneByOne, OneInside, Placed, AtCurrent, Left, Open, Live, Inside, callers, Typed, TypeOK, Starts, Callers, Statuses
<1>3. ASSUME NEW c \in Callers, Toggle(c) PROVE Left'
  BY <1>3 DEF Toggle, Return, goroutines, OneByOne, OneInside, Placed, AtCurrent, Left, Open, Live, Inside, callers, Typed, TypeOK, Starts, Callers, Statuses
<1>4. ASSUME NEW c \in Callers, StartFails(c) PROVE Left'
  BY <1>4 DEF StartFails, Return, torrent, goroutines, OneByOne, OneInside, Placed, AtCurrent, Left, Open, Live, Inside, callers, Typed, TypeOK, Starts, Callers, Statuses
<1>5. ASSUME NEW c \in Callers, Build(c) PROVE Left'
  BY <1>5 DEF Build, Goto, goroutines, OneByOne, OneInside, Placed, AtCurrent, Left, Open, Live, Inside, callers, Typed, TypeOK, Starts, Callers, Statuses
<1>6. ASSUME NEW c \in Callers, Record(c) PROVE Left'
  BY <1>6 DEF Record, Goto, torrent, goroutines, OneByOne, OneInside, Placed, AtCurrent, Left, Open, Live, Inside, callers, Typed, TypeOK, Starts, Callers, Statuses
<1>7. ASSUME NEW c \in Callers, Launch(c) PROVE Left'
  BY <1>7 DEF Launch, Return, torrent, OneByOne, OneInside, Placed, AtCurrent, Left, Open, Live, Inside, callers, Typed, TypeOK, Starts, Callers, Statuses
<1>8. ASSUME Pause PROVE Left'
  BY <1>8 DEF Pause, goroutines, callers, OneByOne, OneInside, Placed, AtCurrent, Left, Open, Live, Inside, callers, Typed, TypeOK, Starts, Callers, Statuses
<1>9. ASSUME NEW method \in {"cancel", "remove"}, Cancel(method) PROVE Left'
  BY <1>9 DEF Cancel, Enter, torrent, goroutines, OneByOne, OneInside, Placed, AtCurrent, Left, Open, Live, Inside, callers, Typed, TypeOK, Starts, Callers, Statuses
<1>10. ASSUME NEW c \in Callers, CancelContext(c) PROVE Left'
  BY <1>10 DEF CancelContext, Goto, torrent, goroutines, OneByOne, OneInside, Placed, AtCurrent, Left, Open, Live, Inside, callers, Typed, TypeOK, Starts, Callers, Statuses
<1>11. ASSUME NEW c \in Callers, WaitReturns(c) PROVE Left'
  BY <1>11 DEF WaitReturns, Goto, torrent, goroutines, OneByOne, OneInside, Placed, AtCurrent, Left, Open, Live, Inside, callers, Typed, TypeOK, Starts, Callers, Statuses
<1>12. ASSUME NEW c \in Callers, SettleCancel(c) PROVE Left'
  BY <1>12 DEF SettleCancel, Return, goroutines, OneByOne, OneInside, Placed, AtCurrent, Left, Open, Live, Inside, callers, Typed, TypeOK, Starts, Callers, Statuses
<1>13. ASSUME NEW s \in Starts, Works(s) PROVE Left'
  BY <1>13 DEF Works, OneByOne, OneInside, Placed, AtCurrent, Left, Open, Live, Inside, callers, Typed, TypeOK, Starts, Callers, Statuses
<1> QED
  BY <1>1, <1>2, <1>3, <1>4, <1>5, <1>6, <1>7, <1>8, <1>9, <1>10, <1>11, <1>12, <1>13 DEF Step

\* Whether the proxy is watched.
LEMMA GuardedKept ==
    ASSUME Typed, Step, ~overlapped, OneByOne, ~overlapped'
    PROVE  Guarded'
<1>1. ASSUME NEW c \in Callers, ResumeIgnored(c) PROVE Guarded'
  BY <1>1 DEF ResumeIgnored, Return, torrent, goroutines, OneByOne, OneInside, Placed, AtCurrent, Guarded, Live, Inside, callers, Typed, TypeOK, Starts, Callers, Statuses
<1>2. ASSUME NEW c \in Callers, Resume(c) PROVE Guarded'
  BY <1>2 DEF Resume, Enter, torrent, goroutines, OneByOne, OneInside, Placed, AtCurrent, Guarded, Live, Inside, callers, Typed, TypeOK, Starts, Callers, Statuses
<1>3. ASSUME NEW c \in Callers, Toggle(c) PROVE Guarded'
  BY <1>3 DEF Toggle, Return, goroutines, OneByOne, OneInside, Placed, AtCurrent, Guarded, Live, Inside, callers, Typed, TypeOK, Starts, Callers, Statuses
<1>4. ASSUME NEW c \in Callers, StartFails(c) PROVE Guarded'
  BY <1>4 DEF StartFails, Return, torrent, goroutines, OneByOne, OneInside, Placed, AtCurrent, Guarded, Live, Inside, callers, Typed, TypeOK, Starts, Callers, Statuses
<1>5. ASSUME NEW c \in Callers, Build(c) PROVE Guarded'
  BY <1>5 DEF Build, Goto, goroutines, OneByOne, OneInside, Placed, AtCurrent, Guarded, Live, Inside, callers, Typed, TypeOK, Starts, Callers, Statuses
<1>6. ASSUME NEW c \in Callers, Record(c) PROVE Guarded'
  BY <1>6 DEF Record, Goto, torrent, goroutines, OneByOne, OneInside, Placed, AtCurrent, Guarded, Live, Inside, callers, Typed, TypeOK, Starts, Callers, Statuses
<1>7. ASSUME NEW c \in Callers, Launch(c) PROVE Guarded'
  BY <1>7 DEF Launch, Return, torrent, OneByOne, OneInside, Placed, AtCurrent, Guarded, Live, Inside, callers, Typed, TypeOK, Starts, Callers, Statuses
<1>8. ASSUME Pause PROVE Guarded'
  BY <1>8 DEF Pause, goroutines, callers, OneByOne, OneInside, Placed, AtCurrent, Guarded, Live, Inside, callers, Typed, TypeOK, Starts, Callers, Statuses
<1>9. ASSUME NEW method \in {"cancel", "remove"}, Cancel(method) PROVE Guarded'
  BY <1>9 DEF Cancel, Enter, torrent, goroutines, OneByOne, OneInside, Placed, AtCurrent, Guarded, Live, Inside, callers, Typed, TypeOK, Starts, Callers, Statuses
<1>10. ASSUME NEW c \in Callers, CancelContext(c) PROVE Guarded'
  BY <1>10 DEF CancelContext, Goto, torrent, goroutines, OneByOne, OneInside, Placed, AtCurrent, Guarded, Live, Inside, callers, Typed, TypeOK, Starts, Callers, Statuses
<1>11. ASSUME NEW c \in Callers, WaitReturns(c) PROVE Guarded'
  BY <1>11 DEF WaitReturns, Goto, torrent, goroutines, OneByOne, OneInside, Placed, AtCurrent, Guarded, Live, Inside, callers, Typed, TypeOK, Starts, Callers, Statuses
<1>12. ASSUME NEW c \in Callers, SettleCancel(c) PROVE Guarded'
  BY <1>12 DEF SettleCancel, Return, goroutines, OneByOne, OneInside, Placed, AtCurrent, Guarded, Live, Inside, callers, Typed, TypeOK, Starts, Callers, Statuses
<1>13. ASSUME NEW s \in Starts, Works(s) PROVE Guarded'
  BY <1>13 DEF Works, OneByOne, OneInside, Placed, AtCurrent, Guarded, Live, Inside, callers, Typed, TypeOK, Starts, Callers, Statuses
<1> QED
  BY <1>1, <1>2, <1>3, <1>4, <1>5, <1>6, <1>7, <1>8, <1>9, <1>10, <1>11, <1>12, <1>13 DEF Step

LEMMA InvKept ==
    ASSUME TorrentInv, [Next]_vars
    PROVE  TorrentInv'
<1>1. CASE Next
  <2>1. Step /\ Typed'
    BY <1>1, Steps, TypeKept DEF TorrentInv, Typed
  <2>2. ~overlapped' => ~overlapped
    BY <2>1 DEF Step, Resume, ResumeIgnored, Toggle, StartFails, Build, Record, Launch, CancelContext,
       WaitReturns, SettleCancel, Pause, Cancel, Works, Enter, Return, Goto, callers
  <2>3. ASSUME ~overlapped, ~overlapped' PROVE OneByOne'
    <3>1. Typed /\ OneByOne /\ OneInside
      BY <2>3 DEF TorrentInv, OneByOne
    <3>2. OneInside' /\ (\A c \in Callers : Placed(c)') /\ AtCurrent' /\ Quiet' /\ Left' /\ Guarded'
      BY <2>1, <2>3, <3>1, InsideKept, PlacedKept, AtCurrentKept, QuietKept, LeftKept, GuardedKept
    <3> QED
      BY <3>2 DEF OneByOne, Callers
  <2> QED
    BY <2>1, <2>2, <2>3 DEF TorrentInv
<1>2. CASE UNCHANGED vars
  BY <1>2 DEF vars, torrent, goroutines, callers, TorrentInv, Typed, TypeOK, OneByOne, OneInside, Placed,
              AtCurrent, Quiet, Left, Guarded, Live, Open, Inside
<1> QED
  BY <1>1, <1>2

LEMMA InvFromInit ==
    ASSUME Init
    PROVE  TorrentInv
<1>1. Typed
  BY DEF Init, Typed, TypeOK, Statuses
<1>2. OneInside /\ \A c \in Callers : Placed(c)
  BY DEF Init, OneInside, Inside, Placed, Callers
<1>3. AtCurrent /\ Quiet /\ Left /\ Guarded
  BY DEF Init, AtCurrent, Quiet, Left, Guarded, Live, Open
<1> QED
  BY <1>1, <1>2, <1>3 DEF TorrentInv, OneByOne

-----------------------------------------------------------------------------
(* What follows.                                                           *)

\* The inductive invariant of a torrent: where its callers are, which client and
\* goroutines are in use, and whether data flows.
THEOREM TorrentHeld == Spec => []TorrentInv
BY InvFromInit, InvKept, PTL DEF Spec

\* A cancelled torrent has no client and no goroutine, if calls do not overlap.
THEOREM CancelledAreClosed == Spec => []CancelledIsClosed
<1>1. TorrentInv => CancelledIsClosed
  BY DEF TorrentInv, OneByOne, Left, CancelledIsClosed
<1> QED
  BY <1>1, TorrentHeld, PTL

\* A torrent that is paused, failed or cancelled downloads nothing, whenever the
\* kill switch trips.
THEOREM StoppedAreQuiet == Spec => []StoppedDownloadsNothing
<1>1. TorrentInv => StoppedDownloadsNothing
  BY DEF TorrentInv, OneByOne, Quiet, Inside, StoppedDownloadsNothing
<1> QED
  BY <1>1, TorrentHeld, PTL

\* A torrent that runs behind a proxy is watched until its kill switch trips.
THEOREM RunningAreWatched == Spec => []WatchedUnlessTripped
<1>1. TorrentInv => WatchedUnlessTripped
  <2> SUFFICES ASSUME TorrentInv, ~overlapped, Proxy, status = "active", ~Tripped,
                      \A c \in Callers : ~Inside(c)
               PROVE  guard[current] \in {"ticking", "checking"}
    BY DEF WatchedUnlessTripped
  <2>1. current \in Starts
    BY DEF TorrentInv, Typed, TypeOK, OneByOne, Guarded
  <2>2. guard[current] # "none" /\ (guard[current] = "ended" => current \in ctxDone)
    BY <2>1 DEF TorrentInv, OneByOne, Guarded, Inside, Starts
  <2>3. ctxDone = {}
    BY DEF TorrentInv, OneByOne, Left, Inside
  <2> QED
    BY <2>1, <2>2, <2>3 DEF TorrentInv, Typed, TypeOK, Tripped
<1> QED
  BY <1>1, TorrentHeld, PTL

-----------------------------------------------------------------------------
(* Whom Cancel waits for, and who ends the upload.                         *)

\* Data flows out only through an open client; the seed limiter of the current
\* start was launched, and stops watching an upload only when it is cancelled.
Limited ==
    /\ upload \subseteq Open
    /\ \A s \in upload : limiter[s] = "ended" => s \in ctxDone
    /\ SeedLimits # {} /\ current # 0 /\ limiter[current] = "none" =>
          \E c \in Callers : pc[c] = "launching"

\* A Cancel that waits has cancelled the context of the current start.
Told == pc["scheduler"] \in {"waiting", "waited"} => current \in ctxDone \cup {0}

SeedInv ==
    /\ status = "complete" => completed
    /\ ~overlapped => Limited /\ Told

\* The steps of the methods that leave clients, goroutines and contexts alone.
LEMMA SeedKeptAside ==
    ASSUME Limited, Told,
           UNCHANGED <<current, client, upload, limiter, ctxDone>>,
           \A c \in Callers : pc[c] = "launching" => pc'[c] = "launching",
           pc'["scheduler"] \in {"waiting", "waited"} => pc["scheduler"] \in {"waiting", "waited"}
    PROVE  Limited' /\ Told'
BY DEF Limited, Told, Open

LEMMA SeedKeptByBuild ==
    ASSUME Typed, OneByOne, Limited, Told, NEW c \in Callers, Build(c)
    PROVE  Limited' /\ Told'
<1>1. held[c] \in Starts /\ limiter[held[c]] = "none" /\ current = 0
  BY DEF Build, Typed, TypeOK, OneByOne, Placed
<1>2. upload' \subseteq Open'
  BY <1>1 DEF Build, Limited, Open, Typed, TypeOK
<1>3. \A s \in upload' : limiter'[s] = "ended" => s \in ctxDone'
  BY <1>1 DEF Build, Limited, goroutines
<1>4. current' = 0
  BY <1>1 DEF Build
<1> QED
  BY <1>2, <1>3, <1>4 DEF Limited, Told

LEMMA SeedKeptByRecord ==
    ASSUME Typed, OneByOne, Limited, Told, NEW c \in Callers, Record(c)
    PROVE  Limited' /\ Told'
<1>1. pc'[c] = "launching"
  BY DEF Record, Goto, Typed, TypeOK
<1>2. pc'["scheduler"] \notin {"waiting", "waited"}
  BY <1>1 DEF Record, Goto, OneByOne, OneInside, Inside, Callers, Typed, TypeOK
<1> QED
  BY <1>1, <1>2 DEF Record, Limited, Told, Open, torrent, goroutines

LEMMA SeedKeptByLaunch ==
    ASSUME Typed, OneByOne, Limited, Told, NEW c \in Callers, Launch(c)
    PROVE  Limited' /\ Told'
<1>1. held[c] = current /\ current \in Starts /\ limiter[current] = "none"
  BY DEF Launch, Typed, TypeOK, OneByOne, Placed
<1>2. SeedLimits # {} => limiter'[current] = "ticking"
  BY <1>1 DEF Launch, Typed, TypeOK
<1>3. \A s \in Starts : limiter'[s] = "ended" => limiter[s] = "ended"
  BY <1>1 DEF Launch, Typed, TypeOK
<1>4. \A s \in upload' : limiter'[s] = "ended" => s \in ctxDone'
  BY <1>3 DEF Launch, Limited, Open, torrent
<1>5. Told'
  BY DEF Launch, Return, Told, Callers, Typed, TypeOK
<1>6. upload' \subseteq Open' /\ current' = current
  BY DEF Launch, Limited, Open, torrent
<1> QED
  BY <1>2, <1>4, <1>5, <1>6 DEF Limited

LEMMA SeedKeptByCancel ==
    ASSUME Typed, OneByOne, Limited, Told, NEW c \in Callers, CancelContext(c)
    PROVE  Limited' /\ Told'
<1>1. held[c] = current /\ current' = current
  BY DEF CancelContext, OneByOne, Placed
<1>2. current \in ctxDone' \cup {0}
  BY <1>1 DEF CancelContext
<1>3. \A d \in Callers : pc[d] = "launching" => pc'[d] = "launching"
  BY DEF CancelContext, Goto, Typed, TypeOK
<1> QED
  BY <1>1, <1>2, <1>3 DEF CancelContext, Limited, Told, Open, torrent, goroutines

LEMMA SeedKeptBySettle ==
    ASSUME Typed, OneByOne, Limited, Told, NEW c \in Callers, SettleCancel(c)
    PROVE  Limited' /\ Told'
<1>1. upload' \subseteq Open'
  BY DEF SettleCancel, Limited, Open, Typed, TypeOK
<1>2. \A s \in upload' : limiter'[s] = "ended" => s \in ctxDone'
  BY DEF SettleCancel, Limited, goroutines
<1>3. \A d \in Callers : pc[d] = "launching" => pc'[d] = "launching"
  BY DEF SettleCancel, Return, Typed, TypeOK
<1>4. Told'
  BY DEF SettleCancel, Return, Told, Callers, Typed, TypeOK
<1> QED
  BY <1>1, <1>2, <1>3, <1>4 DEF SettleCancel, Limited, goroutines

LEMMA SeedKeptByWork ==
    ASSUME Typed, Limited, Told, NEW s \in Starts, Works(s)
    PROVE  Limited' /\ Told'
<1>1. upload' \subseteq Open'
  BY DEF Works, Limited, Open
<1>2. \A q \in upload' : limiter'[q] = "ended" => q \in ctxDone'
  BY DEF Works, Limited
<1>3. current' # 0 /\ limiter'[current'] = "none" => limiter[current] = "none" /\ current # 0
  BY DEF Works, Typed, TypeOK
<1> QED
  BY <1>1, <1>2, <1>3 DEF Works, Limited, Told, callers

LEMMA SeedKept ==
    ASSUME TorrentInv, SeedInv, [Next]_vars
    PROVE  SeedInv'
<1>1. CASE UNCHANGED vars
  BY <1>1 DEF vars, torrent, goroutines, callers, SeedInv, Limited, Told, Open
<1>2. CASE Next
  <2>1. Step /\ Typed
    BY <1>2, Steps DEF TorrentInv, Typed
  <2>2. (status = "complete" => completed)'
    BY <2>1 DEF SeedInv, Step, Resume, ResumeIgnored, Toggle, StartFails, Build, Record, Launch,
       CancelContext, WaitReturns, SettleCancel, Pause, Cancel, Works
  <2>3. ~overlapped' => ~overlapped
    BY <2>1 DEF Step, Resume, ResumeIgnored, Toggle, StartFails, Build, Record, Launch, CancelContext,
       WaitReturns, SettleCancel, Pause, Cancel, Works, Enter, Return, Goto, callers
  <2>4. ASSUME ~overlapped, ~overlapped' PROVE Limited' /\ Told'
    <3>1. OneByOne /\ Limited /\ Told
      BY <2>4 DEF TorrentInv, SeedInv
    <3>2. ASSUME NEW c \in Callers, Resume(c) PROVE Limited' /\ Told'
      BY <2>1, <3>1, <3>2, SeedKeptAside
         DEF Resume, Enter, torrent, goroutines, Callers, Typed, TypeOK
    <3>3. ASSUME NEW c \in Callers, ResumeIgnored(c) \/ Toggle(c) \/ StartFails(c)
          PROVE  Limited' /\ Told'
      BY <2>1, <3>1, <3>3, SeedKeptAside
         DEF ResumeIgnored, Toggle, StartFails, Return, torrent, goroutines, Callers, Typed, TypeOK
    <3>4. ASSUME NEW c \in Callers, WaitReturns(c) PROVE Limited' /\ Told'
      BY <2>1, <3>1, <3>4, SeedKeptAside
         DEF WaitReturns, Goto, torrent, goroutines, Callers, Typed, TypeOK
    <3>5. CASE Pause
      BY <2>1, <3>1, <3>5, SeedKeptAside DEF Pause, callers, goroutines
    <3>6. ASSUME NEW method, Cancel(method) PROVE Limited' /\ Told'
      BY <2>1, <3>1, <3>6, SeedKeptAside
         DEF Cancel, Enter, torrent, goroutines, Callers, Typed, TypeOK
    <3> QED
      BY <2>1, <3>1, <3>2, <3>3, <3>4, <3>5, <3>6, SeedKeptByBuild, SeedKeptByRecord,
         SeedKeptByLaunch, SeedKeptByCancel, SeedKeptBySettle, SeedKeptByWork DEF Step
  <2> QED
    BY <2>2, <2>3, <2>4 DEF SeedInv
<1> QED
  BY <1>1, <1>2

\* The invariant of the seed limiter and of the wait in Cancel.
THEOREM SeedHeld == Spec => []SeedInv
<1>1. Init => SeedInv
  BY DEF Init, SeedInv, Limited, Told, Callers
<1> QED
  BY <1>1, SeedKept, TorrentHeld, PTL DEF Spec

\* While Cancel waits for the goroutines (task.go:329) each that is left has its
\* context done: it is the safety half of CancelReturns.
CancelReachesAll ==
    ~overlapped /\ pc["scheduler"] = "waiting" => \A s \in Starts : Live(s) => s \in ctxDone

\* Cancel waits only for goroutines that have been told to stop.
THEOREM CancelsReachAll == Spec => []CancelReachesAll
<1>1. TorrentInv /\ SeedInv => CancelReachesAll
  BY DEF TorrentInv, OneByOne, AtCurrent, SeedInv, Told, CancelReachesAll, Starts
<1> QED
  BY <1>1, SeedHeld, TorrentHeld, PTL

\* How many steps the goroutines of start s are from their end once its context
\* is done: those of runDownload, of runKillSwitch, of runSeedLimiter.
WaiterAhead(s) ==
    CASE waiter[s] = "info" -> 3
      [] waiter[s] = "data" -> IF s \in whole THEN 1 ELSE 2
      [] OTHER -> 0

GuardAhead(s) ==
    CASE guard[s] = "checking" -> 2 [] guard[s] = "ticking" -> 1 [] OTHER -> 0

LimiterAhead(s) == IF limiter[s] = "ticking" THEN 1 ELSE 0

\* With them, the add handler's one call.
StepsLeft ==
    (IF current = 0 THEN 0
     ELSE WaiterAhead(current) + GuardAhead(current) + LimiterAhead(current))
    + (IF pc["adder"] = "idle" THEN 1 ELSE 0)

\* While Cancel waits (task.go:329) every step of the task, of whichever goroutine,
\* brings the end of the wait nearer.
CancelWindsDown ==
    [][~overlapped' /\ pc["scheduler"] = "waiting" /\ pc'["scheduler"] = "waiting"
          => StepsLeft' < StepsLeft]_vars

LEMMA AheadType ==
    ASSUME NEW s
    PROVE  WaiterAhead(s) \in 0 .. 3 /\ GuardAhead(s) \in 0 .. 2 /\ LimiterAhead(s) \in 0 .. 1
<1>1. WaiterAhead(s) \in 0 .. 3
  BY DEF WaiterAhead
<1>2. GuardAhead(s) \in 0 .. 2
  BY DEF GuardAhead
<1>3. LimiterAhead(s) \in 0 .. 1
  BY DEF LimiterAhead
<1> QED
  BY <1>1, <1>2, <1>3

\* A goroutine whose context is done comes nearer to its end, or finds again what
\* it has found.
LEMMA GoroutineNearer ==
    ASSUME TypeOK, NEW s \in Starts, s \in ctxDone, vars' # vars,
           \/ GotInfo(s) \/ LastPiece(s) \/ Complete(s) \/ DownloadCancelled(s)
           \/ CheckDirect(s) \/ CheckPassed(s) \/ Trip(s) \/ GuardCancelled(s)
           \/ UploadEnds(s) \/ LimiterCancelled(s)
    PROVE  /\ UNCHANGED <<current, pc>>
           /\ \/ WaiterAhead(s)' < WaiterAhead(s) /\ UNCHANGED <<guard, limiter>>
              \/ GuardAhead(s)' < GuardAhead(s) /\ UNCHANGED <<waiter, whole, limiter>>
              \/ LimiterAhead(s)' < LimiterAhead(s) /\ UNCHANGED <<waiter, whole, guard>>
<1>1. CASE GotInfo(s)
  BY <1>1 DEF GotInfo, torrent, callers, TypeOK, WaiterAhead
<1>2. CASE LastPiece(s)
  <2>1. s \notin whole
    BY <1>2 DEF LastPiece, vars, torrent, goroutines, callers
  <2> QED
    BY <1>2, <2>1 DEF LastPiece, goroutines, callers, WaiterAhead
<1>3. CASE Complete(s)
  BY <1>3 DEF Complete, WaiterEnds, torrent, callers, TypeOK, WaiterAhead
<1>4. CASE DownloadCancelled(s)
  BY <1>4 DEF DownloadCancelled, WaiterEnds, torrent, callers, TypeOK, WaiterAhead
<1>5. CASE CheckDirect(s)
  BY <1>5 DEF CheckDirect
<1>6. CASE CheckPassed(s)
  BY <1>6 DEF CheckPassed, GuardGoes, callers, TypeOK, GuardAhead
<1>7. CASE Trip(s)
  BY <1>7 DEF Trip, GuardGoes, callers, TypeOK, GuardAhead
<1>8. CASE GuardCancelled(s)
  BY <1>8 DEF GuardCancelled, GuardGoes, callers, TypeOK, GuardAhead
<1>9. CASE UploadEnds(s)
  BY <1>9 DEF UploadEnds, callers, TypeOK, LimiterAhead
<1>10. CASE LimiterCancelled(s)
  BY <1>10 DEF LimiterCancelled, torrent, callers, TypeOK, LimiterAhead
<1> QED
  BY <1>1, <1>2, <1>3, <1>4, <1>5, <1>6, <1>7, <1>8, <1>9, <1>10

LEMMA CancelNearer ==
    ASSUME TorrentInv, CancelReachesAll, Next, vars' # vars, ~overlapped',
           pc["scheduler"] = "waiting", pc'["scheduler"] = "waiting"
    PROVE  StepsLeft' < StepsLeft
<1>1. Step /\ Typed /\ TypeOK
  BY Steps DEF TorrentInv, Typed
<1>2. ~overlapped
  BY <1>1 DEF Step, Resume, ResumeIgnored, Toggle, StartFails, Build, Record, Launch, CancelContext,
     WaitReturns, SettleCancel, Pause, Cancel, Works, Enter, Return, Goto, callers
<1>3. OneByOne /\ ~Inside("adder")
  BY <1>2 DEF TorrentInv, OneByOne, OneInside, Inside
<1>4. ASSUME NEW s \in Starts,
             \/ GotInfo(s) \/ LastPiece(s) \/ Complete(s) \/ DownloadCancelled(s)
             \/ CheckDirect(s) \/ CheckPassed(s) \/ Trip(s) \/ GuardCancelled(s)
             \/ UploadEnds(s) \/ LimiterCancelled(s)
      PROVE  StepsLeft' < StepsLeft
  <2>1. Live(s)
    BY <1>1, <1>4, Working DEF Works
  <2>2. s = current /\ s \in ctxDone /\ s # 0
    BY <1>2, <1>3, <2>1 DEF CancelReachesAll, OneByOne, AtCurrent, Starts
  <2>3. /\ UNCHANGED <<current, pc>>
        /\ \/ WaiterAhead(s)' < WaiterAhead(s) /\ UNCHANGED <<guard, limiter>>
           \/ GuardAhead(s)' < GuardAhead(s) /\ UNCHANGED <<waiter, whole, limiter>>
           \/ LimiterAhead(s)' < LimiterAhead(s) /\ UNCHANGED <<waiter, whole, guard>>
    BY <1>1, <1>4, <2>2, GoroutineNearer
  <2>4. WaiterAhead(s) \in 0 .. 3 /\ GuardAhead(s) \in 0 .. 2 /\ LimiterAhead(s) \in 0 .. 1
    BY AheadType
  <2>5. WaiterAhead(s)' \in 0 .. 3 /\ GuardAhead(s)' \in 0 .. 2 /\ LimiterAhead(s)' \in 0 .. 1
    BY AheadType DEF WaiterAhead, GuardAhead, LimiterAhead
  <2>6. /\ UNCHANGED waiter /\ UNCHANGED whole => WaiterAhead(s)' = WaiterAhead(s)
        /\ UNCHANGED guard => GuardAhead(s)' = GuardAhead(s)
        /\ UNCHANGED limiter => LimiterAhead(s)' = LimiterAhead(s)
    BY DEF WaiterAhead, GuardAhead, LimiterAhead
  <2>7. WaiterAhead(s)' + GuardAhead(s)' + LimiterAhead(s)'
          < WaiterAhead(s) + GuardAhead(s) + LimiterAhead(s)
    BY <2>3, <2>4, <2>5, <2>6
  <2>8. /\ StepsLeft = WaiterAhead(s) + GuardAhead(s) + LimiterAhead(s)
                          + (IF pc["adder"] = "idle" THEN 1 ELSE 0)
        /\ StepsLeft' = WaiterAhead(s)' + GuardAhead(s)' + LimiterAhead(s)'
                          + (IF pc["adder"] = "idle" THEN 1 ELSE 0)
    BY <2>2, <2>3 DEF StepsLeft, WaiterAhead, GuardAhead, LimiterAhead
  <2> QED
    BY <2>4, <2>5, <2>7, <2>8
<1>5. ASSUME NEW c \in Callers, ResumeIgnored(c) PROVE StepsLeft' < StepsLeft
  <2>1. c = "adder" /\ pc["adder"] = "idle" /\ pc'["adder"] = "gone"
    BY <1>1, <1>5 DEF ResumeIgnored, Return, TypeOK, Callers
  <2>2. /\ current' = current
        /\ \A s : /\ WaiterAhead(s)' = WaiterAhead(s)
                  /\ GuardAhead(s)' = GuardAhead(s)
                  /\ LimiterAhead(s)' = LimiterAhead(s)
    BY <1>5 DEF ResumeIgnored, torrent, goroutines, WaiterAhead, GuardAhead, LimiterAhead
  <2> DEFINE left == IF current = 0 THEN 0
                     ELSE WaiterAhead(current) + GuardAhead(current) + LimiterAhead(current)
  <2>3. left \in Nat
    BY AheadType
  <2>4. StepsLeft = left + 1 /\ StepsLeft' = left + 0
    BY <2>1, <2>2 DEF StepsLeft
  <2> QED
    BY <2>3, <2>4
<1>6. ASSUME NEW c \in Callers, Resume(c) PROVE FALSE
  BY <1>6 DEF Resume, Enter, Inside, Callers
<1>7. ASSUME NEW c \in Callers, CallerStep(c) PROVE FALSE
  BY <1>1, <1>3, <1>7 DEF CallerStep, Toggle, StartFails, Build, Record, Launch, CancelContext,
     WaitReturns, SettleCancel, Goto, Inside, Callers, TypeOK
<1>8. ASSUME NEW method, Pause \/ Cancel(method) PROVE FALSE
  BY <1>8 DEF Pause, Cancel, Enter
<1> QED
  BY <1>4, <1>5, <1>6, <1>7, <1>8 DEF Next, Unwind, TimeReached, RatioReached

\* Cancel waits for seven steps at most: the goroutines that it waits for have
\* their contexts done, each step of theirs leads to their end, and nobody
\* starts another.  With the fairness of FairSpec this is what CancelReturns needs.
THEOREM CancelsWindDown == Spec => [](StepsLeft \in 0 .. 7) /\ CancelWindsDown
<1>1. TorrentInv /\ CancelReachesAll /\ [Next]_vars =>
        [~overlapped' /\ pc["scheduler"] = "waiting" /\ pc'["scheduler"] = "waiting"
            => StepsLeft' < StepsLeft]_vars
  BY CancelNearer
<1>2. TorrentInv => StepsLeft \in 0 .. 7
  BY AheadType DEF StepsLeft
<1> QED
  BY <1>1, <1>2, TorrentHeld, CancelsReachAll, PTL DEF Spec, CancelWindsDown

\* A complete torrent that still uploads, with a limit set, is watched by its
\* seed limiter, and the time it counts from is there (task.go:51-54): it is the
\* safety half of SeedingEnds.
SeedingIsLimited ==
    /\ ~overlapped
    /\ status = "complete" /\ SeedLimits # {} /\ \A c \in Callers : ~Inside(c)
    => completed /\ \A s \in upload : limiter[s] = "ticking"

\* Who seeds with a limit is watched.
THEOREM SeedersAreLimited == Spec => []SeedingIsLimited
<1>1. TorrentInv /\ SeedInv => SeedingIsLimited
  <2> SUFFICES ASSUME TorrentInv, SeedInv, ~overlapped, status = "complete", SeedLimits # {},
                      \A c \in Callers : ~Inside(c), NEW s \in upload
               PROVE  limiter[s] = "ticking"
    BY DEF SeedingIsLimited, SeedInv
  <2>1. s \in Starts /\ client[s] = "open"
    BY DEF SeedInv, Limited, Open
  <2>2. s = current /\ current # 0
    BY <2>1 DEF TorrentInv, OneByOne, AtCurrent, Inside, Starts
  <2>3. limiter[s] # "none"
    BY <2>2 DEF SeedInv, Limited, Inside
  <2>4. ctxDone = {}
    BY DEF TorrentInv, OneByOne, Left, Inside
  <2>5. limiter[s] # "ended"
    BY <2>4 DEF SeedInv, Limited
  <2> QED
    BY <2>1, <2>3, <2>5 DEF TorrentInv, Typed, TypeOK
<1> QED
  BY <1>1, SeedHeld, TorrentHeld, PTL

-----------------------------------------------------------------------------
(* The contract.                                                           *)

\* Every step of a torrent is one of the contract, or none for it.
LEMMA StepsContracted ==
    ASSUME TorrentInv, [Next]_vars
    PROVE  [Contract!Next]_(IF overlapped \/ Tripped THEN "cancelled" ELSE status)
<1>1. CASE UNCHANGED vars
  BY <1>1 DEF vars, goroutines, callers, Tripped
<1>2. CASE overlapped' \/ Tripped'
  BY <1>2 DEF Contract!Next, Contract!Cancel
<1>3. CASE Next /\ ~overlapped' /\ ~Tripped'
  <2>1. Step
    BY <1>3, Steps DEF TorrentInv, Typed
  <2>2. ~overlapped
    BY <1>3, <2>1 DEF Step, Resume, ResumeIgnored, Toggle, StartFails, Build, Record, Launch, CancelContext,
       WaitReturns, SettleCancel, Pause, Cancel, Works, Enter, Return, Goto, callers
  <2>3. Typed /\ OneByOne
    BY <2>2 DEF TorrentInv
  <2>4. ~Tripped
    BY <1>3, <2>1, <2>3 DEF Tripped, Step, Resume, ResumeIgnored, Toggle, StartFails, Build, Record, Launch,
       CancelContext, WaitReturns, SettleCancel, Pause, Cancel, Works, goroutines,
       OneByOne, Placed, Typed, TypeOK
  <2>5. \/ status' = status
        \/ status \in {"pending", "paused", "error"} /\ status' \in {"active", "error"}
        \/ status = "active" /\ status' \in {"paused", "complete", "error"}
        \/ status' = "cancelled"
    <3>1. ASSUME NEW s \in Starts, Works(s)
          PROVE  status' = status \/ (status = "active" /\ status' = "complete")
      BY <1>3, <3>1 DEF Works, Tripped
    <3> QED
      BY <2>1, <2>3, <3>1 DEF Step, Resume, ResumeIgnored, Toggle, StartFails, Build, Record, Launch,
         CancelContext, WaitReturns, SettleCancel, Pause, Cancel, OneByOne, Placed
  <2> QED
    BY <1>3, <2>2, <2>4, <2>5
       DEF Contract!Next, Contract!Start, Contract!Stop, Contract!End, Contract!Cancel
<1> QED
  BY <1>1, <1>2, <1>3

\* A torrent keeps the contract until its callers overlap or its kill switch
\* trips, at whatever moment its content becomes whole.
THEOREM TorrentKeepsContract == Spec => ContractKept
<1>1. Init => Contract!Init
  BY DEF Init, Tripped, Contract!Init
<1>2. QED
  BY <1>1, StepsContracted, TorrentHeld, PTL DEF Spec, ContractKept, Contract!Spec
=============================================================================
