---------------------------- MODULE TaskListProofs ----------------------------
(***************************************************************************)
(* The task list beyond the Scheduler.  On disk (TaskList): what was       *)
(* answered is there, for any number of tasks.  On the page (EventsFeed):  *)
(* the frames of the two goroutines stay whole, and a refreshed list is    *)
(* not an old one, for any number of changes and requests and any window.  *)
(***************************************************************************)
EXTENDS TaskList, EventsFeed, TLAPS

-----------------------------------------------------------------------------
(* On disk.                                                                *)

USE DEF ids

LEMMA InvInit == Init => SaveInv
<1> SUFFICES ASSUME Init PROVE SaveInv
  OBVIOUS
<1>1. Empty \in Lists
  BY DEF Empty, Lists
<1>2. Absent \in [kind : {"absent", "list", "torn"}, list : Lists]
  BY <1>1 DEF Absent
<1>3. TypeOK
  BY <1>1, <1>2 DEF Init, TypeOK
<1> QED
  BY <1>3 DEF Init, SaveInv, AnsweredIsSaved, Running

\* The records are a list of what is in memory.
LEMMA RecordsRight == TypeOK => Records \in Lists /\ Covers(Records)
BY DEF TypeOK, Lists, Records, Covers

\* Whoever has the mutex is the only one to change the entries, so an end is
\* all that can come between the records and their save, and a list that
\* covers them covers them still.
LEMMA EndKept ==
    ASSUME SaveInv, NEW t \in Tasks, End(t)
    PROVE  SaveInv'
<1>1. TypeOK'
  BY DEF SaveInv, TypeOK, End, save
<1>2. ASSUME NEW saved, Covers(saved) PROVE Covers(saved)'
  BY <1>2 DEF Covers, End
<1>3. (step \in {"open", "write"} => Covers(records))'
  BY <1>2 DEF SaveInv, End, save
<1>4. AnsweredIsSaved'
  BY <1>2 DEF SaveInv, AnsweredIsSaved, End, save, Running
<1> QED
  BY <1>1, <1>3, <1>4 DEF SaveInv, End, save, Running, TypeOK

\* With the mutex taken nothing is owed to the file.
LEMMA LockKept ==
    ASSUME SaveInv, NEW who \in {"ticker", "request"}, Lock(who), Running,
           entries' \subseteq Tasks, over' \subseteq entries',
           unused' \subseteq Tasks, removed' \subseteq Tasks
    PROVE  SaveInv'
BY DEF SaveInv, TypeOK, Lock, AnsweredIsSaved, Running

LEMMA CollectKept ==
    ASSUME SaveInv, Collect
    PROVE  SaveInv'
<1>1. Covers(records)'
  BY RecordsRight DEF SaveInv, Collect, memory, Covers
<1>2. TypeOK'
  BY RecordsRight DEF SaveInv, TypeOK, Collect, memory
<1> QED
  BY <1>1, <1>2 DEF SaveInv, Collect, memory, AnsweredIsSaved, Running, TypeOK

LEMMA OpenKept ==
    ASSUME SaveInv, OpenFile
    PROVE  SaveInv'
<1>1. TypeOK'
  BY DEF SaveInv, TypeOK, OpenFile, memory, Torn, Lists, Empty
<1>2. Covers(records)'
  BY DEF SaveInv, OpenFile, memory, Covers
<1> QED
  BY <1>1, <1>2 DEF SaveInv, OpenFile, memory, AnsweredIsSaved, Running, TypeOK

LEMMA WriteKept ==
    ASSUME SaveInv, WriteFile
    PROVE  SaveInv'
<1>1. TypeOK'
  BY DEF SaveInv, TypeOK, WriteFile, Unlock, memory, Saved
<1>2. file' = Saved(records) /\ Covers(records)'
  BY DEF SaveInv, WriteFile, Unlock, memory, Covers
<1>3. AnsweredIsSaved'
  <2>1. (file.kind = "list")' /\ (file.list = records)'
    BY <1>2 DEF WriteFile, Unlock, memory, Saved
  <2>2. Covers(file.list)'
    BY <2>1, <1>2 DEF Covers
  <2> QED
    BY <2>1, <2>2 DEF AnsweredIsSaved
<1> QED
  BY <1>1, <1>3 DEF SaveInv, WriteFile, Unlock, memory, Running

LEMMA FailKept ==
    ASSUME SaveInv, SaveFails
    PROVE  SaveInv'
BY DEF SaveInv, TypeOK, SaveFails, Unlock, memory, AnsweredIsSaved, Running

\* The process comes and goes; no save has succeeded since it came.
LEMMA ProcessKept ==
    ASSUME SaveInv, Signal \/ Exit \/ Crash \/ Start
    PROVE  SaveInv'
<1>1. CASE Signal
  <2>1. TypeOK'
    BY <1>1 DEF SaveInv, TypeOK, Signal, memory, save
  <2>2. AnsweredIsSaved'
    BY <1>1 DEF SaveInv, Signal, memory, save, AnsweredIsSaved, Running, Covers
  <2> QED
    BY <1>1, <2>1, <2>2 DEF SaveInv, Signal, memory, save, Running, Covers
<1>2. CASE Exit \/ Crash
  BY <1>2 DEF SaveInv, TypeOK, Exit, Crash, Gone, AnsweredIsSaved, Running,
              Lists, Empty
<1>3. CASE Start
  BY <1>3 DEF SaveInv, TypeOK, Start, memory, save, AnsweredIsSaved, Running, Covers
<1> QED
  BY <1>1, <1>2, <1>3

\* The invariant is inductive.
LEMMA InvNext == SaveInv /\ [Next]_vars => SaveInv'
<1> SUFFICES ASSUME SaveInv, [Next]_vars PROVE SaveInv'
  OBVIOUS
<1>1. ASSUME NEW t \in Tasks, Add(t) PROVE SaveInv'
  BY <1>1, LockKept DEF Add, SaveInv, TypeOK, Running
<1>2. ASSUME NEW t \in Tasks, Remove(t) PROVE SaveInv'
  BY <1>2, LockKept DEF Remove, SaveInv, TypeOK, Running
<1>3. ASSUME NEW t \in Tasks, Touch(t) PROVE SaveInv'
  BY <1>3, LockKept DEF Touch, SaveInv, TypeOK, memory, Running
<1>4. ASSUME NEW t \in Tasks, End(t) PROVE SaveInv'
  BY <1>4, EndKept
<1>5. CASE Tick
  BY <1>5, LockKept DEF Tick, SaveInv, TypeOK, memory
<1>6. CASE SaveStep
  BY <1>6, CollectKept, OpenKept, WriteKept, FailKept DEF SaveStep
<1>7. CASE UNCHANGED vars
  BY <1>7 DEF SaveInv, TypeOK, AnsweredIsSaved, Running, Covers, vars, memory, save
<1> QED
  BY <1>1, <1>2, <1>3, <1>4, <1>5, <1>6, <1>7, ProcessKept DEF Next

-----------------------------------------------------------------------------
\* Every variable keeps its type, and a save has in hand what is in memory
\* (persistLocked, under Scheduler.mu).
THEOREM TypeCorrect == Spec => []SaveInv
BY InvInit, InvNext, PTL DEF Spec

\* What a request has changed is on disk when it is answered, and stays there
\* as long as saves succeed, however many tasks end meanwhile.
THEOREM AnsweredSaved == Spec => []AnsweredIsSaved
<1>1. SaveInv => AnsweredIsSaved
  BY DEF SaveInv
<1> QED
  BY <1>1, TypeCorrect, PTL

-----------------------------------------------------------------------------
(* On the page.                                                            *)

WirePart == [frame : {"list", "pong"}, part : {"head", "body"}, list : Versions]
Places == {"off", "idle", "lock", "head", "body"}

\* writeMu: of the two goroutines at most one is writing.
OneWrites == \A g, h \in Goroutines : Writing(g) /\ Writing(h) => g = h

\* What is written is at the end of the wire until the connection is gone: a
\* head, when its goroutine has the body still to write, and then that head.
WireEnd ==
    /\ conn \in {"dialled", "lost"} => wire = <<>>
    /\ conn = "dialled" => \A g \in Goroutines : at[g] = "off"
    /\ conn = "open" /\ wire # <<>> =>
          /\ wire[Len(wire)].part = "head" => \E g \in Goroutines : at[g] = "body"
          /\ \A g \in Goroutines : at[g] = "body" => wire[Len(wire)] = Part(g, "head")

\* Heads and bodies take turns, and as long as the page reads whole frames a
\* head comes first.
Aligned ==
    /\ \A i \in 1 .. Len(wire) - 1 : wire[i].part # wire[i + 1].part
    /\ socket \in {"connecting", "open"} =>
          /\ wire # <<>> => wire[1].part = "head"
          /\ conn = "open" /\ wire = <<>> => \A g \in Goroutines : at[g] # "body"
    /\ conn = "lost" => socket = "closed"

WireInv == OneWrites /\ WireEnd /\ Aligned /\ FramesWhole

\* What onmessage is called with is one frame: its two parts.
MessageIsWhole ==
    socket = "open" /\ Len(wire) >= 2 =>
        /\ wire[1].part = "head"
        /\ wire[2] = [wire[1] EXCEPT !.part = "body"]

\* The types apart: the two sequences, and the rest.
WireType == wire \in Seq(WirePart) /\ Len(wire) <= Window
InboxType == inbox \in Seq({"ping", "close"}) /\ Len(inbox) <= 2

ServerTypes ==
    /\ list \in Versions
    /\ conn \in {"dialled", "open", "lost", "closed"}
    /\ at \in [Goroutines -> Places]
    /\ taken \in Versions
    /\ ended \in BOOLEAN

PageTypes ==
    /\ socket \in {"connecting", "open", "closing", "closed"}
    /\ tasks \in Versions
    /\ loading \in BOOLEAN /\ error \in BOOLEAN
    /\ nonce \in Requests
    /\ request \in [Requests -> {"none", "asked", "answered", "done"}]
    /\ answer \in [Requests -> Versions]
    /\ asOf \in Versions
    /\ pushed \in BOOLEAN

LEMMA FeedTypeParts == FeedTypeOK <=> WireType /\ InboxType /\ ServerTypes /\ PageTypes
BY DEF FeedTypeOK, WireType, InboxType, ServerTypes, PageTypes, WirePart, Places

LEMMA Basics ==
    /\ MaxChanges \in Nat /\ 0 \in Versions
    /\ 1 \in Requests /\ Requests \subseteq Nat
    /\ Goroutines = {"pusher", "reader"}
    /\ \A v \in Versions : v \in Nat
BY BoundsAssumption DEF Versions, Requests, Goroutines

\* What is read off the front of a sequence.
LEMMA TwoOff ==
    ASSUME NEW S, NEW s \in Seq(S), Len(s) >= 2
    PROVE  /\ Tail(Tail(s)) \in Seq(S)
           /\ Len(Tail(Tail(s))) = Len(s) - 2
           /\ \A i \in 1 .. Len(s) - 2 : Tail(Tail(s))[i] = s[i + 2]
           /\ Head(s) = s[1] /\ s[1] \in S /\ s[2] \in S
<1>1. Tail(s) \in Seq(S) /\ Len(Tail(s)) = Len(s) - 1
      /\ \A i \in 1 .. Len(s) - 1 : Tail(s)[i] = s[i + 1]
  OBVIOUS
<1>2. Tail(s) # <<>>
  <2>1. Len(Tail(s)) # 0 /\ Len(<<>>) = 0
    BY <1>1
  <2> QED
    BY <2>1
<1> DEFINE t == Tail(s)
<1> HIDE DEF t
<1>3. Tail(t) \in Seq(S) /\ Len(Tail(t)) = Len(t) - 1
      /\ \A i \in 1 .. Len(t) - 1 : Tail(t)[i] = t[i + 1]
  <2>1. t \in Seq(S) /\ t # <<>>
    BY <1>1, <1>2 DEF t
  <2> QED
    BY <2>1
<1>4. Head(s) = s[1] /\ s[1] \in S /\ s[2] \in S
  OBVIOUS
<1> QED
  BY <1>1, <1>3, <1>4 DEF t

LEMMA OneOff ==
    ASSUME NEW S, NEW s \in Seq(S), s # <<>>
    PROVE  /\ Tail(s) \in Seq(S)
           /\ Len(Tail(s)) = Len(s) - 1
           /\ \A i \in 1 .. Len(s) - 1 : Tail(s)[i] = s[i + 1]
OBVIOUS

LEMMA OneOn ==
    ASSUME NEW S, NEW s \in Seq(S), NEW e \in S
    PROVE  /\ Append(s, e) \in Seq(S)
           /\ Len(Append(s, e)) = Len(s) + 1
           /\ \A i \in 1 .. Len(s) : Append(s, e)[i] = s[i]
           /\ Append(s, e)[Len(s) + 1] = e
OBVIOUS

LEMMA PartType ==
    ASSUME ServerTypes, NEW g \in Goroutines, NEW p \in {"head", "body"}
    PROVE  Part(g, p) \in WirePart
BY Basics DEF ServerTypes, Part, FrameOf, WirePart

\* The steps one by one.
LEMMA FeedCases ==
    ASSUME FeedNext
    PROVE  \/ Upgrade \/ PushDue \/ SeeEnded \/ ReadPing \/ ReadEnds
           \/ \E g \in Goroutines : TakeLock(g) \/ Write(g) \/ WriteFails(g)
           \/ Opened \/ Message \/ Close \/ Drop \/ Closed \/ Ping
           \/ Refresh \/ (\E n \in Requests : Serve(n) \/ Answered(n) \/ Failed(n))
           \/ Change \/ Lose
BY DEF FeedNext, Push, Read, WriteStep, SocketEvent, RequestEvent, Goroutines

LEMMA WireTypeStep == FeedTypeOK /\ FeedNext => WireType'
<1> SUFFICES ASSUME WireType, ServerTypes, FeedNext PROVE WireType'
  BY FeedTypeParts
<1>0. Window \in Nat /\ Len(wire) \in Nat /\ wire \in Seq(WirePart)
  BY BoundsAssumption DEF WireType
<1>1. ASSUME NEW g \in Goroutines, Write(g) PROVE WireType'
  <2>1. Part(g, at[g]) \in WirePart
    BY <1>1, PartType DEF Write, Writing
  <2>2. wire' = wire \/ wire' = Append(wire, Part(g, at[g]))
    BY <1>1 DEF Write
  <2>3. Len(wire) < Window
    BY <1>1 DEF Write
  <2> QED
    BY <1>0, <2>1, <2>2, <2>3, OneOn DEF WireType
<1>2. CASE Message
  <2>1. wire' = Tail(Tail(wire)) /\ Len(wire) >= 2
    BY <1>2 DEF Message
  <2> QED
    BY <1>0, <2>1, TwoOff DEF WireType
<1>3. CASE Drop
  <2>1. wire' = Tail(wire) /\ wire # <<>>
    BY <1>3 DEF Drop
  <2> QED
    BY <1>0, <2>1, OneOff DEF WireType
<1>4. CASE Closed \/ Lose
  <2>1. wire' = <<>>
    BY <1>4 DEF Closed, Lose
  <2> QED
    BY <1>0, <2>1 DEF WireType
<1>5. CASE wire' = wire
  BY <1>5 DEF WireType
<1> QED
  BY <1>1, <1>2, <1>3, <1>4, <1>5
  DEF FeedNext, Push, Read, WriteStep, SocketEvent, RequestEvent, Goroutines, Upgrade,
      PushDue, SeeEnded, ReadPing, ReadEnds, TakeLock, WriteFails, Opened, Close, Ping,
      Refresh, Serve, Answered, Failed, Handled, Change

\* A page that has not closed its socket has at most one ping under way.
OnePing == socket \in {"connecting", "open"} => Len(inbox) <= 1

LEMMA InboxTypeStep == FeedTypeOK /\ OnePing /\ FeedNext => InboxType' /\ OnePing'
<1> SUFFICES ASSUME InboxType, OnePing, FeedNext PROVE InboxType' /\ OnePing'
  BY FeedTypeParts
<1>0. inbox \in Seq({"ping", "close"}) /\ Len(inbox) \in Nat /\ Len(inbox) <= 2
  BY DEF InboxType
<1>1. CASE ReadPing
  <2>1. inbox' = Tail(inbox) /\ inbox # <<>> /\ socket' = socket
    BY <1>1 DEF ReadPing, page
  <2> QED
    BY <1>0, <2>1, OneOff DEF InboxType, OnePing
<1>2. CASE Close
  <2>1. inbox' = Append(inbox, "close") /\ Len(inbox) <= 1 /\ socket' = "closing"
    BY <1>2 DEF Close, OnePing
  <2> QED
    BY <1>0, <2>1, OneOn DEF InboxType, OnePing
<1>3. CASE Closed \/ Lose \/ Ping
  <2>1. inbox' = <<>> \/ inbox' = <<"ping">>
    BY <1>3 DEF Closed, Lose, Ping
  <2>2. <<>> \in Seq({"ping", "close"}) /\ Len(<<>>) = 0
    OBVIOUS
  <2>3. <<"ping">> \in Seq({"ping", "close"}) /\ Len(<<"ping">>) = 1
    OBVIOUS
  <2>4. inbox' \in Seq({"ping", "close"}) /\ Len(inbox') \in {0, 1}
    <3>1. CASE inbox' = <<>>
      BY <2>2, <3>1, Zenon
    <3>2. CASE inbox' = <<"ping">>
      BY <2>3, <3>2, Zenon
    <3> QED
      BY <2>1, <3>1, <3>2
  <2>5. \A k \in {0, 1} : k <= 1 /\ k <= 2
    OBVIOUS
  <2> QED
    BY <2>4, <2>5, Zenon DEF InboxType, OnePing
<1>4. CASE inbox' = inbox /\ (socket' = socket \/ socket = "connecting")
  BY <1>4 DEF InboxType, OnePing
<1>5. CASE Upgrade \/ PushDue \/ SeeEnded \/ ReadEnds \/ Opened \/ Message \/ Drop \/ Refresh
  BY <1>4, <1>5 DEF Upgrade, PushDue, SeeEnded, ReadEnds, Opened, Message, Drop, Refresh, page
<1>6. CASE Change \/ \E g \in Goroutines : TakeLock(g) \/ Write(g) \/ WriteFails(g)
  BY <1>4, <1>6 DEF Change, TakeLock, Write, WriteFails, page
<1>7. CASE \E n \in Requests : Serve(n) \/ Answered(n) \/ Failed(n)
  BY <1>4, <1>7 DEF Serve, Answered, Failed, Handled
<1> QED
  BY <1>1, <1>2, <1>3, <1>5, <1>6, <1>7, FeedCases

LEMMA ServerTypesStep == FeedTypeOK /\ FeedNext => ServerTypes'
<1> SUFFICES ASSUME ServerTypes, FeedNext PROVE ServerTypes'
  BY FeedTypeParts
<1> USE DEF ServerTypes
<1>1. CASE Upgrade \/ PushDue \/ SeeEnded \/ ReadPing \/ ReadEnds
  BY <1>1, Basics DEF Upgrade, PushDue, SeeEnded, ReadPing, ReadEnds, Places
<1>2. ASSUME NEW g \in Goroutines, TakeLock(g) \/ Write(g) \/ WriteFails(g) PROVE ServerTypes'
  <2>1. at' \in [Goroutines -> Places] /\ list' = list
    BY <1>2 DEF TakeLock, Write, WriteFails, Places
  <2>2. taken' \in Versions /\ conn' \in {"dialled", "open", "lost", "closed"}
    BY <1>2, Basics DEF TakeLock, Write, WriteFails
  <2>3. ended' \in BOOLEAN
    BY <1>2 DEF TakeLock, Write, WriteFails
  <2> QED
    BY <2>1, <2>2, <2>3
<1>3. CASE Change
  BY <1>3, BoundsAssumption DEF Change, Versions
<1>4. CASE Lose
  BY <1>4 DEF Lose
<1>5. CASE UNCHANGED server
  BY <1>5 DEF server
<1> QED
  BY <1>1, <1>2, <1>3, <1>4, <1>5, Basics
  DEF FeedNext, Push, Read, WriteStep, SocketEvent, RequestEvent, Opened, Message, Drop,
      Closed, Close, Ping, Refresh, Serve, Answered, Failed, Handled

LEMMA PageTypesStep == FeedTypeOK /\ FeedNext => PageTypes'
<1> SUFFICES ASSUME PageTypes, ServerTypes, WireType, FeedNext PROVE PageTypes'
  BY FeedTypeParts
<1> USE DEF PageTypes
<1>1. CASE Message
  <2>1. tasks' \in Versions
    <3>1. Head(wire) \in WirePart
      BY <1>1, TwoOff DEF Message, WireType
    <3> QED
      BY <1>1, <3>1 DEF Message, WirePart
  <2> QED
    BY <1>1, <2>1 DEF Message
<1>2. CASE Opened \/ Close \/ Closed \/ Lose
  BY <1>2 DEF Opened, Close, Closed, Lose
<1>3. CASE Refresh
  <2>1. nonce' \in Requests
    BY <1>3, BoundsAssumption DEF Refresh, Requests
  <2>2. request' \in [Requests -> {"none", "asked", "answered", "done"}]
    BY <1>3, <2>1 DEF Refresh
  <2> QED
    BY <1>3, <2>1, <2>2 DEF Refresh, ServerTypes
<1>4. ASSUME NEW n \in Requests, Serve(n) \/ Answered(n) \/ Failed(n) PROVE PageTypes'
  <2>1. request' \in [Requests -> {"none", "asked", "answered", "done"}]
    BY <1>4 DEF Serve, Answered, Failed, Handled
  <2>2. answer' \in [Requests -> Versions] /\ tasks' \in Versions
    BY <1>4, Basics DEF Serve, Answered, Failed, Handled, ServerTypes
  <2>3. loading' \in BOOLEAN /\ error' \in BOOLEAN
    BY <1>4 DEF Serve, Answered, Failed
  <2>4. UNCHANGED <<socket, nonce, asOf, pushed>>
    BY <1>4 DEF Serve, Answered, Failed, Handled
  <2> QED
    BY <2>1, <2>2, <2>3, <2>4
<1>5. CASE UNCHANGED page
  BY <1>5 DEF page
<1>6. CASE Upgrade \/ PushDue \/ SeeEnded \/ ReadPing \/ ReadEnds \/ Drop \/ Ping \/ Change
  BY <1>5, <1>6 DEF Upgrade, PushDue, SeeEnded, ReadPing, ReadEnds, Drop, Ping, Change
<1>7. CASE \E g \in Goroutines : TakeLock(g) \/ Write(g) \/ WriteFails(g)
  BY <1>5, <1>7 DEF TakeLock, Write, WriteFails
<1> QED
  BY <1>1, <1>2, <1>3, <1>4, <1>6, <1>7, FeedCases

LEMMA FeedTypeStep == FeedTypeOK /\ OnePing /\ [FeedNext]_feed => FeedTypeOK' /\ OnePing'
<1>1. CASE FeedNext
  BY <1>1, FeedTypeParts, WireTypeStep, InboxTypeStep, ServerTypesStep, PageTypesStep
  DEF FeedTypeOK, WireType, InboxType, ServerTypes, PageTypes, WirePart, Places
<1>2. CASE UNCHANGED feed
  BY <1>2 DEF feed, server, page, FeedTypeOK, OnePing
<1> QED
  BY <1>1, <1>2

LEMMA FeedTypeInit == FeedInit => FeedTypeOK /\ OnePing
<1> SUFFICES ASSUME FeedInit PROVE FeedTypeOK /\ OnePing
  OBVIOUS
<1>1. WireType /\ InboxType /\ OnePing
  BY BoundsAssumption DEF FeedInit, WireType, InboxType, OnePing
<1>2. ServerTypes
  BY Basics DEF FeedInit, ServerTypes, Places
<1>3. PageTypes
  BY Basics DEF FeedInit, PageTypes
<1> QED
  BY <1>1, <1>2, <1>3, FeedTypeParts

\* Every variable of the feed keeps its type: the client's frames never pile
\* up, since the page pings only when the last ping has been read.
THEOREM FeedTypeCorrect == FeedSpec => []FeedTypeOK
<1>1. FeedSpec => [](FeedTypeOK /\ OnePing)
  BY FeedTypeInit, FeedTypeStep, PTL DEF FeedSpec
<1> QED
  BY <1>1, PTL

\* Of the two parts of a frame.
LEMMA PartKinds == \A w \in WirePart : w.part = "head" \/ w.part = "body"
BY DEF WirePart

LEMMA OneWritesStep == FeedTypeOK /\ OneWrites /\ FeedNext => OneWrites'
<1> SUFFICES ASSUME ServerTypes, OneWrites, FeedNext PROVE OneWrites'
  BY FeedTypeParts
<1> USE DEF OneWrites, Writing, ServerTypes
<1>1. CASE Upgrade \/ PushDue \/ SeeEnded \/ ReadPing \/ ReadEnds
  BY <1>1 DEF Upgrade, PushDue, SeeEnded, ReadPing, ReadEnds
<1>2. ASSUME NEW g \in Goroutines, TakeLock(g) \/ Write(g) \/ WriteFails(g) PROVE OneWrites'
  BY <1>2 DEF TakeLock, Write, WriteFails
<1>3. CASE at' = at
  BY <1>3
<1>4. CASE Opened \/ Message \/ Close \/ Drop \/ Closed \/ Ping \/ Refresh \/ Change \/ Lose
  BY <1>3, <1>4
  DEF Opened, Message, Close, Drop, Closed, Ping, Refresh, Change, Lose, server
<1>5. CASE \E n \in Requests : Serve(n) \/ Answered(n) \/ Failed(n)
  BY <1>3, <1>5 DEF Serve, Answered, Failed, Handled, server
<1> QED
  BY <1>1, <1>2, <1>4, <1>5, FeedCases

\* A goroutine puts the next part of its frame at the end.
LEMMA WriteWire ==
    ASSUME FeedTypeOK, WireInv, NEW g \in Goroutines, Write(g), OneWrites'
    PROVE  WireInv'
<1>1. WireType /\ ServerTypes
  BY FeedTypeParts
<1>2. /\ wire \in Seq(WirePart) /\ Len(wire) \in Nat
      /\ Part(g, at[g]) \in WirePart
      /\ at[g] \in {"head", "body"}
      /\ UNCHANGED <<conn, socket>>
  BY <1>1, PartType DEF Write, Writing, WireType, page
<1>3. \A h \in Goroutines \ {g} : at[h] \notin {"head", "body"} /\ at'[h] = at[h]
  BY DEF WireInv, OneWrites, Write, Writing
<1>4. at'[g] = IF at[g] = "head" THEN "body" ELSE "idle"
  BY <1>1 DEF Write, ServerTypes
<1>5. CASE conn # "open"
  <2>1. conn = "lost" /\ wire = <<>> /\ wire' = <<>> /\ socket = "closed"
    <3>1. conn = "lost"
      BY <1>1, <1>2, <1>5 DEF WireInv, WireEnd, Write, ServerTypes
    <3> QED
      BY <3>1 DEF WireInv, WireEnd, Aligned, Write
  <2> QED
    BY <1>2, <2>1 DEF WireInv, WireEnd, Aligned, FramesWhole
<1>6. CASE conn = "open"
  <2> DEFINE p == Part(g, at[g])
  <2>1. wire' = Append(wire, p)
    BY <1>6 DEF Write
  <2>2. p.part = at[g]
    BY DEF Part
  <2> HIDE DEF p
  <2>3. /\ Len(wire') = Len(wire) + 1 /\ wire' # <<>>
        /\ \A i \in 1 .. Len(wire) : wire'[i] = wire[i]
        /\ wire'[Len(wire) + 1] = p
    <3>1. p \in WirePart
      BY <1>2 DEF p
    <3>2. /\ Len(wire') = Len(wire) + 1
          /\ \A i \in 1 .. Len(wire) : wire'[i] = wire[i]
          /\ wire'[Len(wire) + 1] = p
      BY <1>2, <2>1, <3>1, OneOn
    <3>3. Len(wire') # 0 /\ Len(<<>>) = 0
      BY <1>2, <3>2
    <3> QED
      BY <3>2, <3>3
  <2>4. CASE at[g] = "head"
    <3>1. wire # <<>> => wire[Len(wire)].part = "body"
      <4>1. ASSUME wire # <<>> PROVE wire[Len(wire)].part # "head"
        BY <1>3, <1>6, <2>4, <4>1 DEF WireInv, WireEnd
      <4>2. ASSUME wire # <<>> PROVE wire[Len(wire)] \in WirePart
        BY <1>2, <4>2
      <4> QED
        BY <4>1, <4>2, PartKinds
    <3>2. at'[g] = "body" /\ taken' = taken
      BY <1>4, <2>4 DEF Write
    <3>3. Part(g, "head")' = p
      BY <2>4, <3>2 DEF Part, p
    <3>4. WireEnd'
      BY <1>2, <1>3, <1>6, <2>3, <3>2, <3>3 DEF WireEnd
    <3>5. \A i \in 1 .. Len(wire) : wire'[i].part # wire'[i + 1].part
      BY <1>2, <2>2, <2>3, <2>4, <3>1 DEF WireInv, Aligned
    <3>6. socket \in {"connecting", "open"} => wire'[1].part = "head"
      <4>1. CASE wire = <<>>
        BY <2>2, <2>3, <2>4, <4>1
      <4>2. CASE wire # <<>>
        BY <1>2, <2>3, <4>2 DEF WireInv, Aligned
      <4> QED
        BY <4>1, <4>2
    <3>7. FramesWhole'
      BY <1>2, <2>2, <2>3, <2>4, <3>1 DEF WireInv, FramesWhole
    <3>8. Aligned'
      BY <1>2, <1>6, <2>3, <3>5, <3>6 DEF Aligned
    <3> QED
      BY <3>4, <3>7, <3>8 DEF WireInv
  <2>5. CASE at[g] = "body"
    <3>1. \A h \in Goroutines : at'[h] # "body"
      BY <1>3, <1>4, <2>5
    <3>2. WireEnd'
      BY <1>2, <1>6, <2>2, <2>3, <2>5, <3>1 DEF WireEnd
    <3>3. wire # <<>> =>
             /\ wire[Len(wire)].part = "head"
             /\ p = [wire[Len(wire)] EXCEPT !.part = "body"]
      <4>1. wire # <<>> => wire[Len(wire)] = Part(g, "head")
        BY <1>6, <2>5 DEF WireInv, WireEnd
      <4>2. Part(g, "head").part = "head" /\ p = [Part(g, "head") EXCEPT !.part = "body"]
        BY <2>5 DEF Part, p
      <4> QED
        BY <4>1, <4>2
    <3>4. \A i \in 1 .. Len(wire) : wire'[i].part # wire'[i + 1].part
      BY <1>2, <2>2, <2>3, <2>5, <3>3 DEF WireInv, Aligned
    <3>5. socket \in {"connecting", "open"} => wire'[1].part = "head"
      <4>1. CASE wire = <<>>
        BY <1>6, <2>5, <4>1 DEF WireInv, Aligned
      <4>2. CASE wire # <<>>
        BY <1>2, <2>3, <4>2 DEF WireInv, Aligned
      <4> QED
        BY <4>1, <4>2
    <3>6. FramesWhole'
      BY <1>2, <2>2, <2>3, <2>5, <3>3 DEF WireInv, FramesWhole
    <3>7. Aligned'
      BY <1>2, <1>6, <2>3, <3>4, <3>5 DEF Aligned
    <3> QED
      BY <3>2, <3>6, <3>7 DEF WireInv
  <2> QED
    BY <1>2, <2>4, <2>5
<1> QED
  BY <1>5, <1>6
\* The page takes a whole frame off the front: the next one begins there.
LEMMA MessageWire ==
    ASSUME FeedTypeOK, WireInv, Message, OneWrites'
    PROVE  WireInv'
<1>1. /\ wire \in Seq(WirePart) /\ Len(wire) \in Nat /\ Len(wire) >= 2
      /\ wire' = Tail(Tail(wire)) /\ socket = "open"
      /\ UNCHANGED <<conn, at, taken, socket>>
  BY FeedTypeParts DEF Message, WireType, server
<1>2. /\ Len(wire') = Len(wire) - 2
      /\ \A i \in 1 .. Len(wire) - 2 : wire'[i] = wire[i + 2]
      /\ wire' \in Seq(WirePart)
  BY <1>1, TwoOff
<1>3. wire # <<>> /\ (wire' # <<>> <=> Len(wire) > 2)
  <2>1. ASSUME NEW s \in Seq(WirePart) PROVE s # <<>> <=> Len(s) # 0
    OBVIOUS
  <2>2. (wire # <<>> <=> Len(wire) # 0) /\ (wire' # <<>> <=> Len(wire') # 0)
    BY <1>1, <1>2, <2>1, Zenon
  <2> DEFINE l == Len(wire)
             k == Len(wire')
  <2>3. l \in Nat /\ l >= 2 /\ k = l - 2
    BY <1>1, <1>2
  <2>4. (wire # <<>> <=> l # 0) /\ (wire' # <<>> <=> k # 0)
    BY <2>2
  <2> HIDE DEF l, k
  <2>5. l # 0 /\ (k # 0 <=> l > 2)
    BY <2>3
  <2> QED
    BY <2>4, <2>5, Zenon DEF l
<1>4. \A i \in 1 .. Len(wire) - 1 : wire[i].part # wire[i + 1].part
  BY DEF WireInv, Aligned
<1>5. wire[1].part = "head"
  BY <1>1, <1>3 DEF WireInv, Aligned
<1>6. wire[2].part = "body"
  BY <1>1, <1>4, <1>5, PartKinds
<1>7. Len(wire) > 2 => wire'[1].part = "head"
  <2> SUFFICES ASSUME Len(wire) > 2 PROVE wire'[1].part = "head"
    OBVIOUS
  <2>1. wire[2].part # wire[2 + 1].part
    BY <1>1, <1>4
  <2>2. wire'[1] = wire[3] /\ wire[3] \in WirePart
    BY <1>1, <1>2
  <2> QED
    BY <1>6, <2>1, <2>2, PartKinds
<1>8. WireEnd'
  <2>1. wire' # <<>> => wire'[Len(wire')] = wire[Len(wire)]
    BY <1>1, <1>2, <1>3
  <2>2. UNCHANGED <<Part("pusher", "head"), Part("reader", "head")>>
    BY <1>1 DEF Part
  <2>3. conn # "dialled" /\ conn # "lost"
    BY <1>3 DEF WireInv, WireEnd
  <2> QED
    BY <1>1, <1>3, <2>1, <2>2, <2>3, Basics DEF WireInv, WireEnd
<1>9. Aligned'
  <2>1. \A i \in 1 .. Len(wire') - 1 : wire'[i].part # wire'[i + 1].part
    BY <1>1, <1>2, <1>4
  <2>2. conn = "open" /\ wire' = <<>> => \A g \in Goroutines : at[g] # "body"
    <3>1. wire' = <<>> => wire[Len(wire)].part # "head"
      <4>1. wire' = <<>> => Len(wire) = 2
        <5>1. wire' = <<>> => ~(Len(wire) > 2)
          BY <1>3, Zenon
        <5>2. \A k \in Nat : k >= 2 /\ ~(k > 2) => k = 2
          OBVIOUS
        <5> QED
          BY <1>1, <5>1, <5>2, Zenon
      <4> QED
        BY <1>6, <4>1, Zenon
    <3>2. \A g \in Goroutines : Part(g, "head").part = "head"
      BY DEF Part
    <3> QED
      BY <1>3, <3>1, <3>2 DEF WireInv, WireEnd
  <2>3. conn # "lost"
    BY <1>1 DEF WireInv, Aligned
  <2> QED
    BY <1>1, <1>3, <1>7, <2>1, <2>2, <2>3 DEF Aligned
<1>10. FramesWhole'
  <2> SUFFICES ASSUME NEW i \in 1 .. Len(wire') - 1, wire'[i].part = "head"
               PROVE  wire'[i + 1] = [wire'[i] EXCEPT !.part = "body"]
    BY DEF FramesWhole
  <2>1. i \in 1 .. Len(wire) - 2 /\ i + 1 \in 1 .. Len(wire) - 2 /\ i + 2 \in 1 .. Len(wire) - 1
    BY <1>1, <1>2
  <2>2. wire'[i] = wire[i + 2] /\ wire'[i + 1] = wire[(i + 2) + 1]
    BY <1>2, <2>1
  <2> QED
    BY <2>1, <2>2 DEF WireInv, FramesWhole
<1> QED
  BY <1>8, <1>9, <1>10 DEF WireInv

\* A page that is closing its socket drops them part by part.
LEMMA DropWire ==
    ASSUME FeedTypeOK, WireInv, Drop, OneWrites'
    PROVE  WireInv'
<1>1. /\ wire \in Seq(WirePart) /\ Len(wire) \in Nat /\ wire # <<>>
      /\ wire' = Tail(wire) /\ socket = "closing"
      /\ UNCHANGED <<conn, at, taken, socket>>
  BY FeedTypeParts DEF Drop, WireType, server, page
<1>2. /\ Len(wire') = Len(wire) - 1
      /\ \A i \in 1 .. Len(wire) - 1 : wire'[i] = wire[i + 1]
      /\ wire' \in Seq(WirePart)
  BY <1>1, OneOff
<1>3. WireEnd'
  <2>1. wire' # <<>> => wire'[Len(wire')] = wire[Len(wire)]
    BY <1>1, <1>2
  <2>2. UNCHANGED <<Part("pusher", "head"), Part("reader", "head")>>
    BY <1>1 DEF Part
  <2>3. conn # "dialled" /\ conn # "lost"
    BY <1>1 DEF WireInv, WireEnd
  <2> QED
    BY <1>1, <2>1, <2>2, <2>3, Basics DEF WireInv, WireEnd
<1>4. Aligned'
  <2>1. \A i \in 1 .. Len(wire') - 1 : wire'[i].part # wire'[i + 1].part
    BY <1>1, <1>2 DEF WireInv, Aligned
  <2>2. conn # "lost"
    BY <1>1 DEF WireInv, Aligned
  <2> QED
    BY <1>1, <2>1, <2>2 DEF Aligned
<1>5. FramesWhole'
  BY <1>1, <1>2 DEF WireInv, FramesWhole
<1> QED
  BY <1>3, <1>4, <1>5 DEF WireInv

\* The steps that leave the wire as it is, and those that cut it off.
LEMMA QuietWire ==
    ASSUME FeedTypeOK, WireInv, OneWrites',
           \/ Upgrade \/ PushDue \/ SeeEnded \/ ReadPing \/ ReadEnds
           \/ \E g \in Goroutines : TakeLock(g) \/ WriteFails(g)
    PROVE  WireInv'
<1> USE Basics DEF ServerTypes, Part
<1>0. ServerTypes
  BY FeedTypeParts
<1>1. UNCHANGED <<wire, socket>>
  BY DEF Upgrade, PushDue, SeeEnded, ReadPing, ReadEnds, TakeLock, WriteFails, page
<1>2. CASE Upgrade
  BY <1>1, <1>2 DEF Upgrade, WireInv, WireEnd, Aligned, FramesWhole
<1>3. CASE PushDue
  BY <1>0, <1>1, <1>3 DEF PushDue, WireInv, WireEnd, Aligned, FramesWhole
<1>4. CASE SeeEnded
  BY <1>0, <1>1, <1>4 DEF SeeEnded, WireInv, WireEnd, Aligned, FramesWhole
<1>5. CASE ReadPing \/ ReadEnds
  BY <1>0, <1>1, <1>5 DEF ReadPing, ReadEnds, WireInv, WireEnd, Aligned, FramesWhole
<1>6. ASSUME NEW g \in Goroutines, TakeLock(g) PROVE WireInv'
  BY <1>0, <1>1, <1>6 DEF TakeLock, Writing, WireInv, WireEnd, Aligned, FramesWhole
<1>7. ASSUME NEW g \in Goroutines, WriteFails(g) PROVE WireInv'
  BY <1>0, <1>1, <1>7 DEF WriteFails, Writing, WireInv, WireEnd, Aligned, FramesWhole
<1> QED
  BY <1>2, <1>3, <1>4, <1>5, <1>6, <1>7

LEMMA WireStep == FeedTypeOK /\ WireInv /\ [FeedNext]_feed => WireInv'
<1> SUFFICES ASSUME FeedTypeOK, WireInv, [FeedNext]_feed PROVE WireInv'
  OBVIOUS
<1>1. CASE UNCHANGED <<wire, conn, at, taken, socket>>
  BY <1>1 DEF WireInv, OneWrites, Writing, WireEnd, Aligned, FramesWhole, Part
<1>2. CASE FeedNext
  <2>1. OneWrites'
    BY <1>2, OneWritesStep DEF WireInv
  <2>2. CASE \E g \in Goroutines : Write(g)
    BY <2>1, <2>2, WriteWire
  <2>3. CASE Message \/ Drop
    BY <2>1, <2>3, MessageWire, DropWire
  <2>4. CASE \/ Upgrade \/ PushDue \/ SeeEnded \/ ReadPing \/ ReadEnds
             \/ \E g \in Goroutines : TakeLock(g) \/ WriteFails(g)
    BY <2>1, <2>4, QuietWire
  <2>5. CASE Closed \/ Lose
    <3>1. wire' = <<>> /\ socket' = "closed" /\ conn' \in {"closed", "lost"} /\ Len(<<>>) = 0
      BY <2>5 DEF Closed, Lose, server
    <3> QED
      BY <2>1, <3>1 DEF WireInv, WireEnd, Aligned, FramesWhole
  <2>6. CASE Opened \/ Close
    <3>1. UNCHANGED <<wire, conn, at, taken>>
      BY <2>6 DEF Opened, Close, server
    <3>2. socket \in {"connecting", "open"} /\ conn # "lost"
      BY <2>6 DEF Opened, Close, WireInv, Aligned
    <3> QED
      BY <2>1, <3>1, <3>2 DEF WireInv, WireEnd, Aligned, FramesWhole, Part
  <2>7. CASE Ping \/ Refresh \/ Change
    BY <1>1, <2>7 DEF Ping, Refresh, Change, server, page
  <2>8. CASE \E n \in Requests : Serve(n) \/ Answered(n) \/ Failed(n)
    BY <1>1, <2>8 DEF Serve, Answered, Failed, Handled, server
  <2> QED
    BY <1>2, <2>2, <2>3, <2>4, <2>5, <2>6, <2>7, <2>8, FeedCases
<1>3. CASE UNCHANGED feed
  BY <1>1, <1>3 DEF feed, server, page
<1> QED
  BY <1>2, <1>3

LEMMA WireHolds == FeedSpec => [](FeedTypeOK /\ WireInv)
<1>1. FeedInit => WireInv
  <2>1. Len(<<>>) = 0
    OBVIOUS
  <2> QED
    BY <2>1 DEF FeedInit, WireInv, OneWrites, Writing, WireEnd, Aligned, FramesWhole
<1> QED
  BY <1>1, FeedTypeCorrect, WireStep, PTL DEF FeedSpec

\* The two goroutines of handleEvents share one connection, and what is on it
\* is whole frames all the same: a body follows the head it belongs to.
THEOREM WireIsWhole == FeedSpec => []FramesWhole
<1>1. WireInv => FramesWhole
  BY DEF WireInv
<1> QED
  BY <1>1, WireHolds, PTL

\* As long as the page listens, what is at the front of the wire is a frame
\* from its beginning: onmessage never gets the rest of one.
THEOREM MessagesAreWhole == FeedSpec => []MessageIsWhole
<1>1. FeedTypeOK /\ WireInv => MessageIsWhole
  <2> SUFFICES ASSUME FeedTypeOK, WireInv, socket = "open", Len(wire) >= 2
               PROVE  wire[1].part = "head" /\ wire[2] = [wire[1] EXCEPT !.part = "body"]
    BY DEF MessageIsWhole
  <2>1. wire \in Seq(WirePart) /\ Len(wire) \in Nat /\ wire # <<>>
    BY FeedTypeParts DEF WireType
  <2>2. wire[1].part = "head"
    BY <2>1 DEF WireInv, Aligned
  <2>3. 1 \in 1 .. Len(wire) - 1
    BY <2>1
  <2>4. wire[1].part = "head" => wire[1 + 1] = [wire[1] EXCEPT !.part = "body"]
    BY <2>3 DEF WireInv, FramesWhole
  <2> QED
    BY <2>2, <2>4
<1> QED
  BY <1>1, WireHolds, PTL
-----------------------------------------------------------------------------
\* The page is loading for as long as its last request is under way.
LoadingIsAsked == loading <=> request[nonce] \in {"asked", "answered"}

\* Whatever answers the last request was read after refresh() was called.
AnswerIsFresh ==
    /\ asOf <= list
    /\ request[nonce] = "answered" => answer[nonce] >= asOf

RefreshInv == LoadingIsAsked /\ AnswerIsFresh /\ RefreshIsFresh

LEMMA RefreshStep == FeedTypeOK /\ RefreshInv /\ [FeedNext]_feed => RefreshInv'
<1> SUFFICES ASSUME ServerTypes, PageTypes, WireType, RefreshInv, [FeedNext]_feed
             PROVE  RefreshInv'
  BY FeedTypeParts
<1>0. list \in Nat /\ asOf \in Nat /\ tasks \in Nat /\ \A n \in Requests : answer[n] \in Nat
  BY Basics DEF ServerTypes, PageTypes
<1> USE DEF RefreshInv, LoadingIsAsked, AnswerIsFresh, RefreshIsFresh
<1>1. CASE Refresh
  <2>1. nonce' \in Requests
    BY <1>1, BoundsAssumption DEF Refresh, PageTypes, Requests
  <2>2. request'[nonce'] = "asked"
    BY <1>1, <2>1 DEF Refresh, PageTypes
  <2> QED
    BY <1>0, <1>1, <2>2 DEF Refresh, server
<1>2. ASSUME NEW n \in Requests, Serve(n) PROVE RefreshInv'
  <2>1. UNCHANGED <<list, tasks, loading, error, nonce, asOf, pushed>>
    BY <1>2 DEF Serve, server
  <2>2. request'[n] = "answered" /\ answer'[n] = list /\ request[n] = "asked"
    BY <1>2 DEF Serve, PageTypes
  <2>3. \A k \in Requests \ {n} : request'[k] = request[k] /\ answer'[k] = answer[k]
    BY <1>2 DEF Serve, PageTypes
  <2>4. nonce \in Requests
    BY DEF PageTypes
  <2> QED
    BY <1>0, <2>1, <2>2, <2>3, <2>4
<1>3. ASSUME NEW n \in Requests, Answered(n) \/ Failed(n) PROVE RefreshInv'
  <2>1. UNCHANGED <<list, nonce, asOf, pushed>>
    BY <1>3 DEF Answered, Failed, Handled, server
  <2>2. request'[n] = "done"
    BY <1>3 DEF Answered, Failed, Handled, PageTypes
  <2>3. \A k \in Requests \ {n} : request'[k] = request[k] /\ answer'[k] = answer[k]
    BY <1>3 DEF Answered, Failed, Handled, PageTypes
  <2>4. nonce \in Requests
    BY DEF PageTypes
  <2>5. CASE n = nonce
    BY <1>3, <2>1, <2>2, <2>5 DEF Answered, Failed
  <2>6. CASE n # nonce
    <3>1. UNCHANGED <<tasks, error, loading>>
      BY <1>3, <2>6 DEF Answered, Failed
    <3> QED
      BY <2>1, <2>3, <2>4, <2>6, <3>1
  <2> QED
    BY <2>5, <2>6
<1>4. CASE Message
  <2>1. UNCHANGED <<list, loading, error, nonce, request, answer, asOf>>
    BY <1>4 DEF Message, server
  <2>2. pushed' = TRUE \/ UNCHANGED <<tasks, pushed>>
    BY <1>4 DEF Message
  <2> QED
    BY <2>1, <2>2
<1>5. CASE Change
  <2>1. list' = list + 1 /\ UNCHANGED page
    BY <1>5 DEF Change
  <2> QED
    BY <1>0, <2>1 DEF page
<1>6. CASE UNCHANGED <<list, tasks, loading, error, nonce, request, answer, asOf, pushed>>
  BY <1>6
<1>7. CASE \E g \in Goroutines : TakeLock(g) \/ Write(g) \/ WriteFails(g)
  BY <1>6, <1>7 DEF TakeLock, Write, WriteFails, page
<1>8. CASE \/ Upgrade \/ PushDue \/ SeeEnded \/ ReadPing \/ ReadEnds \/ Drop \/ Ping
           \/ Opened \/ Close \/ Closed \/ Lose \/ UNCHANGED feed
  BY <1>6, <1>8
  DEF Upgrade, PushDue, SeeEnded, ReadPing, ReadEnds, Drop, Ping, Opened, Close, Closed,
      Lose, server, page, feed
<1> QED
  BY <1>1, <1>2, <1>3, <1>4, <1>5, <1>7, <1>8, FeedCases

LEMMA RefreshHolds == FeedSpec => []RefreshInv
<1>1. FeedInit => RefreshInv
  BY Basics
  DEF FeedInit, RefreshInv, LoadingIsAsked, AnswerIsFresh, RefreshIsFresh
<1> QED
  BY <1>1, FeedTypeCorrect, RefreshStep, PTL DEF FeedSpec

\* refresh() after a change shows the change: useTasks drops the answer to a
\* request that a later one has cancelled, in whatever order they arrive.
THEOREM ShowsTheRefresh == FeedSpec => []RefreshIsFresh
<1>1. RefreshInv => RefreshIsFresh
  BY DEF RefreshInv
<1> QED
  BY <1>1, RefreshHolds, PTL

\* The answer to a cancelled request never ends the loading of the one that
\* took its place, and the answer that counts always does.
THEOREM LoadingWhileAsked == FeedSpec => []LoadingIsAsked
<1>1. RefreshInv => LoadingIsAsked
  BY DEF RefreshInv
<1> QED
  BY <1>1, RefreshHolds, PTL

-----------------------------------------------------------------------------
\* Of the two goroutines of handleEvents the one that returns tells the other,
\* through the channel or by closing the connection, which never outlives the
\* pusher.
OtherIsTold ==
    /\ at["reader"] = "off" /\ at["pusher"] # "off" => ended
    /\ at["pusher"] = "off" /\ at["reader"] # "off" => conn = "closed"
    /\ conn \in {"open", "lost"} => at["pusher"] # "off"

LEMMA ToldStep == FeedTypeOK /\ OtherIsTold /\ [FeedNext]_feed => OtherIsTold'
<1> SUFFICES ASSUME ServerTypes, OtherIsTold, [FeedNext]_feed PROVE OtherIsTold'
  BY FeedTypeParts
<1> USE Basics DEF OtherIsTold, ServerTypes
<1>1. CASE Upgrade \/ PushDue \/ SeeEnded \/ ReadPing \/ ReadEnds
  BY <1>1 DEF Upgrade, PushDue, SeeEnded, ReadPing, ReadEnds
<1>2. ASSUME NEW g \in Goroutines, TakeLock(g) PROVE OtherIsTold'
  BY <1>2 DEF TakeLock
<1>3. ASSUME NEW g \in Goroutines, Write(g) PROVE OtherIsTold'
  BY <1>3 DEF Write, Writing
<1>4. ASSUME NEW g \in Goroutines, WriteFails(g) PROVE OtherIsTold'
  BY <1>4 DEF WriteFails, Writing
<1>5. CASE Lose
  BY <1>5 DEF Lose
<1>6. CASE UNCHANGED <<conn, at, ended>>
  BY <1>6
<1>7. CASE \E n \in Requests : Serve(n) \/ Answered(n) \/ Failed(n)
  BY <1>6, <1>7 DEF Serve, Answered, Failed, Handled, server
<1>8. CASE \/ Opened \/ Message \/ Close \/ Drop \/ Closed \/ Ping \/ Refresh \/ Change
           \/ UNCHANGED feed
  BY <1>6, <1>8
  DEF Opened, Message, Close, Drop, Closed, Ping, Refresh, Change, server, feed
<1> QED
  BY <1>1, <1>2, <1>3, <1>4, <1>5, <1>7, <1>8, FeedCases

\* Neither goroutine of handleEvents is left behind without being told.
THEOREM GoroutinesAreTold == FeedSpec => []OtherIsTold
<1>1. FeedInit => OtherIsTold
  BY Basics DEF FeedInit, OtherIsTold
<1> QED
  BY <1>1, FeedTypeCorrect, ToldStep, PTL DEF FeedSpec

-----------------------------------------------------------------------------
\* The list of the i-th part on the wire, if it is one of a pushed frame.
Pushes(i) == i \in 1 .. Len(wire) /\ wire[i].frame = "list"

\* Pushed lists are on their way in the order in which they were read, none is
\* newer than the server's, and the one that waits for the lock, or is being
\* written, is as new as any of them.
PushedInOrder ==
    /\ \A i, j \in 1 .. Len(wire) : i <= j /\ Pushes(i) /\ Pushes(j) => wire[i].list <= wire[j].list
    /\ \A i \in 1 .. Len(wire) : Pushes(i) => wire[i].list <= list
    /\ at["pusher"] \in {"lock", "head", "body"} =>
          /\ taken <= list
          /\ \A i \in 1 .. Len(wire) : Pushes(i) => wire[i].list <= taken

\* Taking parts off the front leaves the rest in order.
LEMMA OrderOfRest ==
    ASSUME FeedTypeOK, PushedInOrder, NEW k \in {1, 2}, Len(wire) >= k,
           Len(wire') = Len(wire) - k,
           \A i \in 1 .. Len(wire) - k : wire'[i] = wire[i + k],
           UNCHANGED <<at, taken, list>>
    PROVE  PushedInOrder'
<1>0. Len(wire) \in Nat
  BY FeedTypeParts DEF WireType
<1>1. \A i \in 1 .. Len(wire') : i + k \in 1 .. Len(wire) /\ wire'[i] = wire[i + k]
  BY <1>0
<1>2. \A i \in 1 .. Len(wire') : Pushes(i)' => Pushes(i + k)
  BY <1>1 DEF Pushes
<1>3. \A i, j \in 1 .. Len(wire') :
        i <= j /\ Pushes(i)' /\ Pushes(j)' => wire'[i].list <= wire'[j].list
  <2> SUFFICES ASSUME NEW i \in 1 .. Len(wire'), NEW j \in 1 .. Len(wire'), i <= j,
                      Pushes(i)', Pushes(j)'
               PROVE  wire[i + k].list <= wire[j + k].list
    BY <1>1
  <2>1. i + k <= j + k
    OBVIOUS
  <2> QED
    BY <1>1, <1>2, <2>1 DEF PushedInOrder
<1> QED
  BY <1>1, <1>2, <1>3 DEF PushedInOrder

\* The next part goes to the end, and no list there is newer.
LEMMA OrderOfWrite ==
    ASSUME FeedTypeOK, PushedInOrder, NEW g \in Goroutines, Write(g)
    PROVE  PushedInOrder'
<1>0. /\ wire \in Seq(WirePart) /\ Len(wire) \in Nat /\ ServerTypes
      /\ Part(g, at[g]) \in WirePart /\ list' = list /\ list \in Nat /\ taken \in Nat
  BY FeedTypeParts, PartType, Basics DEF WireType, Write, Writing, ServerTypes
<1>1. at'["pusher"] \in {"lock", "head", "body"} =>
        at["pusher"] \in {"lock", "head", "body"} /\ taken' = taken
  BY <1>0, Basics DEF Write, Writing, ServerTypes
<1>2. CASE wire' = wire
  BY <1>0, <1>1, <1>2 DEF PushedInOrder, Pushes
<1>3. CASE wire' = Append(wire, Part(g, at[g]))
  <2> DEFINE p == Part(g, at[g])
             n == Len(wire) + 1
  <2>1. /\ Len(wire') = n
        /\ \A i \in 1 .. Len(wire) : wire'[i] = wire[i]
        /\ wire'[n] = p
    BY <1>0, <1>3, OneOn
  <2>2. p.frame = "list" => g = "pusher" /\ p.list = taken
    BY DEF Part, FrameOf, Goroutines
  <2> HIDE DEF p
  <2>3. \A i \in 1 .. Len(wire) : Pushes(i)' <=> Pushes(i)
    BY <1>0, <2>1 DEF Pushes
  <2>4. ASSUME NEW i \in 1 .. Len(wire'), i = n, Pushes(i)'
        PROVE  g = "pusher" /\ wire'[i].list = taken
    BY <2>1, <2>2, <2>4 DEF Pushes
  <2>5. g = "pusher" => at["pusher"] \in {"lock", "head", "body"}
    BY DEF Write, Writing
  <2>6. ASSUME NEW i \in 1 .. Len(wire'), i = n, Pushes(i)'
        PROVE  /\ taken <= list
               /\ \A k \in 1 .. Len(wire) : Pushes(k) => wire[k].list <= taken
    BY <2>4, <2>5, <2>6 DEF PushedInOrder
  <2>7. \A i \in 1 .. Len(wire') : i \in 1 .. Len(wire) \/ i = n
    BY <1>0, <2>1
  <2>8. \A i \in 1 .. Len(wire') : Pushes(i)' => wire'[i].list <= list
    <3> SUFFICES ASSUME NEW i \in 1 .. Len(wire'), Pushes(i)' PROVE wire'[i].list <= list
      OBVIOUS
    <3>1. CASE i \in 1 .. Len(wire)
      BY <2>1, <2>3, <3>1 DEF PushedInOrder
    <3>2. CASE i = n
      BY <2>4, <2>6, <3>2
    <3> QED
      BY <2>7, <3>1, <3>2
  <2>9. \A i, j \in 1 .. Len(wire') :
          i <= j /\ Pushes(i)' /\ Pushes(j)' => wire'[i].list <= wire'[j].list
    <3> SUFFICES ASSUME NEW i \in 1 .. Len(wire'), NEW j \in 1 .. Len(wire'), i <= j,
                        Pushes(i)', Pushes(j)'
                 PROVE  wire'[i].list <= wire'[j].list
      OBVIOUS
    <3>1. CASE j \in 1 .. Len(wire)
      <4>1. i \in 1 .. Len(wire)
        BY <1>0, <3>1
      <4> QED
        BY <2>1, <2>3, <3>1, <4>1 DEF PushedInOrder
    <3>2. CASE j = n /\ i \in 1 .. Len(wire)
      BY <2>1, <2>3, <2>4, <2>6, <3>2
    <3>3. CASE j = n /\ i = n
      BY <1>0, <2>4, <3>3
    <3> QED
      BY <2>7, <3>1, <3>2, <3>3
  <2>10. at'["pusher"] \in {"lock", "head", "body"} =>
           \A i \in 1 .. Len(wire') : Pushes(i)' => wire'[i].list <= taken'
    <3> SUFFICES ASSUME at'["pusher"] \in {"lock", "head", "body"},
                        NEW i \in 1 .. Len(wire'), Pushes(i)'
                 PROVE  wire'[i].list <= taken
      BY <1>1
    <3>1. CASE i \in 1 .. Len(wire)
      BY <1>1, <2>1, <2>3, <3>1 DEF PushedInOrder
    <3>2. CASE i = n
      BY <1>0, <2>4, <3>2
    <3> QED
      BY <2>7, <3>1, <3>2
  <2>11. at'["pusher"] \in {"lock", "head", "body"} => taken' <= list'
    BY <1>0, <1>1 DEF PushedInOrder
  <2> QED
    BY <1>0, <2>8, <2>9, <2>10, <2>11 DEF PushedInOrder
<1> QED
  BY <1>2, <1>3 DEF Write

LEMMA OrderStep == FeedTypeOK /\ PushedInOrder /\ [FeedNext]_feed => PushedInOrder'
<1> SUFFICES ASSUME FeedTypeOK, PushedInOrder, [FeedNext]_feed PROVE PushedInOrder'
  OBVIOUS
<1>0. /\ ServerTypes /\ list \in Nat /\ Len(wire) \in Nat /\ wire \in Seq(WirePart)
      /\ \A i \in 1 .. Len(wire) : wire[i].list \in Nat
  <2>1. ServerTypes /\ wire \in Seq(WirePart) /\ Len(wire) \in Nat
    BY FeedTypeParts DEF WireType
  <2>2. list \in Nat
    BY <2>1, Basics DEF ServerTypes
  <2>3. \A i \in 1 .. Len(wire) : wire[i] \in WirePart
    BY <2>1
  <2>4. \A p \in WirePart : p.list \in Nat
    BY Basics DEF WirePart
  <2> QED
    BY <2>1, <2>2, <2>3, <2>4
<1>1. CASE UNCHANGED <<wire, at, taken, list>>
  BY <1>1 DEF PushedInOrder, Pushes
<1>2. CASE wire' = wire /\ list' = list /\ taken' = taken
           /\ (at'["pusher"] \in {"lock", "head", "body"} => at["pusher"] \in {"lock", "head", "body"})
  BY <1>2 DEF PushedInOrder, Pushes
<1>3. CASE PushDue
  BY <1>0, <1>3 DEF PushDue, PushedInOrder, Pushes
<1>4. CASE Change
  BY <1>0, <1>4, Basics DEF Change, PushedInOrder, Pushes, ServerTypes
<1>5. CASE Message
  <2>1. wire' = Tail(Tail(wire)) /\ Len(wire) >= 2 /\ UNCHANGED server
    BY <1>5 DEF Message
  <2>2. Len(wire') = Len(wire) - 2 /\ \A i \in 1 .. Len(wire) - 2 : wire'[i] = wire[i + 2]
    BY <1>0, <2>1, TwoOff
  <2> QED
    BY <2>1, <2>2, OrderOfRest DEF server
<1>6. CASE Drop
  <2>1. wire' = Tail(wire) /\ wire # <<>> /\ UNCHANGED server
    BY <1>6 DEF Drop
  <2>2. Len(wire') = Len(wire) - 1 /\ \A i \in 1 .. Len(wire) - 1 : wire'[i] = wire[i + 1]
    BY <1>0, <2>1, OneOff
  <2>3. Len(wire) >= 1
    BY <1>0, <2>1
  <2> QED
    BY <2>1, <2>2, <2>3, OrderOfRest DEF server
<1>7. CASE Closed \/ Lose
  <2>1. Len(wire') = 0 /\ UNCHANGED <<list, taken, at>>
    BY <1>7 DEF Closed, Lose, server
  <2> QED
    BY <2>1 DEF PushedInOrder
<1>8. CASE Upgrade \/ SeeEnded \/ ReadPing \/ ReadEnds
  BY <1>0, <1>2, <1>8, Basics DEF Upgrade, SeeEnded, ReadPing, ReadEnds, ServerTypes
<1>9. ASSUME NEW g \in Goroutines, TakeLock(g) \/ WriteFails(g) PROVE PushedInOrder'
  BY <1>0, <1>2, <1>9, Basics DEF TakeLock, WriteFails, ServerTypes
<1>10. CASE Opened \/ Close \/ Ping \/ Refresh \/ UNCHANGED feed
  BY <1>1, <1>10 DEF Opened, Close, Ping, Refresh, server, feed
<1>11. CASE \E n \in Requests : Serve(n) \/ Answered(n) \/ Failed(n)
  BY <1>1, <1>11 DEF Serve, Answered, Failed, Handled, server
<1> QED
  BY <1>3, <1>4, <1>5, <1>6, <1>7, <1>8, <1>9, <1>10, <1>11, OrderOfWrite, FeedCases

\* A message never replaces a pushed list by an older one, though the list is
\* read before the lock is taken (websocket.go:88-92): one goroutine does both.
\* It is what PageCatchesUp needs of the order of pushes.
THEOREM PushesInOrder == FeedSpec => []PushedInOrder
<1>1. FeedInit => PushedInOrder
  <2>1. Len(<<>>) = 0
    OBVIOUS
  <2> QED
    BY <2>1 DEF FeedInit, PushedInOrder
<1> QED
  BY <1>1, FeedTypeCorrect, OrderStep, PTL DEF FeedSpec
=============================================================================
