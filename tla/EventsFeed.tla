----------------------------- MODULE EventsFeed -----------------------------
(***************************************************************************)
(* The live task list: handleEvents on the server, whose two goroutines    *)
(* share one WebSocket connection, and useTasks in the page, which shows   *)
(* whatever came last, a pushed list or the answer to its own request.     *)
(*                                                                         *)
(* A list is known by the number of changes made to it before it was read. *)
(* What has been written of the frames, wherever it is on its way from the *)
(* bufio.Writer to the page, is the wire; the window bounds it, and a      *)
(* write blocks when it is full.                                           *)
(***************************************************************************)
EXTENDS Naturals, Sequences

CONSTANTS
    MaxChanges,    \* bound: how often the task list changes
    MaxRequests,   \* bound: how often the page asks for it
    Window         \* how many parts of frames the connection takes up

ASSUME BoundsAssumption ==
    MaxChanges \in Nat /\ MaxRequests \in Nat \ {0} /\ Window \in Nat \ {0}

VARIABLES
    list,       \* Scheduler.Records: how many changes it has seen
    conn,       \* the TCP connection: dialled, open, lost (the other side is gone),
                \* or closed: a write has failed, or the server has closed it
    at,         \* where each of the two goroutines of handleEvents is
    taken,      \* the list the ticker's goroutine is about to push
    ended,      \* the channel `closed' is closed
    wire,       \* parts of frames to the page
    inbox,      \* frames to the server
    socket,     \* ws.readyState, as the page's handlers have seen it
    tasks,      \* the list the page shows
    loading,    \* useTasks.loading
    error,      \* useTasks.error is set
    nonce,      \* refreshNonce: the number of the last request
    request,    \* what has become of each request
    answer,     \* the list each was answered with
    asOf,       \* history: the list at the last call of refresh
    pushed      \* history: a pushed list was shown since

server == <<list, conn, at, taken, ended>>
page == <<socket, tasks, loading, error, nonce, request, answer, asOf, pushed>>
feed == <<server, wire, inbox, page>>

Goroutines == {"pusher", "reader"}
Versions == 0 .. MaxChanges
Requests == 1 .. MaxRequests
FrameOf == [pusher |-> "list", reader |-> "pong"]

\* Nothing more can be read from the connection.
Unreadable == conn \in {"lost", "closed"}

\* writeFrameSafe: waiting for writeMu, or writing one part or the other.
Writing(g) == at[g] \in {"head", "body"}

Part(g, part) ==
    [frame |-> FrameOf[g], part |-> part, list |-> IF g = "pusher" THEN taken ELSE 0]

FeedTypeOK ==
    /\ list \in Versions
    /\ conn \in {"dialled", "open", "lost", "closed"}
    /\ at \in [Goroutines -> {"off", "idle", "lock", "head", "body"}]
    /\ taken \in Versions
    /\ ended \in BOOLEAN
    /\ Len(wire) <= Window
    /\ wire \in Seq([frame : {"list", "pong"}, part : {"head", "body"}, list : Versions])
    /\ Len(inbox) <= 2 /\ inbox \in Seq({"ping", "close"})
    /\ socket \in {"connecting", "open", "closing", "closed"}
    /\ tasks \in Versions
    /\ loading \in BOOLEAN /\ error \in BOOLEAN
    /\ nonce \in Requests
    /\ request \in [Requests -> {"none", "asked", "answered", "done"}]
    /\ answer \in [Requests -> Versions]
    /\ asOf \in Versions
    /\ pushed \in BOOLEAN

\* The page is there: it has asked for the list and for the connection.
FeedInit ==
    /\ list = 0
    /\ conn = "dialled"
    /\ at = [g \in Goroutines |-> "off"]
    /\ taken = 0
    /\ ended = FALSE
    /\ wire = <<>> /\ inbox = <<>>
    /\ socket = "connecting"
    /\ tasks = 0
    /\ loading = TRUE /\ error = FALSE
    /\ nonce = 1
    /\ request = [n \in Requests |-> IF n = 1 THEN "asked" ELSE "none"]
    /\ answer = [n \in Requests |-> 0]
    /\ asOf = 0
    /\ pushed = FALSE

-----------------------------------------------------------------------------
(* handleEvents.                                                           *)

\* The handshake is written and the second goroutine started, or the handler
\* returns and closes the connection.
Upgrade ==
    /\ conn = "dialled"
    /\ \/ conn' = "open" /\ at' = [g \in Goroutines |-> "idle"]
       \/ conn' = "closed" /\ UNCHANGED at
    /\ UNCHANGED <<list, taken, ended, wire, inbox, page>>

\* The ticker's case of the select; the list is read before the lock is taken.
PushDue ==
    /\ at["pusher"] = "idle"
    /\ at' = [at EXCEPT !["pusher"] = "lock"]
    /\ taken' = list
    /\ UNCHANGED <<list, conn, ended, wire, inbox, page>>

\* The other case: return, and close the connection.
SeeEnded ==
    /\ at["pusher"] = "idle" /\ ended
    /\ at' = [at EXCEPT !["pusher"] = "off"]
    /\ conn' = "closed"
    /\ UNCHANGED <<list, taken, ended, wire, inbox, page>>

ReadPing ==
    /\ at["reader"] = "idle"
    /\ inbox # <<>> /\ Head(inbox) = "ping"
    /\ inbox' = Tail(inbox)
    /\ at' = [at EXCEPT !["reader"] = "lock"]
    /\ UNCHANGED <<list, conn, taken, ended, wire, page>>

\* Fault for HandlerReturns: the channel is not closed.
ReadEndsUnsaid ==
    /\ at["reader"] = "idle"
    /\ Unreadable \/ (inbox # <<>> /\ Head(inbox) = "close")
    /\ at' = [at EXCEPT !["reader"] = "off"]
    /\ UNCHANGED <<list, conn, taken, ended, wire, inbox, page>>

\* A close frame, or nothing more to read.
ReadEnds ==
    /\ at["reader"] = "idle"
    /\ Unreadable \/ (inbox # <<>> /\ Head(inbox) = "close")
    /\ at' = [at EXCEPT !["reader"] = "off"]
    /\ ended' = TRUE
    /\ UNCHANGED <<list, conn, taken, wire, inbox, page>>

\* Fault for FramesWhole: there is no lock.
LockNothing(g) ==
    /\ at[g] = "lock"
    /\ at' = [at EXCEPT ![g] = "head"]
    /\ UNCHANGED <<list, conn, taken, ended, wire, inbox, page>>

TakeLock(g) ==
    /\ at[g] = "lock" /\ \A h \in Goroutines : ~Writing(h)
    /\ at' = [at EXCEPT ![g] = "head"]
    /\ UNCHANGED <<list, conn, taken, ended, wire, inbox, page>>

\* Opcode and length, then the payload.  A write to a connection that is lost
\* may still succeed for a while, to no effect.
Write(g) ==
    /\ Writing(g) /\ conn # "closed" /\ Len(wire) < Window
    /\ wire' = IF conn = "lost" THEN wire ELSE Append(wire, Part(g, at[g]))
    /\ at' = [at EXCEPT ![g] = IF @ = "head" THEN "body" ELSE "idle"]
    /\ taken' = IF at[g] = "body" /\ g = "pusher" THEN 0 ELSE taken
    /\ UNCHANGED <<list, conn, ended, inbox, page>>

\* The goroutine returns, which ends the other one: it closes the connection
\* or the channel.  The bufio.Writer keeps the error for every later write.
WriteFails(g) ==
    /\ Writing(g) /\ Unreadable
    /\ at' = [at EXCEPT ![g] = "off"]
    /\ conn' = "closed"
    /\ ended' = (ended \/ g = "reader")
    /\ UNCHANGED <<list, taken, wire, inbox, page>>

-----------------------------------------------------------------------------
(* useTasks: the connection.                                               *)

Opened ==
    /\ socket = "connecting" /\ conn = "open"
    /\ socket' = "open"
    /\ UNCHANGED <<server, wire, inbox, tasks, loading, error, nonce, request, answer, asOf, pushed>>

\* Fault for PageCatchesUp: the page listens for one message only.
MessageOnce ==
    /\ socket = "open"
    /\ Len(wire) >= 2
    /\ wire' = Tail(Tail(wire))
    /\ IF Head(wire).frame = "list" /\ ~pushed
       THEN tasks' = Head(wire).list /\ pushed' = TRUE
       ELSE UNCHANGED <<tasks, pushed>>
    /\ UNCHANGED <<server, inbox, socket, loading, error, nonce, request, answer, asOf>>

\* A whole frame has arrived; a pushed list replaces what is shown.
Message ==
    /\ socket = "open"
    /\ Len(wire) >= 2
    /\ wire' = Tail(Tail(wire))
    /\ IF Head(wire).frame = "list"
       THEN tasks' = Head(wire).list /\ pushed' = TRUE
       ELSE UNCHANGED <<tasks, pushed>>
    /\ UNCHANGED <<server, inbox, socket, loading, error, nonce, request, answer, asOf>>

\* ws.close() when the page goes: frames that still arrive are dropped until
\* the server closes the connection.
Close ==
    /\ socket = "open"
    /\ socket' = "closing"
    /\ inbox' = Append(inbox, "close")
    /\ UNCHANGED <<server, wire, tasks, loading, error, nonce, request, answer, asOf, pushed>>

Drop ==
    /\ socket = "closing"
    /\ wire # <<>>
    /\ wire' = Tail(wire)
    /\ UNCHANGED <<server, inbox, page>>

\* onclose, or onerror.  Nothing connects again.
Closed ==
    /\ socket # "closed" /\ conn = "closed"
    /\ socket' = "closed"
    /\ wire' = <<>> /\ inbox' = <<>>
    /\ UNCHANGED <<server, tasks, loading, error, nonce, request, answer, asOf, pushed>>

Ping ==
    /\ socket = "open" /\ inbox = <<>>
    /\ inbox' = <<"ping">>
    /\ UNCHANGED <<server, wire, page>>

-----------------------------------------------------------------------------
(* useTasks: the requests.                                                 *)

\* refresh(), from when its effect runs: the request before it, if it is still
\* under way, is cancelled.
Refresh ==
    /\ nonce < MaxRequests
    /\ nonce' = nonce + 1
    /\ request' = [request EXCEPT ![nonce'] = "asked"]
    /\ loading' = TRUE
    /\ asOf' = list
    /\ pushed' = FALSE
    /\ UNCHANGED <<server, wire, inbox, socket, tasks, error, answer>>

\* handleListTasks.
Serve(n) ==
    /\ request[n] = "asked"
    /\ request' = [request EXCEPT ![n] = "answered"]
    /\ answer' = [answer EXCEPT ![n] = list]
    /\ UNCHANGED <<server, wire, inbox, socket, tasks, loading, error, nonce, asOf, pushed>>

Handled(n) ==
    /\ request' = [request EXCEPT ![n] = "done"]
    /\ answer' = [answer EXCEPT ![n] = 0]
    /\ UNCHANGED <<server, wire, inbox, socket, nonce, asOf, pushed>>

\* Fault for RefreshIsFresh: the answer to a cancelled request is shown.
AnsweredThoughCancelled(n) ==
    /\ request[n] = "answered"
    /\ tasks' = answer[n] /\ error' = FALSE /\ loading' = FALSE
    /\ Handled(n)

\* The answers may come in another order than the requests were made, and
\* only the last request's counts.
Answered(n) ==
    /\ request[n] = "answered"
    /\ IF n = nonce
       THEN tasks' = answer[n] /\ error' = FALSE /\ loading' = FALSE
       ELSE UNCHANGED <<tasks, error, loading>>
    /\ Handled(n)

\* No answer: the page goes on showing what it has.
Failed(n) ==
    /\ request[n] \in {"asked", "answered"}
    /\ IF n = nonce
       THEN error' = TRUE /\ loading' = FALSE
       ELSE UNCHANGED <<error, loading>>
    /\ UNCHANGED tasks
    /\ Handled(n)

-----------------------------------------------------------------------------
(* The surroundings.                                                       *)

Change ==
    /\ list < MaxChanges
    /\ list' = list + 1
    /\ UNCHANGED <<conn, at, taken, ended, wire, inbox, page>>

\* The network breaks, or the page is killed; the server has yet to notice.
Lose ==
    /\ conn = "open"
    /\ conn' = "lost"
    /\ socket' = "closed"
    /\ wire' = <<>> /\ inbox' = <<>>
    /\ UNCHANGED <<list, at, taken, ended, tasks, loading, error, nonce, request,
                   answer, asOf, pushed>>

\* One step of each goroutine, the lock and the choice to return apart.
WriteStep(g) == Write(g) \/ WriteFails(g)
Push == Upgrade \/ PushDue \/ WriteStep("pusher")
Read == ReadPing \/ ReadEnds \/ WriteStep("reader")

\* The page's handlers of its socket, and of its requests.
SocketEvent == Opened \/ Message \/ Drop \/ Closed
RequestEvent == \E n \in Requests : Serve(n) \/ Answered(n) \/ Failed(n)

FeedNext ==
    \/ Push \/ Read \/ SeeEnded \/ \E g \in Goroutines : TakeLock(g)
    \/ SocketEvent \/ RequestEvent
    \/ Close \/ Ping \/ Refresh
    \/ Change \/ Lose

FeedSpec == FeedInit /\ [][FeedNext]_feed

(***************************************************************************)
(* The ticker ticks, a goroutine that can go on does, sync.Mutex starves   *)
(* nobody, and a select chooses among its ready cases at random: one that  *)
(* is ready again and again is taken.  The page handles what arrives, and  *)
(* a request is answered or fails.  The rest need not happen.              *)
(***************************************************************************)
Fairness ==
    /\ WF_feed(Push) /\ WF_feed(Read) /\ SF_feed(SeeEnded)
    /\ \A g \in Goroutines : SF_feed(TakeLock(g))
    /\ WF_feed(SocketEvent) /\ WF_feed(RequestEvent)

FairFeed == FeedSpec /\ Fairness

-----------------------------------------------------------------------------
\* The two goroutines write to one connection: what is on the wire is whole
\* frames, and at most the first part of one at its end.
FramesWhole ==
    \A i \in 1 .. Len(wire) - 1 :
        wire[i].part = "head" => wire[i + 1] = [wire[i] EXCEPT !.part = "body"]

\* The comment on useTasks (useTasks.ts:13-15): while it is connected the
\* page comes to show the current list, and stays with it, whatever answers
\* to its own requests come in late.
PageCatchesUp ==
    \A v \in Versions : <>[](socket = "open" /\ list = v) => <>[](tasks = v)

\* refresh() after a change shows the change: the answer to a request made
\* before it never takes its place.  A pushed list may, until the next one.
RefreshIsFresh == ~loading /\ ~error /\ ~pushed => tasks >= asOf

\* handleEvents serves until the client disconnects (websocket.go:31): then
\* both of its goroutines end and the connection is closed.
HandlerReturns ==
    socket = "closing" \/ Unreadable ~>
        conn = "closed" /\ \A g \in Goroutines : at[g] = "off"
=============================================================================
