----------------------------- MODULE AddDialog -----------------------------
(***************************************************************************)
(* The dialog that adds downloads, AddTaskModal, and the handlers of the   *)
(* server it posts to, one request after another.  What was entered stays  *)
(* until a submission has added something, which clears everything; the    *)
(* button is locked meanwhile, the fields are not.  A request may be lost  *)
(* on its way, or carried out though its answer never arrives.  What       *)
(* Enqueue and Resume do to the other tasks is in Scheduler.               *)
(***************************************************************************)
EXTENDS Naturals, FiniteSets

CONSTANTS
    Items,        \* what a user may enter: lines, a .torrent file, Booth's input
    Kind,         \* the kind of each
    MaxEntered,   \* bound: how often a user enters the same item
    MaxPresses    \* bound: how often the button is pressed

ASSUME ItemsAssumption == Items # {}
ASSUME KindAssumption == Kind \in [Items -> {"link", "magnet", "file", "booth"}]

VARIABLES
    open,      \* whether the dialog is open
    entered,   \* how often each item has been entered
    box,       \* the items in the dialog's fields
    phase,     \* how far the submission is; "stuck" is one that has thrown
    left,      \* what it has still to send
    added,     \* whether one of its requests has succeeded
    post,      \* the request under way
    late,      \* requests the page has given up and the server may carry out
    tasks,     \* the tasks each item has been made into
    troubled,  \* history: items whose request failed when there was a task, or
               \* when the page could not know
    presses    \* history: how often the button has been pressed

page == <<open, entered, box>>
submission == <<phase, left, added>>
server == <<late, tasks>>
history == <<troubled, presses>>
vars == <<page, submission, post, server, history>>

Engines == {"http", "mega", "ytdlp", "torrent", "booth"}

TypeOK ==
    /\ open \in BOOLEAN /\ box \subseteq Items /\ left \subseteq Items
    /\ entered \in [Items -> Nat]
    /\ phase \in {"idle", "reading", "sending", "waiting", "stuck"}
    /\ added \in BOOLEAN
    /\ post \in [item : Items, engine : Engines, at : {"none", "sent", "enqueued", "created", "failed"}]
    /\ late \in [Items -> Nat] /\ tasks \in [Items -> Nat]
    /\ troubled \subseteq Items /\ presses \in Nat

Init ==
    /\ open = FALSE /\ box = {} /\ left = {}
    /\ entered = [i \in Items |-> 0]
    /\ phase = "idle" /\ added = FALSE
    /\ post = [item |-> CHOOSE i \in Items : TRUE, engine |-> "http", at |-> "none"]
    /\ late = [i \in Items |-> 0] /\ tasks = [i \in Items |-> 0]
    /\ troubled = {} /\ presses = 0

-----------------------------------------------------------------------------
(* What the user does, at any time.                                        *)

Show(shown) == open' = shown /\ UNCHANGED <<entered, box, submission, post, server, history>>
Open == ~open /\ Show(TRUE)
Close == open /\ Show(FALSE)

Enter(i) ==
    /\ open /\ i \notin box /\ entered[i] < MaxEntered
    /\ box' = box \union {i}
    /\ entered' = [entered EXCEPT ![i] = @ + 1]
    /\ UNCHANGED <<open, submission, post, server, history>>

Erase(i) ==
    /\ open /\ i \in box
    /\ box' = box \ {i}
    /\ UNCHANGED <<open, entered, submission, post, server, history>>

Press(what, next) ==
    /\ open /\ phase = "idle" /\ what # {} /\ presses < MaxPresses
    /\ phase' = next
    /\ left' = what
    /\ added' = FALSE
    /\ presses' = presses + 1
    /\ UNCHANGED <<page, post, server, troubled>>

\* handleSubmit, which begins with the cookies file if one is chosen ...
Submit ==
    \E next \in {"reading", "sending"} : Press({i \in box : Kind[i] # "booth"}, next)

\* ... and handleBoothSubmit, behind the same button.
BoothSubmit == Press({i \in box : Kind[i] = "booth"}, "sending")

-----------------------------------------------------------------------------
(* The submission.                                                         *)

\* A link's host decides, or the user, who may prefer yt-dlp.
EnginesOf(i) ==
    CASE Kind[i] = "link" -> {"http", "mega", "ytdlp"}
      [] Kind[i] = "booth" -> {"booth"}
      [] OTHER -> {"torrent"}

CookiesRead ==
    /\ phase = "reading"
    /\ phase' = "sending"
    /\ UNCHANGED <<page, left, added, post, server, history>>

\* fileToBase64 rejects, of the cookies or of the .torrent file: nothing
\* catches it, and the button stays locked.
Unreadable ==
    /\ phase = "reading" \/ (phase = "sending" /\ left # {} /\ \A i \in left : Kind[i] = "file")
    /\ phase' = "stuck"
    /\ UNCHANGED <<page, left, added, post, server, history>>

\* The lines first, in whatever order they were entered, then the file.
Send(i) ==
    /\ phase = "sending" /\ i \in left
    /\ Kind[i] = "file" => \A j \in left : Kind[j] = "file"
    /\ phase' = "waiting"
    /\ left' = left \ {i}
    /\ \E engine \in EnginesOf(i) : post' = [item |-> i, engine |-> engine, at |-> "sent"]
    /\ UNCHANGED <<page, added, server, history>>

\* submitOne goes on with the next whether its request has succeeded or not.
Go(ok) ==
    /\ phase = "waiting"
    /\ phase' = "sending"
    /\ added' = (added \/ ok)
    /\ post' = [post EXCEPT !.at = "none"]
    /\ UNCHANGED <<page, left, tasks, presses>>

\* Fault for SubmitEnds: an error ends the loop.
AnsweredUncaught == post.at = "created" /\ Go(TRUE) /\ UNCHANGED <<late, troubled>>

Answered == post.at \in {"created", "failed"} /\ Go(post.at = "created") /\ UNCHANGED <<late, troubled>>

\* The connection fails: the server may not have heard of the request, may
\* have yet to carry it out, or may have done so.
Lost ==
    /\ Go(FALSE)
    /\ late' = IF post.at = "sent" THEN [late EXCEPT ![post.item] = @ + 1] ELSE late
    /\ troubled' = troubled \union {post.item}

Finishes(done) ==
    /\ phase = "sending" /\ left = {}
    /\ phase' = "idle"
    /\ IF done THEN box' = {} /\ open' = FALSE ELSE UNCHANGED <<box, open>>
    /\ UNCHANGED <<entered, left, added, post, server, history>>

\* Fault for AddedOnce: what was entered is kept unless all of it was added.
FinishIfAll == Finishes(added /\ \A i \in box : tasks[i] > 0)

\* If anything was added, all fields are cleared and the dialog closes.
Finish == Finishes(added)

-----------------------------------------------------------------------------
(* The handlers.                                                           *)

Moves(to) == post' = [post EXCEPT !.at = to]

\* Everything an answer may say before there is a task.
Refuse ==
    /\ post.at = "sent" /\ Moves("failed")
    /\ UNCHANGED <<tasks, troubled>>

Enqueue ==
    /\ post.at = "sent" /\ Moves("enqueued")
    /\ tasks' = [tasks EXCEPT ![post.item] = @ + 1]
    /\ UNCHANGED troubled

Created ==
    /\ post.at = "enqueued" /\ Moves("created")
    /\ UNCHANGED <<tasks, troubled>>

\* The handler's own Resume fails: the answer is an error, and the task stays.
ResumeFails ==
    /\ post.at = "enqueued" /\ Moves("failed")
    /\ troubled' = troubled \union {post.item}
    /\ UNCHANGED tasks

Handle(engine, steps) ==
    /\ post.engine = engine /\ steps
    /\ UNCHANGED <<page, submission, late, presses>>

HandleAddTask == Handle("http", Refuse \/ Enqueue \/ Created)
AddMegaTask == Handle("mega", Enqueue \/ Created)
HandleAddYtdlp == Handle("ytdlp", Refuse \/ Enqueue \/ Created)
HandleAddTorrent == Handle("torrent", Refuse \/ Enqueue \/ ResumeFails \/ Created)
HandleAddBooth == Handle("booth", Refuse \/ Enqueue \/ Created)

\* A request the page has given up is carried out after all.
CarriedOut(i) ==
    /\ late[i] > 0
    /\ late' = [late EXCEPT ![i] = @ - 1]
    /\ tasks' = [tasks EXCEPT ![i] = @ + 1]
    /\ UNCHANGED <<page, submission, post, history>>

-----------------------------------------------------------------------------
Server == HandleAddTask \/ AddMegaTask \/ HandleAddYtdlp \/ HandleAddTorrent \/ HandleAddBooth
Page == CookiesRead \/ Unreadable \/ (\E i \in Items : Send(i)) \/ Answered \/ Finish

Next ==
    \/ Open \/ Close \/ Submit \/ BoothSubmit \/ Page \/ Lost \/ Server
    \/ \E i \in Items : Enter(i) \/ Erase(i) \/ CarriedOut(i)

Spec == Init /\ [][Next]_vars

\* The browser runs the page, and a handler answers: the locks it waits for
\* are released (Engines' StopReturns and its like).
FairSpec == Spec /\ WF_vars(Page) /\ WF_vars(Server)

-----------------------------------------------------------------------------
\* Whether the request under way is for i, and has made it a task.
UnderWay(i) == phase = "waiting" /\ post.item = i
Made(i) == UnderWay(i) /\ post.at \in {"enqueued", "created"}

\* The inductive invariant: an item that may yet be sent has been entered once
\* more than it was added.  It may yet be sent if it is in the fields, unless
\* they will be cleared; if the submission has still to send it; or if its
\* request is under way and has not made it a task.
Unsent(i) ==
    \/ i \in box /\ (phase = "idle" \/ ~added) /\ ~Made(i)
    \/ i \in left
    \/ UnderWay(i) /\ ~Made(i)

EntryInv ==
    /\ TypeOK
    /\ post.at # "none" <=> phase = "waiting"
    /\ phase = "idle" => left = {}
    /\ \A i \in Items : UnderWay(i) => i \notin left
    /\ \A i \in Items \ troubled :
          /\ late[i] = 0
          /\ tasks[i] <= entered[i]
          /\ Unsent(i) => tasks[i] < entered[i]

\* What was entered once is added once, however often the button is pressed
\* and whatever is typed meanwhile: a line that was added cannot be sent again,
\* though others of its submission failed.  Only an item whose answer was lost,
\* or was an error in spite of its task, may be added twice.
AddedOnce == \A i \in Items \ troubled : tasks[i] <= entered[i]

\* A submission ends, however its requests fare; the exception is a file that
\* cannot be read.
SubmitEnds == phase # "idle" ~> phase \in {"idle", "stuck"}
=============================================================================
