-------------------------- MODULE AddDialogProofs --------------------------
(***************************************************************************)
(* AddedOnce of AddDialog, for any items and any bounds.  The invariant    *)
(* has one part that matters, what Unsent implies of each item; a step is  *)
(* looked at through what it does to that part.                            *)
(***************************************************************************)
EXTENDS AddDialog, FiniteSetTheorems, TLAPS

USE DEF page, submission, server, history, vars, Engines

\* What the invariant says beside the items.
Frame ==
    /\ post.at # "none" <=> phase = "waiting"
    /\ phase = "idle" => left = {}
    /\ \A i \in Items : UnderWay(i) => i \notin left

\* What it says of an item.
Sound(i) ==
    /\ late[i] = 0
    /\ tasks[i] <= entered[i]
    /\ Unsent(i) => tasks[i] < entered[i]

LEMMA EntryParts == EntryInv <=> TypeOK /\ Frame /\ \A i \in Items \ troubled : Sound(i)
BY DEF EntryInv, Frame, Sound

LEMMA InitEntry == Init => EntryInv
<1>1. Init => TypeOK
  <2>1. (CHOOSE i \in Items : TRUE) \in Items
    BY ItemsAssumption
  <2>2. Init => post \in [item : Items, engine : Engines, at : {"none", "sent", "enqueued", "created", "failed"}]
    BY <2>1 DEF Init
  <2>3. Init => open \in BOOLEAN /\ added \in BOOLEAN
    BY DEF Init
  <2>4. Init => /\ entered \in [Items -> Nat] /\ late \in [Items -> Nat] /\ tasks \in [Items -> Nat]
                /\ presses \in Nat
    BY DEF Init
  <2>5. Init => /\ box \subseteq Items /\ left \subseteq Items /\ troubled \subseteq Items
                /\ phase \in {"idle", "reading", "sending", "waiting", "stuck"}
    BY DEF Init
  <2>. QED
    BY <2>2, <2>3, <2>4, <2>5 DEF TypeOK
<1>. QED
  BY <1>1 DEF Init, EntryInv, Unsent, UnderWay, Made

LEMMA KindEngines == \A i \in Items : EnginesOf(i) \subseteq Engines
BY DEF EnginesOf

\* Types are kept by each step.
LEMMA TypeStep == ASSUME TypeOK, Next PROVE TypeOK'
<1>. USE DEF TypeOK
<1>1. CASE Open \/ Close
  BY <1>1 DEF Open, Close, Show
<1>2. ASSUME NEW i \in Items, Enter(i) \/ Erase(i)
      PROVE  TypeOK'
  BY <1>2 DEF Enter, Erase
<1>3. CASE Submit \/ BoothSubmit
  <2>1. left' \subseteq Items /\ phase' \in {"reading", "sending"} /\ presses' \in Nat
    BY <1>3 DEF Submit, BoothSubmit, Press
  <2>2. added' \in BOOLEAN
    BY <1>3 DEF Submit, BoothSubmit, Press
  <2>3. UNCHANGED <<page, post, server, troubled>>
    BY <1>3 DEF Submit, BoothSubmit, Press
  <2>. QED
    BY <2>1, <2>2, <2>3
<1>4. CASE CookiesRead \/ Unreadable
  BY <1>4 DEF CookiesRead, Unreadable
<1>5. ASSUME NEW i \in Items, Send(i)
      PROVE  TypeOK'
  <2>1. PICK engine \in EnginesOf(i) : post' = [item |-> i, engine |-> engine, at |-> "sent"]
    BY <1>5 DEF Send
  <2>2. engine \in Engines
    BY <2>1, KindEngines
  <2>. QED
    BY <1>5, <2>1, <2>2 DEF Send
<1>6. CASE Answered
  BY <1>6 DEF Answered, Go
<1>7. CASE Lost
  BY <1>7 DEF Lost, Go
<1>8. CASE Finish
  BY <1>8 DEF Finish, Finishes
<1>9. CASE Server
  BY <1>9 DEF Server, HandleAddTask, AddMegaTask, HandleAddYtdlp, HandleAddTorrent, HandleAddBooth,
              Handle, Refuse, Enqueue, Created, ResumeFails, Moves
<1>10. ASSUME NEW i \in Items, CarriedOut(i), late[i] \in Nat, tasks[i] \in Nat
       PROVE  TypeOK'
  BY <1>10 DEF CarriedOut
<1>. QED
  BY <1>1, <1>2, <1>3, <1>4, <1>5, <1>6, <1>7, <1>8, <1>9, <1>10 DEF Next, Page

\* A handler only moves the request under way.
LEMMA ServerMoves ==
    ASSUME Server
    PROVE  /\ Refuse \/ Enqueue \/ Created \/ ResumeFails
           /\ UNCHANGED <<page, submission, late, presses>>
BY DEF Server, HandleAddTask, AddMegaTask, HandleAddYtdlp, HandleAddTorrent, HandleAddBooth, Handle

LEMMA FrameStep == ASSUME TypeOK, Frame, Next PROVE Frame'
<1>. USE DEF Frame, UnderWay, TypeOK
<1>1. CASE Open \/ Close
  BY <1>1 DEF Open, Close, Show
<1>2. ASSUME NEW i \in Items, Enter(i) \/ Erase(i)
      PROVE  Frame'
  BY <1>2 DEF Enter, Erase
<1>3. CASE Submit \/ BoothSubmit
  BY <1>3 DEF Submit, BoothSubmit, Press
<1>4. CASE CookiesRead \/ Unreadable
  BY <1>4 DEF CookiesRead, Unreadable
<1>5. ASSUME NEW i \in Items, Send(i)
      PROVE  Frame'
  BY <1>5 DEF Send
<1>6. CASE Answered
  BY <1>6 DEF Answered, Go
<1>7. CASE Lost
  BY <1>7 DEF Lost, Go
<1>8. CASE Finish
  BY <1>8 DEF Finish, Finishes
<1>9. CASE Server
  <2>1. (Refuse \/ Enqueue \/ Created \/ ResumeFails) /\ UNCHANGED <<phase, left>>
    BY <1>9, ServerMoves
  <2>2. post.at # "none" /\ post'.at # "none" /\ post'.item = post.item
    BY <2>1 DEF Refuse, Enqueue, Created, ResumeFails, Moves
  <2>. QED
    BY <2>1, <2>2
<1>10. ASSUME NEW i \in Items, CarriedOut(i)
       PROVE  Frame'
  BY <1>10 DEF CarriedOut
<1>. QED
  BY <1>1, <1>2, <1>3, <1>4, <1>5, <1>6, <1>7, <1>8, <1>9, <1>10 DEF Next, Page

\* An item is disturbed by a step of its own only.
LEMMA SoundStep ==
    ASSUME TypeOK, Frame, Next, NEW i \in Items, i \notin troubled', i \notin troubled => Sound(i)
    PROVE  Sound(i)'
<1>. USE DEF Sound, Unsent, UnderWay, Made
<1>0. Sound(i) /\ tasks[i] \in Nat /\ entered[i] \in Nat
  <2>1. i \notin troubled
    BY ServerMoves DEF Next, Page, Open, Close, Show, Enter, Erase, Submit, BoothSubmit, Press, CookiesRead,
          Unreadable, Send, Answered, Lost, Go, Finish, Finishes, CarriedOut, Refuse, Enqueue, Created, ResumeFails
  <2>. QED
    BY <2>1 DEF TypeOK
<1>1. CASE Open \/ Close
  BY <1>0, <1>1 DEF Open, Close, Show
<1>2. ASSUME NEW j \in Items, Enter(j)
      PROVE  Sound(i)'
  <2>1. entered'[i] = (IF i = j THEN entered[i] + 1 ELSE entered[i]) /\ UNCHANGED tasks
    BY <1>2 DEF Enter, TypeOK
  <2>2. CASE i = j
    BY <1>0, <1>2, <2>1, <2>2 DEF Enter
  <2>3. CASE i # j
    BY <1>0, <1>2, <2>1, <2>3 DEF Enter
  <2>. QED
    BY <2>2, <2>3
<1>3. ASSUME NEW j \in Items, Erase(j)
      PROVE  Sound(i)'
  BY <1>0, <1>3 DEF Erase
<1>4. CASE Submit \/ BoothSubmit
  <2>1. left' \subseteq box /\ phase = "idle" /\ phase' \notin {"idle", "waiting"}
    BY <1>4 DEF Submit, BoothSubmit, Press
  <2>2. UNCHANGED <<box, post, tasks, entered, late>>
    BY <1>4 DEF Submit, BoothSubmit, Press
  <2>. QED
    BY <1>0, <2>1, <2>2
<1>5. CASE CookiesRead \/ Unreadable
  BY <1>0, <1>5 DEF CookiesRead, Unreadable
<1>6. ASSUME NEW j \in Items, Send(j)
      PROVE  Sound(i)'
  <2>1. /\ phase = "sending" /\ j \in left /\ left' = left \ {j} /\ phase' = "waiting"
        /\ post'.item = j /\ UNCHANGED <<box, added, tasks, entered, late>>
    BY <1>6 DEF Send
  <2>. QED
    BY <1>0, <2>1
<1>7. CASE Answered
  <2>1. /\ phase = "waiting" /\ phase' = "sending" /\ post.at \in {"created", "failed"}
        /\ added' = (added \/ post.at = "created")
        /\ UNCHANGED <<box, left, tasks, entered, late>>
    BY <1>7 DEF Answered, Go
  <2>. QED
    BY <1>0, <2>1
<1>8. CASE Lost
  <2>1. /\ phase = "waiting" /\ phase' = "sending" /\ i # post.item
        /\ added' = added /\ UNCHANGED <<box, left, tasks, entered>>
    BY <1>8 DEF Lost, Go, TypeOK
  <2>2. late'[i] = late[i]
    BY <1>8, <2>1 DEF Lost, TypeOK
  <2>. QED
    BY <1>0, <2>1, <2>2
<1>9. CASE Finish
  <2>1. /\ phase = "sending" /\ phase' = "idle" /\ left = {}
        /\ IF added THEN box' = {} ELSE UNCHANGED box
        /\ UNCHANGED <<left, tasks, entered, late>>
    BY <1>9 DEF Finish, Finishes
  <2>. QED
    BY <1>0, <2>1
<1>10. CASE Server
  <2>1. /\ Refuse \/ Enqueue \/ Created \/ ResumeFails
        /\ UNCHANGED <<box, entered, phase, left, added, late>>
    BY <1>10, ServerMoves
  <2>2. phase = "waiting" /\ post.item \in Items /\ (UnderWay(i) => i \notin left)
    BY <2>1 DEF Refuse, Enqueue, Created, ResumeFails, Frame, TypeOK
  <2>3. CASE Refuse
    BY <1>0, <2>1, <2>2, <2>3 DEF Refuse, Moves, TypeOK
  <2>4. CASE Enqueue
    <3>1. /\ post.at = "sent" /\ post'.at = "enqueued" /\ post'.item = post.item
          /\ tasks'[i] = IF i = post.item THEN tasks[i] + 1 ELSE tasks[i]
      BY <2>4 DEF Enqueue, Moves, TypeOK
    <3>. QED
      BY <1>0, <2>1, <2>2, <3>1
  <2>5. CASE Created
    BY <1>0, <2>1, <2>2, <2>5 DEF Created, Moves, TypeOK
  <2>6. CASE ResumeFails
    BY <1>0, <2>1, <2>2, <2>6 DEF ResumeFails, Moves, TypeOK
  <2>. QED
    BY <2>1, <2>3, <2>4, <2>5, <2>6
<1>11. ASSUME NEW j \in Items, CarriedOut(j)
       PROVE  Sound(i)'
  <2>1. j # i
    BY <1>0, <1>11 DEF CarriedOut
  <2>2. late'[i] = late[i] /\ tasks'[i] = tasks[i] /\ UNCHANGED <<box, entered, phase, left, added, post>>
    BY <1>11, <2>1 DEF CarriedOut, TypeOK
  <2>. QED
    BY <1>0, <2>2
<1>. QED
  BY <1>1, <1>2, <1>3, <1>4, <1>5, <1>6, <1>7, <1>8, <1>9, <1>10, <1>11 DEF Next, Page

-----------------------------------------------------------------------------
\* An item that may yet be sent has been entered once more than it was added.
THEOREM EntriesHold == Spec => []EntryInv
<1>1. ASSUME EntryInv, [Next]_vars
      PROVE  EntryInv'
  <2>1. CASE Next
    <3>1. TypeOK' /\ Frame'
      BY <1>1, <2>1, EntryParts, TypeStep, FrameStep
    <3>2. \A i \in Items \ troubled' : Sound(i)'
      BY <1>1, <2>1, EntryParts, SoundStep
    <3>. QED
      BY <3>1, <3>2 DEF EntryInv, Frame, Sound
  <2>2. CASE UNCHANGED vars
    BY <1>1, <2>2 DEF EntryInv, TypeOK, Unsent, UnderWay, Made
  <2>. QED
    BY <1>1, <2>1, <2>2
<1>. QED
  BY <1>1, InitEntry, PTL DEF Spec

\* However the button, the fields, the server and the network interleave, an
\* item becomes no more tasks than it was entered, unless it is troubled.
THEOREM OnceEach == Spec => []AddedOnce
<1>1. EntryInv => AddedOnce
  BY DEF EntryInv, AddedOnce
<1>. QED
  BY <1>1, EntriesHold, PTL

-----------------------------------------------------------------------------
(* How a submission comes to its end.                                      *)

\* What the page sends is finite, whatever may be entered.
FiniteEntries == IsFiniteSet(box) /\ IsFiniteSet(left)

\* How many steps the request under way is from being answered and heard.
AnswerAhead ==
    CASE post.at = "sent" -> 3 [] post.at = "enqueued" -> 2
      [] post.at \in {"created", "failed"} -> 1 [] OTHER -> 0

\* How many a submission is from its end: four for each item that it has still to
\* send, as Send leaves a request that is three from its answer, and Finish.
SubmissionLeft ==
    4 * Cardinality(left)
    + (CASE phase = "reading" -> 2 [] phase = "waiting" -> 1 + AnswerAhead [] OTHER -> 1)

Submitting == phase \in {"reading", "sending", "waiting"}

\* Every step of the page or of a handler, and every loss of a request, brings a
\* submission (AddTaskModal.tsx:94-125) nearer its end, and what the user does or
\* the server carries out late leaves it where it is.
SubmissionWindsDown ==
    [][Submitting /\ Submitting' =>
          /\ SubmissionLeft' <= SubmissionLeft
          /\ Page \/ Lost \/ Server => SubmissionLeft' < SubmissionLeft]_vars

LEMMA FiniteStep == ASSUME FiniteEntries, Next PROVE FiniteEntries'
<1>. USE DEF FiniteEntries
<1>1. ASSUME NEW i \in Items, Enter(i) PROVE FiniteEntries'
  BY <1>1, FS_AddElement DEF Enter
<1>2. ASSUME NEW i \in Items, Erase(i) PROVE FiniteEntries'
  BY <1>2, FS_RemoveElement DEF Erase
<1>3. CASE Submit \/ BoothSubmit
  <2>1. left' \in SUBSET box /\ UNCHANGED box
    BY <1>3 DEF Submit, BoothSubmit, Press
  <2>. QED
    BY <2>1, FS_Subset
<1>4. ASSUME NEW i \in Items, Send(i) PROVE FiniteEntries'
  BY <1>4, FS_RemoveElement DEF Send
<1>5. CASE Finish
  BY <1>5, FS_EmptySet DEF Finish, Finishes
<1>6. CASE UNCHANGED <<box, left>>
  BY <1>6
<1>7. CASE Open \/ Close \/ CookiesRead \/ Unreadable \/ Answered \/ Lost
  BY <1>6, <1>7 DEF Open, Close, Show, CookiesRead, Unreadable, Answered, Lost, Go
<1>8. CASE Server
  BY <1>6, <1>8, ServerMoves
<1>9. ASSUME NEW i \in Items, CarriedOut(i) PROVE FiniteEntries'
  BY <1>6, <1>9 DEF CarriedOut
<1>. QED
  BY <1>1, <1>2, <1>3, <1>4, <1>5, <1>7, <1>8, <1>9 DEF Next, Page

LEMMA SubmissionLeftType ==
    ASSUME FiniteEntries
    PROVE  /\ Cardinality(left) \in Nat
           /\ AnswerAhead \in 0 .. 3
           /\ SubmissionLeft \in Nat
<1>1. Cardinality(left) \in Nat
  BY FS_CardinalityType DEF FiniteEntries
<1>2. AnswerAhead \in 0 .. 3
  BY DEF AnswerAhead
<1>. QED
  BY <1>1, <1>2 DEF SubmissionLeft

LEMMA SubmissionLeftNext ==
    ASSUME FiniteEntries'
    PROVE  SubmissionLeft' \in Nat
<1>1. Cardinality(left') \in Nat
  BY FS_CardinalityType DEF FiniteEntries
<1>2. AnswerAhead' \in 0 .. 3
  BY DEF AnswerAhead
<1>. QED
  BY <1>1, <1>2 DEF SubmissionLeft

\* What the page and the server do.
LEMMA SubmissionNearer ==
    ASSUME TypeOK, Frame, FiniteEntries, Submitting, Submitting', Page \/ Lost \/ Server
    PROVE  SubmissionLeft' < SubmissionLeft
<1>0. Cardinality(left) \in Nat /\ AnswerAhead \in 0 .. 3
  BY SubmissionLeftType
<1>1. CASE CookiesRead
  <2>1. left' = left /\ phase = "reading" /\ phase' = "sending"
    BY <1>1 DEF CookiesRead
  <2>. QED
    BY <1>0, <2>1 DEF SubmissionLeft
<1>2. ASSUME NEW i \in Items, Send(i) PROVE SubmissionLeft' < SubmissionLeft
  <2>1. /\ left' = left \ {i} /\ i \in left /\ phase = "sending" /\ phase' = "waiting"
        /\ post'.at = "sent"
    BY <1>2 DEF Send
  <2>2. Cardinality(left') = Cardinality(left) - 1
    BY <2>1, FS_RemoveElement DEF FiniteEntries
  <2>3. AnswerAhead' = 3
    BY <2>1 DEF AnswerAhead
  <2>. QED
    BY <1>0, <2>1, <2>2, <2>3 DEF SubmissionLeft
<1>3. CASE Answered \/ Lost
  <2>1. left' = left /\ phase = "waiting" /\ phase' = "sending"
    BY <1>3 DEF Answered, Lost, Go
  <2>2. AnswerAhead >= 1
    BY <2>1 DEF AnswerAhead, Frame, TypeOK
  <2>. QED
    BY <1>0, <2>1, <2>2 DEF SubmissionLeft
<1>4. CASE Server
  <2>1. (Refuse \/ Enqueue \/ Created \/ ResumeFails) /\ UNCHANGED <<phase, left>>
    BY <1>4, ServerMoves
  <2>2. phase = "waiting"
    BY <2>1 DEF Refuse, Enqueue, Created, ResumeFails, Frame
  <2>3. AnswerAhead' \in 0 .. 3 /\ AnswerAhead' < AnswerAhead
    BY <2>1 DEF Refuse, Enqueue, Created, ResumeFails, Moves, TypeOK, AnswerAhead
  <2>. QED
    BY <1>0, <2>1, <2>2, <2>3 DEF SubmissionLeft
<1>5. ~Unreadable /\ ~Finish
  BY DEF Unreadable, Finish, Finishes, Submitting
<1>. QED
  BY <1>1, <1>2, <1>3, <1>4, <1>5 DEF Page

\* What else may happen.
LEMMA SubmissionKept ==
    ASSUME FiniteEntries, Submitting,
           \/ Open \/ Close \/ Submit \/ BoothSubmit \/ UNCHANGED vars
           \/ \E i \in Items : Enter(i) \/ Erase(i) \/ CarriedOut(i)
    PROVE  SubmissionLeft' <= SubmissionLeft
<1>1. ~Submit /\ ~BoothSubmit
  BY DEF Submit, BoothSubmit, Press, Submitting
<1>2. UNCHANGED <<left, phase, post>>
  BY <1>1 DEF Open, Close, Show, Enter, Erase, CarriedOut
<1>3. SubmissionLeft' = SubmissionLeft
  BY <1>2 DEF SubmissionLeft, AnswerAhead
<1>. QED
  BY <1>3, SubmissionLeftType

\* A submission ends within four steps for each of its items and two more, whether
\* its requests succeed, fail or are lost, and whatever is typed meanwhile.  With
\* the fairness of FairSpec this is what SubmitEnds needs.
THEOREM SubmissionsWindDown == Spec => [](SubmissionLeft \in Nat) /\ SubmissionWindsDown
<1>. DEFINE Winds == Submitting /\ Submitting' =>
                        /\ SubmissionLeft' <= SubmissionLeft
                        /\ Page \/ Lost \/ Server => SubmissionLeft' < SubmissionLeft
<1>1. EntryInv /\ FiniteEntries /\ [Next]_vars => [Winds]_vars
  <2>. SUFFICES ASSUME EntryInv, FiniteEntries, Next, Submitting, Submitting'
                PROVE  /\ SubmissionLeft' <= SubmissionLeft
                       /\ Page \/ Lost \/ Server => SubmissionLeft' < SubmissionLeft
    OBVIOUS
  <2>1. TypeOK /\ Frame /\ FiniteEntries'
    BY EntryParts, FiniteStep
  <2>2. SubmissionLeft \in Nat /\ SubmissionLeft' \in Nat
    BY <2>1, SubmissionLeftType, SubmissionLeftNext
  <2>3. Page \/ Lost \/ Server => SubmissionLeft' < SubmissionLeft
    BY <2>1, SubmissionNearer
  <2>4. SubmissionLeft' < SubmissionLeft => SubmissionLeft' <= SubmissionLeft
    BY <2>2
  <2>5. SubmissionLeft' <= SubmissionLeft
    BY <2>3, <2>4, SubmissionKept DEF Next
  <2>. QED
    BY <2>3, <2>5
<1>2. Init => FiniteEntries
  BY FS_EmptySet DEF Init, FiniteEntries
<1>3. FiniteEntries /\ [Next]_vars => FiniteEntries'
  BY FiniteStep DEF FiniteEntries
<1>4. FiniteEntries => SubmissionLeft \in Nat
  BY SubmissionLeftType
<1>. QED
  BY <1>1, <1>2, <1>3, <1>4, EntriesHold, PTL DEF Spec, SubmissionWindsDown
=============================================================================
