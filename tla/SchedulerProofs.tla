--------------------------- MODULE SchedulerProofs ---------------------------
(***************************************************************************)
(* Proofs about Scheduler: its typing, and that RemovedStaysStopped,       *)
(* LimitUpToStrays and NoPriorityInversion hold for any finite set of      *)
(* tasks, any priorities, any number of handlers and any limit.            *)
(* SchedulerInv is the inductive invariant they follow from.               *)
(***************************************************************************)
EXTENDS Scheduler, FiniteSetTheorems, TLAPS

-----------------------------------------------------------------------------
(* The sort order.                                                         *)

\* Before is asymmetric: sort.Slice is given a strict order.
LEMMA BeforeAsymmetric ==
    ASSUME TypeOK, NEW a \in Tasks, NEW b \in Tasks, Before(a, b)
    PROVE  ~Before(b, a)
BY TasksAssumption, PriorityAssumption DEF TypeOK, Before

\* A set of tasks is finite.
LEMMA TaskSetsFinite ==
    ASSUME NEW S \in SUBSET Tasks
    PROVE  IsFiniteSet(S) /\ Cardinality(S) \in Nat
BY TasksAssumption, FS_Subset, FS_CardinalityType

-----------------------------------------------------------------------------
(* Typing.                                                                 *)

LEMMA StampNowType ==
    ASSUME TypeOK, NEW t \in Tasks, StampNow(t)
    PROVE  addedAt' \in [Tasks -> Nat]
<1>1. PICK n \in 0 .. Cardinality(Tasks) : addedAt' = [addedAt EXCEPT ![t] = n]
  BY DEF StampNow
<1>2. n \in Nat
  BY TaskSetsFinite
<1> QED
  BY <1>1, <1>2 DEF TypeOK

LEMMA TypeInit == Init => TypeOK
BY TasksAssumption DEF Init, TypeOK, NoOp, Requests, Statuses

LEMMA TypeStep == TypeOK /\ [Next]_vars => TypeOK'
<1> SUFFICES ASSUME TypeOK, [Next]_vars PROVE TypeOK'
  OBVIOUS
<1> USE TasksAssumption DEF Statuses, Requests, NoOp
<1>1. ASSUME NEW h \in Handlers, NEW t \in Tasks, Enqueue(h, t) PROVE TypeOK'
  BY <1>1, StampNowType DEF Enqueue, TypeOK, StartRequest, StartReschedule
<1>2. ASSUME NEW h \in Handlers, NEW t \in Tasks, Pause(h, t) PROVE TypeOK'
  BY <1>2 DEF Pause, TypeOK, StartRequest, StartReschedule, PauseOutcome, Stopping
<1>3. ASSUME NEW h \in Handlers, NEW t \in Tasks, Resume(h, t) PROVE TypeOK'
  BY <1>3 DEF Resume, TypeOK, StartRequest, StartReschedule, Resumable
<1>4. ASSUME NEW h \in Handlers, NEW t \in Tasks, ResumeFails(h, t) PROVE TypeOK'
  BY <1>4 DEF ResumeFails, TypeOK
<1>5. ASSUME NEW h \in Handlers, NEW t \in Tasks, Cancel(h, t) PROVE TypeOK'
  BY <1>5 DEF Cancel, TypeOK, StartRequest, StartReschedule, Stopping
<1>6. ASSUME NEW h \in Handlers, NEW t \in Tasks, Remove(h, t) PROVE TypeOK'
  BY <1>6 DEF Remove, TypeOK, StartRequest, StartReschedule, Stopping
<1>7. ASSUME NEW h \in Handlers, NEW t \in Tasks, Filter(h, t) PROVE TypeOK'
  BY <1>7 DEF Filter, TypeOK
<1>8. ASSUME NEW h \in Handlers, NEW t \in Tasks, GiveSlot(h, t) PROVE TypeOK'
  <2>1. PICK s \in ResumeOutcomes(t, status[t]) :
          /\ status' = [status EXCEPT ![t] = s]
          /\ IF s = "error" THEN Lapse(t) ELSE UNCHANGED lapsed
    BY <1>8 DEF GiveSlot
  <2>2. s \in Statuses \cup {"none"} /\ lapsed' \in SUBSET Tasks
    BY <2>1 DEF ResumeOutcomes, Lapse, TypeOK
  <2> QED
    BY <1>8, <2>1, <2>2 DEF GiveSlot, NextInPlan, TypeOK
<1>9. ASSUME NEW h \in Handlers, NEW t \in Tasks, TakeSlot(h, t) PROVE TypeOK'
  <2>1. PauseOutcome(status[t]) \in Statuses \cup {"none"}
    BY DEF PauseOutcome, TypeOK
  <2>2. overlapped' \in SUBSET Tasks
    BY <1>9 DEF TakeSlot, Stopping, TypeOK
  <2> QED
    BY <1>9, <2>1, <2>2 DEF TakeSlot, NextInPlan, TypeOK
<1>10. ASSUME NEW h \in Handlers, Unlock(h) PROVE TypeOK'
  BY <1>10 DEF Unlock, TypeOK
<1>11. ASSUME NEW h \in Handlers, DirectResume(h) PROVE TypeOK'
  <2>1. op[h].task \in Tasks
    BY <1>11 DEF DirectResume, TypeOK
  <2>2. PICK s \in {"active", "error", status[op[h].task]} :
          /\ status' = [status EXCEPT ![op[h].task] = s]
          /\ stray' = IF s = "active" /\ status[op[h].task] # "active"
                      THEN stray \cup {op[h].task} ELSE stray
          /\ IF s = "error" THEN Lapse(op[h].task) ELSE UNCHANGED lapsed
    BY <1>11 DEF DirectResume, ResumeOutcomes, LateOutcomes
  <2>3. s \in Statuses \cup {"none"}
    BY <2>1, <2>2 DEF TypeOK
  <2>4. lapsed' \in SUBSET Tasks
    <3>1. CASE s = "error"
      BY <2>1, <2>2, <3>1 DEF Lapse, TypeOK
    <3>2. CASE s # "error"
      BY <2>2, <3>2 DEF TypeOK
    <3> QED
      BY <3>1, <3>2
  <2> QED
    BY <1>11, <2>1, <2>2, <2>3, <2>4 DEF DirectResume, TypeOK
<1>12. ASSUME NEW t \in Tasks, Finish(t) PROVE TypeOK'
  BY <1>12 DEF Finish, Lapse, TypeOK
<1>13. ASSUME UNCHANGED vars PROVE TypeOK'
  BY <1>13 DEF vars, TypeOK
<1>14. ASSUME NEW h \in Handlers, Respond(h) PROVE TypeOK'
  BY <1>14 DEF Respond, TypeOK
<1>15. ASSUME NEW t \in Tasks, TripKillSwitch(t) PROVE TypeOK'
  BY <1>15 DEF TripKillSwitch, Lapse, TypeOK
<1> QED
  BY <1>1, <1>2, <1>3, <1>4, <1>5, <1>6, <1>7, <1>8, <1>9, <1>10, <1>11,
     <1>12, <1>13, <1>14, <1>15 DEF Next, Request, Reschedule

\* Every variable keeps its type (the typing of Scheduler and its entries).
THEOREM TypeCorrect == Spec => []TypeOK
<1> QED
  BY TypeInit, TypeStep, PTL DEF Spec

-----------------------------------------------------------------------------
(* What the actions have in common.                                        *)

\* A request that goes through takes s.mu and starts a plan of all entries.
StartsPlan ==
    /\ ~Locked /\ Locked'
    /\ \A g, h \in Handlers : pc'[g] = "locked" /\ pc'[h] = "locked" => g = h
    /\ scan' = IF MaxConcurrent > 0 THEN entries' ELSE {}
    /\ queue' = {}
    /\ index' = 0

LEMMA RequestStartsPlan ==
    ASSUME TypeOK, NEW h \in Handlers, NEW t \in Tasks,
           \/ Enqueue(h, t)
           \/ Pause(h, t)
           \/ Resume(h, t)
           \/ Cancel(h, t)
           \/ Remove(h, t)
    PROVE  StartsPlan
<1>1. \E kind \in Requests : StartRequest(h, kind, t)
  BY DEF Enqueue, Pause, Resume, Cancel, Remove, Requests
<1>2. /\ ~Locked /\ Locked'
      /\ \A f, g \in Handlers : pc'[f] = "locked" /\ pc'[g] = "locked" => f = g
  BY <1>1 DEF StartRequest, Locked, TypeOK
<1>3. StartReschedule(entries')
  BY DEF Enqueue, Pause, Resume, Cancel, Remove
<1> QED
  BY <1>2, <1>3 DEF StartsPlan, StartReschedule

\* Everything but a request and the unlock keeps s.mu with whom it was.
LEMMA LockKept ==
    ASSUME TypeOK,
           \/ \E h \in Handlers, t \in Tasks :
                 \/ ResumeFails(h, t) \/ Filter(h, t)
                 \/ GiveSlot(h, t) \/ TakeSlot(h, t)
           \/ \E h \in Handlers : DirectResume(h) \/ Respond(h)
           \/ \E t \in Tasks : Finish(t) \/ TripKillSwitch(t)
           \/ UNCHANGED vars
    PROVE  \A h \in Handlers : pc'[h] = "locked" <=> pc[h] = "locked"
BY DEF TypeOK, ResumeFails, Filter, GiveSlot, TakeSlot, NextInPlan, DirectResume,
       Respond, Finish, TripKillSwitch, vars

-----------------------------------------------------------------------------
(* The lock and the plan.                                                  *)

LEMMA DisciplineStep ==
    ASSUME TypeOK, Discipline, [Next]_vars
    PROVE  Discipline'
<1>1. ASSUME StartsPlan PROVE Discipline'
  BY <1>1, MaxConcurrentAssumption DEF StartsPlan, Discipline
<1>2. ASSUME NEW h \in Handlers, NEW t \in Tasks, ResumeFails(h, t)
      PROVE  Discipline'
  BY <1>2 DEF ResumeFails, Discipline, Locked
<1>3. ASSUME NEW h \in Handlers, NEW t \in Tasks, Filter(h, t)
      PROVE  Discipline'
  BY <1>3 DEF Filter, Discipline, Locked
<1>4. ASSUME NEW h \in Handlers, NEW t \in Tasks, GiveSlot(h, t)
      PROVE  Discipline'
  BY <1>4 DEF GiveSlot, NextInPlan, Discipline, Locked
<1>5. ASSUME NEW h \in Handlers, NEW t \in Tasks, TakeSlot(h, t)
      PROVE  Discipline'
  BY <1>5 DEF TakeSlot, NextInPlan, Discipline, Locked
<1>6. ASSUME NEW h \in Handlers, Unlock(h)
      PROVE  Discipline'
  <2>1. \A g \in Handlers : pc'[g] # "locked"
    BY <1>6 DEF Unlock, Discipline, TypeOK
  <2> QED
    BY <1>6, <2>1 DEF Unlock, Discipline, Locked
<1>7. ASSUME NEW h \in Handlers, DirectResume(h) \/ Respond(h)
      PROVE  Discipline'
  <2>1. \A g \in Handlers : pc'[g] = "locked" <=> pc[g] = "locked"
    BY <1>7, LockKept
  <2> QED
    BY <1>7, <2>1 DEF DirectResume, Respond, Discipline, Locked
<1>8. ASSUME NEW t \in Tasks, Finish(t) \/ TripKillSwitch(t)
      PROVE  Discipline'
  BY <1>8 DEF Finish, TripKillSwitch, Discipline, Locked
<1>9. ASSUME UNCHANGED vars
      PROVE  Discipline'
  BY <1>9 DEF vars, Discipline, Locked
<1> QED
  BY <1>1, <1>2, <1>3, <1>4, <1>5, <1>6, <1>7, <1>8, <1>9, RequestStartsPlan
  DEF Next, Request, Reschedule

LEMMA PlanStep ==
    ASSUME TypeOK, Discipline, PlanWithinEntries, [Next]_vars
    PROVE  PlanWithinEntries'
<1>1. ASSUME StartsPlan PROVE PlanWithinEntries'
  BY <1>1 DEF StartsPlan, PlanWithinEntries
<1>2. ASSUME ~StartsPlan PROVE PlanWithinEntries'
  <2>1. entries' = entries /\ scan' \cup queue' \subseteq scan \cup queue
    BY <1>2, RequestStartsPlan
    DEF Next, Request, Reschedule, ResumeFails, Filter, GiveSlot, TakeSlot,
        NextInPlan, Unlock, DirectResume, Respond, Finish,
        TripKillSwitch, vars
  <2> QED
    BY <2>1 DEF PlanWithinEntries
<1> QED
  BY <1>1, <1>2

-----------------------------------------------------------------------------
(* The tasks there are, and those that are gone.                           *)

\* What DirectResume does to the one task it is about.
LEMMA DirectResumeEffect ==
    ASSUME TypeOK, NEW h \in Handlers, DirectResume(h)
    PROVE  /\ op[h].task \in Tasks
           /\ \E s \in {"active", "error", status[op[h].task]} :
                 /\ status' = [status EXCEPT ![op[h].task] = s]
                 /\ stray' = IF s = "active" /\ status[op[h].task] # "active"
                             THEN stray \cup {op[h].task} ELSE stray
                 /\ op[h].task \notin overlapped =>
                       \/ s \in ResumeOutcomes(op[h].task, status[op[h].task])
                       \/ status[op[h].task] \in {"active", "complete"}
BY DEF DirectResume, ResumeOutcomes, LateOutcomes, TypeOK

\* A task that exists goes on existing.
LEMMA StatusStays ==
    ASSUME TypeOK, [Next]_vars, NEW t \in Tasks, status[t] # "none"
    PROVE  status'[t] # "none"
<1>1. ASSUME NEW h \in Handlers, NEW u \in Tasks, Request(h)
      PROVE  status'[t] # "none"
  BY <1>1 DEF Request, Enqueue, Pause, Resume, ResumeFails, Cancel, Remove,
              PauseOutcome, TypeOK
<1>2. ASSUME NEW h \in Handlers, Reschedule(h)
      PROVE  status'[t] # "none"
  BY <1>2 DEF Reschedule, Filter, GiveSlot, TakeSlot, Unlock,
              ResumeOutcomes, PauseOutcome, TypeOK
<1>3. ASSUME NEW h \in Handlers, DirectResume(h)
      PROVE  status'[t] # "none"
  BY <1>3, DirectResumeEffect DEF TypeOK
<1>4. ASSUME \/ \E h \in Handlers : Respond(h)
             \/ \E u \in Tasks : Finish(u) \/ TripKillSwitch(u)
             \/ UNCHANGED vars
      PROVE  status'[t] # "none"
  BY <1>4 DEF Respond, Finish, TripKillSwitch, vars, TypeOK
<1> QED
  BY <1>1, <1>2, <1>3, <1>4 DEF Next

LEMMA CreatedStep ==
    ASSUME TypeOK, Created, [Next]_vars
    PROVE  Created'
<1>1. ASSUME NEW t \in entries', t \notin entries PROVE status'[t] # "none"
  <2>1. \E h \in Handlers, u \in Tasks : Enqueue(h, u)
    BY <1>1 DEF Next, Request, Reschedule, Pause, Resume, ResumeFails, Cancel,
                Remove, Filter, GiveSlot, TakeSlot, NextInPlan, Unlock,
                DirectResume, Respond, Finish, TripKillSwitch,
                vars
  <2> QED
    BY <1>1, <2>1 DEF Enqueue, TypeOK
<1>2. ASSUME NEW t \in entries' PROVE status'[t] # "none"
  BY <1>1, <1>2, StatusStays DEF Created, TypeOK
<1>3. ASSUME NEW h \in Handlers, pc'[h] # "idle"
      PROVE  status'[op'[h].task] # "none"
  <2>1. CASE pc[h] # "idle" /\ op'[h] = op[h]
    BY <2>1, StatusStays DEF Created, TypeOK
  <2>2. ASSUME NEW g \in Handlers, NEW t \in Tasks,
               Enqueue(g, t) \/ Pause(g, t) \/ Resume(g, t) \/ Cancel(g, t)
               \/ Remove(g, t)
        PROVE  (pc[h] # "idle" /\ op'[h] = op[h]) \/ status'[op'[h].task] # "none"
    <3>1. (pc[h] # "idle" /\ op'[h] = op[h]) \/ op'[h].task = t
      BY <1>3, <2>2 DEF Enqueue, Pause, Resume, Cancel, Remove, StartRequest, TypeOK
    <3>2. t \in entries \/ t \in entries'
      BY <2>2 DEF Enqueue, Pause, Resume, Cancel, Remove
    <3>3. status'[t] # "none"
      BY <1>2, <3>2, StatusStays DEF Created
    <3> QED
      BY <3>1, <3>3
  <2>3. ASSUME NEW g \in Handlers, Unlock(g) \/ DirectResume(g) \/ Respond(g)
        PROVE  pc[h] # "idle" /\ op'[h] = op[h]
    BY <1>3, <2>3 DEF Unlock, DirectResume, Respond, TypeOK
  <2>4. ASSUME \/ \E g \in Handlers, t \in Tasks :
                     \/ ResumeFails(g, t) \/ Filter(g, t)
                     \/ GiveSlot(g, t) \/ TakeSlot(g, t)
               \/ \E t \in Tasks : Finish(t) \/ TripKillSwitch(t)
               \/ UNCHANGED vars
        PROVE  pc[h] # "idle" /\ op'[h] = op[h]
    BY <1>3, <2>4 DEF ResumeFails, Filter, GiveSlot, TakeSlot, NextInPlan, Finish,
                      TripKillSwitch, vars
  <2> QED
    BY <2>1, <2>2, <2>3, <2>4 DEF Next, Request, Reschedule
<1> QED
  BY <1>2, <1>3 DEF Created

LEMMA RemovedStep ==
    ASSUME TypeOK, Created, PlanWithinEntries, RemovedStaysStopped, [Next]_vars
    PROVE  RemovedStaysStopped'
<1> SUFFICES ASSUME NEW t \in Tasks \ overlapped', status'[t] # "none",
                    t \notin entries'
             PROVE  status'[t] = "cancelled"
  BY DEF RemovedStaysStopped
<1>1. ASSUME NEW h \in Handlers, Request(h) PROVE status'[t] = "cancelled"
  BY <1>1 DEF Request, Enqueue, Pause, Resume, ResumeFails, Cancel, Remove,
              Stopping, RemovedStaysStopped, TypeOK
<1>2. ASSUME NEW h \in Handlers, Reschedule(h) PROVE status'[t] = "cancelled"
  BY <1>2 DEF Reschedule, Filter, GiveSlot, TakeSlot, NextInPlan, IsFirst,
              Unlock, PlanWithinEntries, Stopping, RemovedStaysStopped,
              TypeOK
<1>3. ASSUME NEW h \in Handlers, DirectResume(h) PROVE status'[t] = "cancelled"
  <2>1. CASE op[h].task = t
    <3>1. status[t] = "cancelled" /\ t \notin overlapped
      BY <1>3, <2>1 DEF Created, RemovedStaysStopped, DirectResume, TypeOK
    <3>2. ResumeOutcomes(t, status[t]) = {"cancelled"}
      BY <3>1 DEF ResumeOutcomes, Resumable
    <3> QED
      BY <1>3, <2>1, <3>1, <3>2, DirectResumeEffect DEF TypeOK
  <2>2. CASE op[h].task # t
    BY <1>3, <2>2, DirectResumeEffect
    DEF RemovedStaysStopped, DirectResume, TypeOK
  <2> QED
    BY <2>1, <2>2
<1>4. ASSUME \/ \E h \in Handlers : Respond(h)
             \/ \E u \in Tasks : Finish(u) \/ TripKillSwitch(u)
             \/ UNCHANGED vars
      PROVE  status'[t] = "cancelled"
  BY <1>4 DEF Respond, Finish, TripKillSwitch, vars,
              RemovedStaysStopped, TypeOK
<1> QED
  BY <1>1, <1>2, <1>3, <1>4 DEF Next

-----------------------------------------------------------------------------
(* The slots.                                                              *)

\* Giving up a slot, or getting one as a stray, never adds to Settled.
LEMMA FewerSettled ==
    ASSUME TypeOK, TypeOK', SlotsCounted, SlotsOrdered,
           Settled' \subseteq Settled,
           Locked' => Locked /\ index' >= index,
           addedAt' = addedAt, entries' = entries,
           queue' \subseteq queue,
           scan' \cup queue' = scan \cup queue,
           \A t \in entries : Waiting(status'[t]) => Waiting(status[t]),
           Locked' /\ index' < MaxConcurrent => index < MaxConcurrent,
           Locked' /\ index' = 0 => index = 0
    PROVE  SlotsCounted' /\ SlotsOrdered'
<1>1. /\ Settled \in SUBSET Tasks /\ Settled' \in SUBSET Tasks
  BY DEF Settled, Running, TypeOK
<1>2. Cardinality(Settled') <= Cardinality(Settled)
      /\ Cardinality(Settled') \in Nat /\ Cardinality(Settled) \in Nat
  BY <1>1, TaskSetsFinite, FS_Subset
<1>3. index \in Nat /\ index' \in Nat /\ MaxConcurrent \in Int
  BY MaxConcurrentAssumption DEF TypeOK
<1>4. SlotsCounted'
  BY <1>2, <1>3 DEF SlotsCounted
<1>5. \A a, b \in Tasks : Before(a, b)' = Before(a, b)
  BY DEF Before
<1>6. entries \subseteq Tasks /\ queue \subseteq Tasks
  BY DEF TypeOK
<1> HIDE DEF Settled, Waiting, Before, Locked
<1>7. SlotsOrdered'
  <2>1. ASSUME NEW a \in entries', NEW b \in Settled', Before(a, b)'
        PROVE  ~Waiting(status'[a])
    <3>1. b \in Settled /\ a \in entries /\ Before(a, b)
      BY <1>1, <1>5, <1>6, <2>1
    <3> QED
      BY <3>1 DEF SlotsOrdered
  <2>2. ASSUME Locked', index' < MaxConcurrent,
               NEW a \in entries' \ (scan' \cup queue')
        PROVE  ~Waiting(status'[a])
    BY <2>2 DEF SlotsOrdered
  <2>3. ASSUME NEW b \in Settled', NEW q \in queue' PROVE Before(b, q)'
    BY <1>1, <1>5, <1>6, <2>3 DEF SlotsOrdered
  <2> QED
    BY <2>1, <2>2, <2>3 DEF SlotsOrdered
<1> QED
  BY <1>4, <1>7

LEMMA SlotsStart ==
    ASSUME TypeOK', MaxConcurrent > 0, StartsPlan
    PROVE  SlotsCounted' /\ SlotsOrdered'
<1>1. Settled' = {} /\ scan' \cup queue' = entries' /\ queue' = {}
  BY DEF StartsPlan, Settled, Running
<1>2. SlotsCounted'
  BY <1>1, FS_EmptySet, MaxConcurrentAssumption DEF SlotsCounted, StartsPlan
<1> QED
  BY <1>1, <1>2 DEF SlotsOrdered

LEMMA SlotsFilter ==
    ASSUME TypeOK, TypeOK', MaxConcurrent > 0, Discipline, SlotsCounted, SlotsOrdered,
           NEW h \in Handlers, NEW t \in Tasks, Filter(h, t)
    PROVE  SlotsCounted' /\ SlotsOrdered'
<1>1. index = 0 /\ index' = 0 /\ Locked
  BY DEF Filter, Discipline, Locked
<1>2. Settled = {}
  BY <1>1 DEF SlotsCounted
<1>3. Settled' = {}
  BY <1>2 DEF Settled, Running, Filter, Finished
<1>4. SlotsCounted'
  BY <1>1, <1>3, FS_EmptySet, MaxConcurrentAssumption DEF SlotsCounted
<1>5. ASSUME NEW a \in entries' \ (scan' \cup queue')
      PROVE  ~Waiting(status'[a])
  <2>1. CASE a = t
    BY <1>5, <2>1 DEF Filter, Finished, Waiting
  <2>2. CASE a # t
    BY <1>1, <1>5, <2>2, MaxConcurrentAssumption DEF Filter, SlotsOrdered
  <2> QED
    BY <2>1, <2>2
<1> QED
  BY <1>3, <1>4, <1>5 DEF SlotsOrdered

\* The loop gives a slot to the first of the remaining plan.
LEMMA SlotsGive ==
    ASSUME TypeOK, TypeOK', MaxConcurrent > 0, SlotsCounted, SlotsOrdered,
           NEW h \in Handlers, NEW t \in Tasks, GiveSlot(h, t)
    PROVE  SlotsCounted' /\ SlotsOrdered'
<1>1. /\ scan = {} /\ scan' = {} /\ queue' = queue \ {t} /\ t \in queue
      /\ index < MaxConcurrent /\ index' = index + 1
      /\ entries' = entries /\ addedAt' = addedAt
      /\ Locked
  BY DEF GiveSlot, NextInPlan, IsFirst, Locked
<1>2. /\ \A u \in Tasks \ {t} : status'[u] = status[u]
      /\ ~Waiting(status'[t])
  BY DEF GiveSlot, ResumeOutcomes, Resumable, Waiting, TypeOK, Statuses
<1>3. Settled' \subseteq Settled \cup {t}
  BY <1>1, <1>2 DEF Settled, Running, GiveSlot, NextInPlan, TypeOK
<1>4. SlotsCounted'
  <2>1. Settled \in SUBSET Tasks /\ Settled \cup {t} \in SUBSET Tasks
    BY DEF Settled, Running, TypeOK
  <2>2. /\ IsFiniteSet(Settled \cup {t}) /\ Cardinality(Settled) \in Nat
        /\ Cardinality(Settled \cup {t}) <= Cardinality(Settled) + 1
    BY <2>1, TaskSetsFinite, FS_AddElement
  <2>3. Cardinality(Settled') <= Cardinality(Settled \cup {t})
        /\ Cardinality(Settled') \in Nat /\ Cardinality(Settled \cup {t}) \in Nat
    BY <1>3, <2>1, <2>2, FS_Subset, FS_CardinalityType
  <2>4. Cardinality(Settled) <= index /\ index \in Nat
    BY <1>1 DEF SlotsCounted, TypeOK
  <2> HIDE DEF Settled
  <2> QED
    BY <1>1, <2>2, <2>3, <2>4, MaxConcurrentAssumption DEF SlotsCounted
<1>5. \A a, b \in Tasks : Before(a, b)' = Before(a, b)
  BY <1>1 DEF Before
<1>6. entries \subseteq Tasks /\ queue \subseteq Tasks /\ Settled \subseteq Tasks
  BY DEF Settled, Running, TypeOK
<1>7. \A a \in entries \ queue : ~Waiting(status[a])
  BY <1>1 DEF SlotsOrdered
<1>8. \A q \in queue \ {t} : Before(t, q)
  BY DEF GiveSlot, NextInPlan, IsFirst
<1> HIDE DEF Waiting, Before, Settled
<1>9. ASSUME NEW a \in entries', NEW b \in Settled', Before(a, b)'
      PROVE  ~Waiting(status'[a])
  <2>1. a \in Tasks /\ b \in Tasks /\ t \in Tasks /\ Before(a, b) /\ a \in entries
    BY <1>1, <1>3, <1>5, <1>6, <1>9
  <2>2. CASE a = t
    BY <1>2, <2>2
  <2>3. CASE a # t /\ b \in Settled
    BY <1>2, <2>1, <2>3 DEF SlotsOrdered
  <2>4. CASE a # t /\ b = t
    <3>1. a \notin queue
      BY <1>8, <2>1, <2>4, BeforeAsymmetric
    <3> QED
      BY <1>2, <1>7, <2>1, <2>4, <3>1
  <2> QED
    BY <1>3, <2>2, <2>3, <2>4
<1>10. ASSUME NEW a \in entries' \ (scan' \cup queue')
       PROVE  ~Waiting(status'[a])
  BY <1>1, <1>2, <1>6, <1>7, <1>10
<1>11. ASSUME NEW b \in Settled', NEW q \in queue' PROVE Before(b, q)'
  <2>1. b \in Tasks /\ q \in Tasks /\ q \in queue \ {t}
    BY <1>1, <1>3, <1>6, <1>11
  <2>2. Before(b, q)
    BY <1>3, <1>8, <2>1 DEF SlotsOrdered
  <2> QED
    BY <1>5, <2>1, <2>2
<1> QED
  BY <1>4, <1>9, <1>10, <1>11 DEF SlotsOrdered

\* Past the limit, the loop pauses the first of the remaining plan.
LEMMA SlotsTake ==
    ASSUME TypeOK, TypeOK', MaxConcurrent > 0, SlotsCounted, SlotsOrdered,
           NEW h \in Handlers, NEW t \in Tasks, TakeSlot(h, t)
    PROVE  SlotsCounted' /\ SlotsOrdered'
<1>1. /\ scan = {} /\ scan' = {} /\ queue' = queue \ {t} /\ t \in queue
      /\ index >= MaxConcurrent /\ index' = index + 1
      /\ entries' = entries /\ addedAt' = addedAt
      /\ Locked
  BY DEF TakeSlot, NextInPlan, IsFirst, Locked
<1>2. /\ \A u \in Tasks \ {t} : status'[u] = status[u]
      /\ status'[t] # "active"
  BY DEF TakeSlot, PauseOutcome, TypeOK
<1>3. Settled' \subseteq Settled
  BY <1>1, <1>2 DEF Settled, Running, TakeSlot, NextInPlan, TypeOK
<1>4. SlotsCounted'
  <2>1. Settled \in SUBSET Tasks /\ Settled' \in SUBSET Tasks
    BY DEF Settled, Running, TypeOK
  <2>2. /\ Cardinality(Settled') <= Cardinality(Settled)
        /\ Cardinality(Settled') \in Nat /\ Cardinality(Settled) \in Nat
    BY <1>3, <2>1, TaskSetsFinite, FS_Subset
  <2>3. Cardinality(Settled) <= index /\ index \in Nat
    BY <1>1 DEF SlotsCounted, TypeOK
  <2> HIDE DEF Settled
  <2> QED
    BY <1>1, <2>2, <2>3, MaxConcurrentAssumption DEF SlotsCounted
<1>5. \A a, b \in Tasks : Before(a, b)' = Before(a, b)
  BY <1>1 DEF Before
<1>6. entries \subseteq Tasks /\ queue \subseteq Tasks /\ Settled \subseteq Tasks
  BY DEF Settled, Running, TypeOK
<1> HIDE DEF Waiting, Before, Settled
<1>7. ASSUME NEW a \in entries', NEW b \in Settled', Before(a, b)'
      PROVE  ~Waiting(status'[a])
  <2>1. a \in Tasks /\ b \in Tasks /\ Before(a, b) /\ a \in entries /\ b \in Settled
    BY <1>1, <1>3, <1>5, <1>6, <1>7
  <2>2. a # t
    BY <1>1, <2>1, BeforeAsymmetric DEF SlotsOrdered
  <2> QED
    BY <1>2, <2>1, <2>2 DEF SlotsOrdered
<1>8. ~(index' < MaxConcurrent)
  BY <1>1, MaxConcurrentAssumption DEF TypeOK
<1>9. ASSUME NEW b \in Settled', NEW q \in queue' PROVE Before(b, q)'
  BY <1>1, <1>3, <1>5, <1>6, <1>9 DEF SlotsOrdered
<1> QED
  BY <1>4, <1>7, <1>8, <1>9 DEF SlotsOrdered

LEMMA SlotsStep ==
    ASSUME SchedulerInv, TypeOK', MaxConcurrent > 0, [Next]_vars
    PROVE  SlotsCounted' /\ SlotsOrdered'
<1> USE DEF SchedulerInv
<1>1. ASSUME StartsPlan PROVE SlotsCounted' /\ SlotsOrdered'
  BY <1>1, SlotsStart
<1>2. ASSUME NEW h \in Handlers, NEW t \in Tasks, ResumeFails(h, t)
      PROVE  SlotsCounted' /\ SlotsOrdered'
  <2>1. Settled' \subseteq Settled
    BY <1>2 DEF ResumeFails, Settled, Running, TypeOK
  <2>2. ~Locked'
    BY <1>2, LockKept DEF ResumeFails, Locked
  <2>3. \A u \in entries : Waiting(status'[u]) => Waiting(status[u])
    BY <1>2 DEF ResumeFails, Waiting, TypeOK
  <2> QED
    BY <1>2, <2>1, <2>2, <2>3, FewerSettled DEF ResumeFails
<1>3. ASSUME NEW h \in Handlers, NEW t \in Tasks, Filter(h, t)
      PROVE  SlotsCounted' /\ SlotsOrdered'
  BY <1>3, SlotsFilter
<1>4. ASSUME NEW h \in Handlers, NEW t \in Tasks, GiveSlot(h, t)
      PROVE  SlotsCounted' /\ SlotsOrdered'
  BY <1>4, SlotsGive
<1>5. ASSUME NEW h \in Handlers, NEW t \in Tasks, TakeSlot(h, t)
      PROVE  SlotsCounted' /\ SlotsOrdered'
  BY <1>5, SlotsTake
<1>6. ASSUME NEW h \in Handlers, Unlock(h)
      PROVE  SlotsCounted' /\ SlotsOrdered'
  <2>1. Settled' = Settled
    BY <1>6 DEF Unlock, Settled, Running
  <2>2. ~Locked'
    BY <1>6 DEF Unlock, Discipline, Locked, TypeOK
  <2> QED
    BY <1>6, <2>1, <2>2, FewerSettled DEF Unlock
<1>7. ASSUME NEW h \in Handlers, DirectResume(h)
      PROVE  SlotsCounted' /\ SlotsOrdered'
  <2>1. Locked' <=> Locked
    BY <1>7, LockKept DEF Locked
  <2>2. Settled' \subseteq Settled
    BY <1>7, DirectResumeEffect DEF DirectResume, Settled, Running, TypeOK
  <2>3. \A u \in entries : Waiting(status'[u]) => Waiting(status[u])
    BY <1>7, DirectResumeEffect DEF Waiting, TypeOK
  <2>4. UNCHANGED <<entries, addedAt, scan, queue, index>>
    BY <1>7 DEF DirectResume
  <2>5. index \in Nat
    BY DEF TypeOK
  <2> HIDE DEF Settled, Waiting, Locked, SchedulerInv
  <2> QED
    BY <2>1, <2>2, <2>3, <2>4, <2>5, FewerSettled DEF SchedulerInv
<1>8. ASSUME NEW t \in Tasks, Finish(t) \/ TripKillSwitch(t)
      PROVE  SlotsCounted' /\ SlotsOrdered'
  <2>1. Locked' <=> Locked
    BY <1>8, LockKept DEF Locked
  <2>2. Settled' \subseteq Settled
    BY <1>8 DEF Finish, TripKillSwitch, Settled, Running, TypeOK
  <2>3. \A u \in entries : Waiting(status'[u]) => Waiting(status[u])
    BY <1>8 DEF Finish, TripKillSwitch, Waiting, TypeOK
  <2>4. UNCHANGED <<entries, addedAt, scan, queue, index>> /\ index \in Nat
    BY <1>8 DEF Finish, TripKillSwitch, TypeOK
  <2> HIDE DEF Settled, Waiting, Locked
  <2> QED
    BY <2>1, <2>2, <2>3, <2>4, FewerSettled
<1>9. ASSUME (\E h \in Handlers : Respond(h)) \/ UNCHANGED vars
      PROVE  SlotsCounted' /\ SlotsOrdered'
  <2>1. Locked' <=> Locked
    BY <1>9, LockKept DEF Locked
  <2>2. UNCHANGED <<entries, addedAt, status, stray, scan, queue, index>>
        /\ index \in Nat
    BY <1>9 DEF Respond, vars, TypeOK
  <2>3. Settled' = Settled
    BY <2>2 DEF Settled, Running
  <2> HIDE DEF Settled, Waiting, Locked
  <2> QED
    BY <2>1, <2>2, <2>3, FewerSettled
<1> QED
  BY <1>1, <1>2, <1>3, <1>4, <1>5, <1>6, <1>7, <1>8, <1>9, RequestStartsPlan
  DEF Next, Request, Reschedule

-----------------------------------------------------------------------------
(* No slot is wasted.                                                      *)

LEMMA UsedTyped ==
    ASSUME TypeOK
    PROVE  Used \subseteq Tasks
BY DEF Used, Running, TypeOK

\* A larger set of used slots is no fewer of them.
LEMMA MoreUsed ==
    ASSUME TypeOK, TypeOK', Used \ queue \subseteq Used' \ queue'
    PROVE  /\ Cardinality(Used \ queue) \in Nat
           /\ Cardinality(Used' \ queue') \in Nat
           /\ Cardinality(Used \ queue) <= Cardinality(Used' \ queue')
<1>1. Used \ queue \in SUBSET Tasks /\ Used' \ queue' \in SUBSET Tasks
  BY UsedTyped DEF Used, Running, TypeOK
<1> QED
  BY <1>1, TaskSetsFinite, FS_Subset

\* What happens beside a reschedule leaves every slot used that was.
LEMMA UsedBeside ==
    ASSUME TypeOK, TypeOK', SlotsUsed,
           Used \subseteq Used',
           Locked' <=> Locked,
           UNCHANGED <<entries, queue, index>>,
           \A t \in entries : Waiting(status'[t]) => Waiting(status[t]),
           \A t \in queue : status'[t] \in Finished => status[t] \in Finished \/ t \in lapsed',
           lapsed \subseteq lapsed'
    PROVE  SlotsUsed'
<1>1. Cardinality(Used \ queue) <= Cardinality(Used' \ queue')
      /\ Cardinality(Used \ queue) \in Nat /\ Cardinality(Used' \ queue') \in Nat
  BY MoreUsed
<1>2. Cardinality(Used) <= Cardinality(Used')
      /\ Cardinality(Used) \in Nat /\ Cardinality(Used') \in Nat
  <2>1. Used \in SUBSET Tasks /\ Used' \in SUBSET Tasks
    BY DEF Used, Running, TypeOK
  <2> QED
    BY <2>1, TaskSetsFinite, FS_Subset
<1>3. index \in Nat /\ MaxConcurrent \in Int
  BY MaxConcurrentAssumption DEF TypeOK
<1>4. \A t \in queue' : status'[t] \in Finished => t \in lapsed'
  BY DEF SlotsUsed
<1> HIDE DEF Used, Locked
<1>5. Locked' => \/ index' <= Cardinality(Used' \ queue')
                 \/ MaxConcurrent <= Cardinality(Used' \ queue')
  BY <1>1, <1>3 DEF SlotsUsed
<1>6. SlotsIdleOnlyAfterLapse'
  <2> SUFFICES ASSUME MaxConcurrent > 0, ~Locked, NEW t \in entries, Waiting(status'[t])
               PROVE  Cardinality(Used') >= MaxConcurrent
    BY DEF SlotsIdleOnlyAfterLapse, Used
  <2>1. Waiting(status[t])
    OBVIOUS
  <2>2. Cardinality(Used) >= MaxConcurrent
    BY <2>1 DEF SlotsUsed, SlotsIdleOnlyAfterLapse, Used
  <2> QED
    BY <1>2, <1>3, <2>2
<1> QED
  BY <1>4, <1>5, <1>6 DEF SlotsUsed

LEMMA UsedStart ==
    ASSUME TypeOK', StartsPlan
    PROVE  SlotsUsed'
<1>1. Used' \ queue' \in SUBSET Tasks
  BY DEF Used, Running, TypeOK
<1>2. Cardinality(Used' \ queue') \in Nat
  BY <1>1, TaskSetsFinite
<1> HIDE DEF Used
<1> QED
  BY <1>2 DEF StartsPlan, SlotsUsed, SlotsIdleOnlyAfterLapse

LEMMA UsedFilter ==
    ASSUME TypeOK, TypeOK', Discipline, SlotsUsed,
           NEW h \in Handlers, NEW t \in Tasks, Filter(h, t)
    PROVE  SlotsUsed'
<1>1. Locked' /\ index' = 0
  BY DEF Filter, Discipline, Locked
<1>2. Used' \ queue' \in SUBSET Tasks
  BY DEF Used, Running, TypeOK
<1>3. Cardinality(Used' \ queue') \in Nat
  BY <1>2, TaskSetsFinite
<1>4. \A u \in queue' : status'[u] \in Finished => u \in lapsed'
  BY DEF Filter, Discipline, SlotsUsed
<1> HIDE DEF Used, Locked
<1> QED
  BY <1>1, <1>3, <1>4 DEF SlotsUsed, SlotsIdleOnlyAfterLapse

\* The task that is given a slot runs, or has stopped by itself.
LEMMA UsedGive ==
    ASSUME TypeOK, TypeOK', PlanWithinEntries, Created, SlotsUsed,
           NEW h \in Handlers, NEW t \in Tasks, GiveSlot(h, t)
    PROVE  SlotsUsed'
<1>1. /\ t \in queue /\ t \in entries /\ queue' = queue \ {t}
      /\ index < MaxConcurrent /\ index' = index + 1
      /\ entries' = entries /\ Locked /\ Locked'
  BY LockKept DEF GiveSlot, NextInPlan, IsFirst, PlanWithinEntries, Locked
<1>2. PICK s \in ResumeOutcomes(t, status[t]) :
        /\ status' = [status EXCEPT ![t] = s]
        /\ IF s = "error" THEN Lapse(t) ELSE UNCHANGED lapsed
  BY DEF GiveSlot
<1>3. /\ \A u \in Tasks \ {t} : status'[u] = status[u]
      /\ status'[t] = s
      /\ lapsed \subseteq lapsed'
      /\ s = "error" => t \in lapsed'
  BY <1>1, <1>2 DEF Lapse, TypeOK
<1>4. status[t] \in Statuses
  BY <1>1 DEF Created, TypeOK
<1>5. t \in Used'
  <2>1. CASE s = "active"
    BY <1>1, <1>3, <2>1 DEF Used, Running
  <2>2. CASE s = "error" /\ t \in lapsed'
    BY <1>1, <2>2 DEF Used
  <2>3. CASE s \notin {"active", "error"}
    <3>1. s = status[t] /\ status[t] \in Finished
      BY <1>2, <1>4, <2>3 DEF ResumeOutcomes, Resumable, Finished, Statuses
    <3> QED
      BY <1>1, <1>3, <3>1 DEF SlotsUsed, Used
  <2> QED
    BY <1>3, <2>1, <2>2, <2>3
<1>6. (Used \ queue) \cup {t} \subseteq Used' \ queue'
  BY <1>1, <1>3, <1>5 DEF Used, Running, TypeOK
<1>7. /\ Used \ queue \in SUBSET Tasks
      /\ (Used \ queue) \cup {t} \in SUBSET Tasks
      /\ Used' \ queue' \in SUBSET Tasks
  BY DEF Used, Running, TypeOK
<1>8. /\ Cardinality(Used \ queue) \in Nat /\ Cardinality(Used' \ queue') \in Nat
      /\ Cardinality(Used \ queue) + 1 <= Cardinality(Used' \ queue')
  <2>1. t \notin Used \ queue
    BY <1>1
  <2>2. Cardinality((Used \ queue) \cup {t}) = Cardinality(Used \ queue) + 1
    BY <1>7, <2>1, TaskSetsFinite, FS_AddElement
  <2>3. /\ IsFiniteSet(Used' \ queue') /\ Cardinality(Used' \ queue') \in Nat
        /\ Cardinality(Used \ queue) \in Nat
    BY <1>7, TaskSetsFinite
  <2>4. Cardinality((Used \ queue) \cup {t}) <= Cardinality(Used' \ queue')
    BY <1>6, <2>3, FS_Subset
  <2> QED
    BY <2>2, <2>3, <2>4
<1>9. index \in Nat /\ MaxConcurrent \in Int
  BY MaxConcurrentAssumption DEF TypeOK
<1>10. \A u \in queue' : status'[u] \in Finished => u \in lapsed'
  BY <1>1, <1>3 DEF SlotsUsed, TypeOK
<1> HIDE DEF Used, Locked
<1>11. Locked' => \/ index' <= Cardinality(Used' \ queue')
                  \/ MaxConcurrent <= Cardinality(Used' \ queue')
  BY <1>1, <1>8, <1>9 DEF SlotsUsed
<1> QED
  BY <1>1, <1>10, <1>11 DEF SlotsUsed, SlotsIdleOnlyAfterLapse

LEMMA UsedTake ==
    ASSUME TypeOK, TypeOK', SlotsUsed,
           NEW h \in Handlers, NEW t \in Tasks, TakeSlot(h, t)
    PROVE  SlotsUsed'
<1>1. /\ t \in queue /\ queue' = queue \ {t}
      /\ index >= MaxConcurrent /\ index' = index + 1
      /\ entries' = entries /\ lapsed' = lapsed /\ Locked /\ Locked'
  BY LockKept DEF TakeSlot, NextInPlan, IsFirst, Locked
<1>2. \A u \in Tasks \ {t} : status'[u] = status[u]
  BY DEF TakeSlot, TypeOK
<1>3. Used \ queue \subseteq Used' \ queue'
  BY <1>1, <1>2 DEF Used, Running, TypeOK
<1>4. /\ Cardinality(Used \ queue) \in Nat /\ Cardinality(Used' \ queue') \in Nat
      /\ Cardinality(Used \ queue) <= Cardinality(Used' \ queue')
  BY <1>3, MoreUsed
<1>5. index \in Nat /\ MaxConcurrent \in Int
  BY MaxConcurrentAssumption DEF TypeOK
<1>6. \A u \in queue' : status'[u] \in Finished => u \in lapsed'
  BY <1>1, <1>2 DEF SlotsUsed, TypeOK
<1> HIDE DEF Used, Locked
<1>7. MaxConcurrent <= Cardinality(Used' \ queue')
  BY <1>1, <1>4, <1>5 DEF SlotsUsed
<1> QED
  BY <1>1, <1>6, <1>7 DEF SlotsUsed, SlotsIdleOnlyAfterLapse

\* When the plan is done and somebody waits, the loop has run out of slots.
LEMMA UsedUnlock ==
    ASSUME TypeOK, TypeOK', MaxConcurrent > 0, Discipline, SlotsOrdered, SlotsUsed,
           NEW h \in Handlers, Unlock(h)
    PROVE  SlotsUsed'
<1>1. /\ Locked /\ ~Locked' /\ scan = {} /\ queue = {} /\ queue' = {}
      /\ UNCHANGED <<entries, status, lapsed>>
  BY DEF Unlock, Discipline, Locked, TypeOK
<1>2. Used' = Used /\ Used \ queue = Used
  BY <1>1 DEF Used, Running
<1>3. Used \in SUBSET Tasks
  BY DEF Used, Running, TypeOK
<1>4. Cardinality(Used) \in Nat /\ index \in Nat /\ MaxConcurrent \in Int
  BY <1>3, TaskSetsFinite, MaxConcurrentAssumption DEF TypeOK
<1> HIDE DEF Locked, Waiting
<1>5. ASSUME NEW t \in entries, Waiting(status[t])
      PROVE  MaxConcurrent <= Cardinality(Used)
  <2>1. ~(index < MaxConcurrent)
    BY <1>1, <1>5 DEF SlotsOrdered
  <2>2. index <= Cardinality(Used) \/ MaxConcurrent <= Cardinality(Used)
    BY <1>1, <1>2 DEF SlotsUsed
  <2> HIDE DEF Used
  <2> QED
    BY <1>4, <2>1, <2>2
<1>6. SlotsIdleOnlyAfterLapse'
  <2> SUFFICES ASSUME NEW t \in entries, Waiting(status[t])
               PROVE  Cardinality(Used') >= MaxConcurrent
    BY <1>1 DEF SlotsIdleOnlyAfterLapse, Used, Waiting
  <2> HIDE DEF Used
  <2> QED
    BY <1>2, <1>4, <1>5
<1> QED
  BY <1>1, <1>6 DEF SlotsUsed

LEMMA UsedStep ==
    ASSUME SchedulerInv, TypeOK', MaxConcurrent > 0, [Next]_vars
    PROVE  SlotsUsed'
<1>0. /\ TypeOK /\ Discipline /\ PlanWithinEntries /\ Created
      /\ SlotsOrdered /\ SlotsUsed
  BY DEF SchedulerInv
<1>1. ASSUME StartsPlan PROVE SlotsUsed'
  BY <1>1, UsedStart
<1>2. ASSUME NEW h \in Handlers, NEW t \in Tasks, ResumeFails(h, t)
      PROVE  SlotsUsed'
  <2>1. Locked' <=> Locked
    BY <1>0, <1>2, LockKept DEF Locked
  <2>2. /\ UNCHANGED <<entries, queue, index, lapsed>>
        /\ status' = [status EXCEPT ![t] = "error"] /\ status[t] # "active"
        /\ ~Locked
    BY <1>2 DEF ResumeFails, Resumable
  <2>3. Used \subseteq Used'
    BY <1>0, <2>2 DEF Used, Running, TypeOK
  <2>4. /\ \A u \in entries : Waiting(status'[u]) => Waiting(status[u])
        /\ queue = {}
    BY <1>0, <2>2 DEF Waiting, Discipline, TypeOK
  <2> HIDE DEF Used, Waiting, Locked
  <2> QED
    BY <1>0, <2>1, <2>2, <2>3, <2>4, UsedBeside
<1>3. ASSUME NEW h \in Handlers, NEW t \in Tasks, Filter(h, t)
      PROVE  SlotsUsed'
  BY <1>0, <1>3, UsedFilter
<1>4. ASSUME NEW h \in Handlers, NEW t \in Tasks, GiveSlot(h, t)
      PROVE  SlotsUsed'
  BY <1>0, <1>4, UsedGive
<1>5. ASSUME NEW h \in Handlers, NEW t \in Tasks, TakeSlot(h, t)
      PROVE  SlotsUsed'
  BY <1>0, <1>5, UsedTake
<1>6. ASSUME NEW h \in Handlers, Unlock(h)
      PROVE  SlotsUsed'
  BY <1>0, <1>6, UsedUnlock
<1>7. ASSUME NEW h \in Handlers, DirectResume(h)
      PROVE  SlotsUsed'
  <2> DEFINE t == op[h].task
  <2>1. Locked' <=> Locked
    BY <1>0, <1>7, LockKept DEF Locked
  <2>2. UNCHANGED <<entries, queue, index>>
    BY <1>7 DEF DirectResume
  <2>3. PICK s \in {"active", "error", status[t]} :
          /\ status' = [status EXCEPT ![t] = s]
          /\ IF s = "error" THEN Lapse(t) ELSE UNCHANGED lapsed
    BY <1>7 DEF DirectResume, ResumeOutcomes, LateOutcomes
  <2>4. t \in Tasks
    BY <1>0, <1>7 DEF DirectResume, TypeOK
  <2>5. /\ status'[t] = s /\ \A u \in Tasks \ {t} : status'[u] = status[u]
        /\ lapsed \subseteq lapsed'
        /\ s = "error" /\ (status[t] = "active" \/ t \in queue) => t \in lapsed'
    BY <1>0, <2>3, <2>4 DEF Lapse, TypeOK
  <2> HIDE DEF t
  <2>6. Used \subseteq Used'
    BY <1>0, <2>2, <2>5 DEF Used, Running, TypeOK
  <2>7. \A u \in entries : Waiting(status'[u]) => Waiting(status[u])
    BY <1>0, <2>5 DEF Waiting, TypeOK
  <2>8. \A u \in queue : status'[u] \in Finished => status[u] \in Finished \/ u \in lapsed'
    BY <1>0, <2>5 DEF Finished, TypeOK
  <2> HIDE DEF Used, Waiting, Locked
  <2> QED
    BY <1>0, <2>1, <2>2, <2>5, <2>6, <2>7, <2>8, UsedBeside
<1>8. ASSUME NEW t \in Tasks, Finish(t) \/ TripKillSwitch(t)
      PROVE  SlotsUsed'
  <2>1. Locked' <=> Locked
    BY <1>0, <1>8, LockKept DEF Locked
  <2>2. /\ UNCHANGED <<entries, queue, index>>
        /\ Lapse(t)
        /\ \E s \in {"complete", "error"} : status' = [status EXCEPT ![t] = s]
    BY <1>8 DEF Finish, TripKillSwitch
  <2>3. /\ status'[t] \in {"complete", "error"}
        /\ \A u \in Tasks \ {t} : status'[u] = status[u]
        /\ lapsed \subseteq lapsed'
        /\ status[t] = "active" \/ t \in queue => t \in lapsed'
    BY <1>0, <2>2 DEF Lapse, TypeOK
  <2>4. Used \subseteq Used'
    BY <1>0, <2>2, <2>3 DEF Used, Running, TypeOK
  <2>5. \A u \in entries : Waiting(status'[u]) => Waiting(status[u])
    BY <1>0, <2>3 DEF Waiting, TypeOK
  <2>6. \A u \in queue : status'[u] \in Finished => status[u] \in Finished \/ u \in lapsed'
    BY <1>0, <2>3 DEF Finished, TypeOK
  <2> HIDE DEF Used, Waiting, Locked
  <2> QED
    BY <1>0, <2>1, <2>2, <2>3, <2>4, <2>5, <2>6, UsedBeside
<1>9. ASSUME (\E h \in Handlers : Respond(h)) \/ UNCHANGED vars
      PROVE  SlotsUsed'
  <2>1. Locked' <=> Locked
    BY <1>0, <1>9, LockKept DEF Locked
  <2>2. UNCHANGED <<entries, status, queue, index, lapsed>>
    BY <1>9 DEF Respond, vars
  <2>3. Used' = Used
    BY <2>2 DEF Used, Running
  <2> HIDE DEF Used, Waiting, Locked
  <2> QED
    BY <1>0, <2>1, <2>2, <2>3, UsedBeside
<1> QED
  BY <1>0, <1>1, <1>2, <1>3, <1>4, <1>5, <1>6, <1>7, <1>8, <1>9, RequestStartsPlan
  DEF Next, Request, Reschedule

-----------------------------------------------------------------------------
(* The theorems.                                                           *)

LEMMA SchedulerInvInit == Init => SchedulerInv
<1> SUFFICES ASSUME Init PROVE SchedulerInv
  OBVIOUS
<1>1. TypeOK
  BY TypeInit
<1>2. ~Locked /\ Settled = {}
  BY DEF Init, Locked, Settled, Running
<1>3. Discipline /\ PlanWithinEntries /\ Created /\ RemovedStaysStopped
  BY <1>2 DEF Init, Discipline, PlanWithinEntries, Created, RemovedStaysStopped
<1>4. MaxConcurrent > 0 => SlotsCounted /\ SlotsOrdered
  BY <1>2, FS_EmptySet, MaxConcurrentAssumption DEF SlotsCounted, SlotsOrdered
<1>5. SlotsUsed
  BY <1>2 DEF Init, SlotsUsed, SlotsIdleOnlyAfterLapse
<1> QED
  BY <1>1, <1>3, <1>4, <1>5 DEF SchedulerInv

LEMMA SchedulerInvStep == SchedulerInv /\ [Next]_vars => SchedulerInv'
<1> SUFFICES ASSUME SchedulerInv, [Next]_vars PROVE SchedulerInv'
  OBVIOUS
<1>1. TypeOK /\ Discipline /\ PlanWithinEntries /\ Created /\ RemovedStaysStopped
  BY DEF SchedulerInv
<1>2. TypeOK' /\ Discipline' /\ PlanWithinEntries' /\ Created' /\ RemovedStaysStopped'
  BY <1>1, TypeStep, DisciplineStep, PlanStep, CreatedStep, RemovedStep
<1>3. MaxConcurrent > 0 => SlotsCounted' /\ SlotsOrdered' /\ SlotsUsed'
  BY <1>2, SlotsStep, UsedStep
<1> QED
  BY <1>2, <1>3 DEF SchedulerInv

\* What a reschedule maintains at each of its steps holds throughout.
THEOREM Maintained == Spec => []SchedulerInv
BY SchedulerInvInit, SchedulerInvStep, PTL DEF Spec

\* A task that was removed is cancelled and never runs again, whenever its
\* add handler calls Resume.
THEOREM RemovalFinal == Spec => []RemovedStaysStopped
<1>1. SchedulerInv => RemovedStaysStopped
  BY DEF SchedulerInv
<1> QED
  BY <1>1, Maintained, PTL

\* The limit of rescheduleLocked: when s.mu is free, at most maxConcurrent
\* tasks run that no add handler has started on its own.
THEOREM LimitHeld == Spec => []LimitUpToStrays
<1>1. SchedulerInv => LimitUpToStrays
  <2> SUFFICES ASSUME SchedulerInv, MaxConcurrent > 0, ~Locked
               PROVE  Cardinality(Running \ stray) <= MaxConcurrent
    BY DEF LimitUpToStrays
  <2>1. Settled = Running \ stray
    BY DEF SchedulerInv, Discipline, Settled
  <2> QED
    BY <2>1 DEF SchedulerInv, SlotsCounted
<1> QED
  BY <1>1, Maintained, PTL

\* The order of rescheduleLocked: when s.mu is free, no task waits behind a
\* lower-ranking one that runs, add handlers' own resumes excepted.
THEOREM OrderKept == Spec => []NoPriorityInversion
<1>1. SchedulerInv => NoPriorityInversion
  <2> SUFFICES ASSUME SchedulerInv, MaxConcurrent > 0, ~Locked,
                      NEW a \in entries, NEW b \in Running \ stray, Before(a, b)
               PROVE  ~Waiting(status[a])
    BY DEF NoPriorityInversion
  <2>1. b \in Settled
    BY DEF SchedulerInv, Discipline, Settled
  <2> QED
    BY <2>1 DEF SchedulerInv, SlotsOrdered
<1> QED
  BY <1>1, Maintained, PTL

\* A reschedule hands out every slot: when s.mu is free and a task waits, each
\* unused slot belonged to a task that stopped by itself after the last filter
\* had read it.
THEOREM SlotsAreUsed == Spec => []SlotsIdleOnlyAfterLapse
<1>1. SchedulerInv => SlotsIdleOnlyAfterLapse
  BY DEF SchedulerInv, SlotsUsed, SlotsIdleOnlyAfterLapse
<1> QED
  BY <1>1, Maintained, PTL
-----------------------------------------------------------------------------
(* Who has s.mu lets go of it: the loop of rescheduleLocked always has a   *)
(* next element, and comes to its end.                                     *)

\* A finite set has an element that no other comes before.  Its subsets that
\* have none would include a smallest one, and taking an element from that
\* leaves a smaller one.
LEMMA FiniteHasFirst ==
    ASSUME NEW S, IsFiniteSet(S), S # {}, NEW R,
           \A x, y \in S : <<x, y>> \in R => <<y, x>> \notin R,
           \A x, y, z \in S : <<x, y>> \in R /\ <<y, z>> \in R => <<x, z>> \in R
    PROVE  \E x \in S : \A y \in S : <<y, x>> \notin R
<1> DEFINE First(U, x) == x \in U /\ \A y \in U : <<y, x>> \notin R
           Without == {U \in SUBSET S : U # {} /\ \A x \in U : ~First(U, x)}
<1> SUFFICES ASSUME Without # {} PROVE FALSE
  <2>1. S \notin Without => \E x \in S : First(S, x)
    OBVIOUS
  <2> QED
    BY <2>1
<1>1. Without \subseteq FiniteSubsetsOf(S)
  BY FS_FiniteSubsetsOfFinite
<1>2. PICK U \in Without : \A V \in Without : <<V, U>> \notin StrictSubsetOrdering(S)
  <2>1. IsWellFoundedOn(StrictSubsetOrdering(S), FiniteSubsetsOf(S))
    BY FS_StrictSubsetOrderingWellFounded
  <2> HIDE DEF Without
  <2> QED
    BY <1>1, <2>1, WFMin
<1>3. PICK u \in U : TRUE
  OBVIOUS
<1>4. U \ {u} \notin Without
  <2>1. <<U \ {u}, U>> \in StrictSubsetOrdering(S)
    BY DEF StrictSubsetOrdering
  <2> QED
    BY <1>2, <2>1
<1>5. CASE U \ {u} = {}
  <2>1. First(U, u)
    BY <1>5
  <2> QED
    BY <2>1
<1>6. CASE U \ {u} # {}
  <2>1. PICK x \in U \ {u} : First(U \ {u}, x)
    BY <1>4, <1>6
  <2>2. <<u, x>> \in R => First(U, u)
    BY <2>1
  <2>3. <<u, x>> \notin R => First(U, x)
    BY <2>1
  <2> QED
    BY <2>1, <2>2, <2>3
<1> QED
  BY <1>5, <1>6

\* The order of the plan is a strict total one.
LEMMA BeforeTransitive ==
    ASSUME TypeOK, NEW a \in Tasks, NEW b \in Tasks, NEW c \in Tasks,
           Before(a, b), Before(b, c)
    PROVE  Before(a, c)
BY TasksAssumption, PriorityAssumption DEF TypeOK, Before

LEMMA BeforeTotal ==
    ASSUME TypeOK, NEW a \in Tasks, NEW b \in Tasks, a # b, ~Before(a, b)
    PROVE  Before(b, a)
BY TasksAssumption, PriorityAssumption DEF TypeOK, Before

\* While s.mu is held there is something to filter, or exactly one element to
\* visit next, or nothing left but to unlock.
PlanGoesOn ==
    Locked /\ scan = {} /\ queue # {} =>
        \E t \in queue : IsFirst(t) /\ \A u \in queue : IsFirst(u) => u = t

\* What a reschedule has still to look at, and to visit.
StepsLeft == 2 * Cardinality(scan) + Cardinality(queue)

\* While a handler holds s.mu nothing adds to what its reschedule has to do,
\* and every step of it takes something away.
PlanEnds ==
    [][Locked /\ Locked' =>
          /\ StepsLeft' <= StepsLeft
          /\ (\E h \in Handlers : Reschedule(h)) => StepsLeft' < StepsLeft]_vars

\* rescheduleLocked never gets stuck, and what it does next does not depend on
\* the order in which it found the entries, nor on the sorting.
THEOREM OneIsNext == Spec => []PlanGoesOn
<1>1. TypeOK => PlanGoesOn
  <2> SUFFICES ASSUME TypeOK, queue # {}
               PROVE  \E t \in queue : IsFirst(t) /\ \A u \in queue : IsFirst(u) => u = t
    BY DEF PlanGoesOn
  <2>1. queue \subseteq Tasks /\ IsFiniteSet(queue)
    BY TaskSetsFinite DEF TypeOK
  <2> DEFINE R == {p \in Tasks \X Tasks : Before(p[1], p[2])}
  <2>2. \A x, y \in queue : <<x, y>> \in R <=> Before(x, y)
    BY <2>1
  <2>3. \A x, y \in queue : Before(x, y) => ~Before(y, x)
    BY <2>1, BeforeAsymmetric
  <2>4. \A x, y, z \in queue : Before(x, y) /\ Before(y, z) => Before(x, z)
    BY <2>1, BeforeTransitive
  <2> HIDE DEF R
  <2>5. PICK t \in queue : \A y \in queue : <<y, t>> \notin R
    BY <2>1, <2>2, <2>3, <2>4, FiniteHasFirst
  <2>6. \A u \in queue \ {t} : Before(t, u)
    BY <2>1, <2>2, <2>5, BeforeTotal
  <2>7. IsFirst(t)
    BY <2>6 DEF IsFirst
  <2>8. \A u \in queue : IsFirst(u) => u = t
    BY <2>3, <2>6 DEF IsFirst
  <2> QED
    BY <2>7, <2>8
<1> QED
  BY <1>1, TypeCorrect, PTL

\* There is never more to do than to look at each entry and to visit it.
PlanBounded == StepsLeft \in 0 .. 2 * Cardinality(entries)

LEMMA PlanIsBounded ==
    ASSUME TypeOK, Discipline, PlanWithinEntries
    PROVE  PlanBounded
<1>1. /\ IsFiniteSet(scan) /\ Cardinality(scan) \in Nat
      /\ IsFiniteSet(queue) /\ Cardinality(queue) \in Nat
      /\ IsFiniteSet(entries) /\ Cardinality(entries) \in Nat
  BY TaskSetsFinite DEF TypeOK
<1>2. Cardinality(scan \cup queue) = Cardinality(scan) + Cardinality(queue)
  <2>1. Cardinality(scan \cap queue) = 0
    <3>1. scan \cap queue = {}
      BY DEF Discipline
    <3>2. Cardinality({}) = 0
      BY FS_EmptySet
    <3> QED
      BY <3>1, <3>2
  <2>2. Cardinality(scan \cup queue)
          = Cardinality(scan) + Cardinality(queue) - Cardinality(scan \cap queue)
    BY <1>1, FS_Union
  <2> QED
    BY <1>1, <2>1, <2>2
<1>3. Cardinality(scan \cup queue) <= Cardinality(entries)
  BY <1>1, FS_Subset DEF PlanWithinEntries
<1> QED
  BY <1>1, <1>2, <1>3 DEF PlanBounded, StepsLeft

\* s.mu is held for at most two steps for each entry, and the unlock, whatever
\* the engines and the other handlers do meanwhile.
THEOREM PlanComesToItsEnd == Spec => []PlanBounded /\ PlanEnds
<1> DEFINE Shrinks ==
             Locked /\ Locked' =>
                /\ StepsLeft' <= StepsLeft
                /\ (\E h \in Handlers : Reschedule(h)) => StepsLeft' < StepsLeft
<1>1. TypeOK /\ Discipline /\ [Next]_vars => Shrinks
  <2> SUFFICES ASSUME TypeOK, Discipline, [Next]_vars, Locked, Locked'
               PROVE  /\ StepsLeft' <= StepsLeft
                      /\ (\E h \in Handlers : Reschedule(h)) => StepsLeft' < StepsLeft
    OBVIOUS
  <2>0. /\ IsFiniteSet(scan) /\ Cardinality(scan) \in Nat
        /\ IsFiniteSet(queue) /\ Cardinality(queue) \in Nat
    BY TaskSetsFinite DEF TypeOK
  <2>1. ASSUME NEW h \in Handlers, NEW t \in Tasks, Filter(h, t)
        PROVE  StepsLeft' < StepsLeft
    <3>1. Cardinality(scan') = Cardinality(scan) - 1
      BY <2>0, <2>1, FS_RemoveElement DEF Filter
    <3>2. queue' = queue \/ queue' = queue \cup {t}
      BY <2>1 DEF Filter
    <3>0. Cardinality(queue \cup {t}) = IF t \in queue THEN Cardinality(queue) ELSE Cardinality(queue) + 1
      <4>1. IsFiniteSet(queue)
        BY <2>0
      <4> QED
        BY <4>1, FS_AddElement, Zenon
    <3>3. Cardinality(queue \cup {t}) <= Cardinality(queue) + 1
      <4>1. CASE t \in queue
        BY <2>0, <3>0, <4>1
      <4>2. CASE t \notin queue
        BY <2>0, <3>0, <4>2
      <4> QED
        BY <4>1, <4>2
    <3>4. Cardinality(queue \cup {t}) \in Nat
      BY <2>0, <3>0
    <3>5. Cardinality(queue') \in Nat /\ Cardinality(queue') <= Cardinality(queue) + 1
      <4>1. CASE queue' = queue
        BY <2>0, <4>1
      <4> QED
        BY <3>2, <3>3, <3>4, <4>1
    <3> QED
      BY <2>0, <3>1, <3>5 DEF StepsLeft
  <2>2. ASSUME NEW h \in Handlers, NEW t \in Tasks, GiveSlot(h, t) \/ TakeSlot(h, t)
        PROVE  StepsLeft' < StepsLeft
    <3>1. scan' = scan /\ queue' = queue \ {t} /\ t \in queue
      BY <2>2 DEF GiveSlot, TakeSlot, NextInPlan, IsFirst
    <3>2. Cardinality(queue \ {t}) = Cardinality(queue) - 1
      BY <2>0, <3>1, FS_RemoveElement
    <3> QED
      BY <2>0, <3>1, <3>2 DEF StepsLeft
  <2>3. ASSUME NEW h \in Handlers, Unlock(h)
        PROVE  FALSE
    BY <2>3 DEF Unlock, Discipline, TypeOK, Locked
  <2>4. ASSUME StartsPlan PROVE FALSE
    BY <2>4 DEF StartsPlan
  <2>5. (\E h \in Handlers : Reschedule(h)) => StepsLeft' < StepsLeft
    BY <2>1, <2>2, <2>3 DEF Reschedule
  <2>6. ASSUME NEW h \in Handlers, Request(h) PROVE StepsLeft' <= StepsLeft
    <3>1. \E t \in Tasks : ResumeFails(h, t)
      BY <2>4, <2>6, RequestStartsPlan DEF Request
    <3> QED
      BY <2>0, <3>1 DEF ResumeFails, StepsLeft
  <2>7. ASSUME \/ \E h \in Handlers : DirectResume(h) \/ Respond(h)
               \/ \E t \in Tasks : Finish(t) \/ TripKillSwitch(t)
               \/ UNCHANGED vars
        PROVE  StepsLeft' <= StepsLeft
    <3>1. UNCHANGED <<scan, queue>>
      BY <2>7 DEF DirectResume, Respond, Finish, TripKillSwitch, vars
    <3> QED
      BY <2>0, <3>1 DEF StepsLeft
  <2>8. StepsLeft' <= StepsLeft
    <3>1. Cardinality(scan') \in Nat /\ Cardinality(queue') \in Nat
      BY TaskSetsFinite, TypeStep DEF TypeOK
    <3>2. StepsLeft \in Int /\ StepsLeft' \in Int
      BY <2>0, <3>1 DEF StepsLeft
    <3>3. StepsLeft' < StepsLeft => StepsLeft' <= StepsLeft
      BY <3>2
    <3> QED
      BY <2>5, <2>6, <2>7, <3>3 DEF Next
  <2> QED
    BY <2>5, <2>8
<1>2. SchedulerInv => TypeOK /\ Discipline /\ PlanBounded
  BY PlanIsBounded DEF SchedulerInv
<1> QED
  BY <1>1, <1>2, Maintained, PTL DEF Spec, PlanEnds
=============================================================================
