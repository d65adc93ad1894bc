---------------------------- MODULE MCScheduler ----------------------------
(***************************************************************************)
(* Instances of Scheduler for TLC.                                         *)
(***************************************************************************)
EXTENDS Scheduler, TLC

\* Task 2 outranks tasks 1 and 3, which only age and ID tell apart.
MCPriority == [t \in Tasks |-> IF t = 2 THEN 5 ELSE 0]

HandlerSymmetry == Permutations(Handlers)

\* No action asks more of a request than whether it adds a task and which; no
\* invariant but the typing mentions the rest.
View ==
    <<entries, addedAt, status, pc,
      [h \in Handlers |-> IF op[h].kind = "add" THEN op[h] ELSE NoOp],
      scan, queue, index, overlapped, stray, lapsed>>
=============================================================================
