---------------------------- MODULE TaskContract ----------------------------
(***************************************************************************)
(* What the scheduler may expect of one task.Task, whatever its engine: a  *)
(* task runs only when resumed, ends by itself only while it runs, and a   *)
(* cancelled task stays cancelled.  The engine modules are shown to        *)
(* implement it, or not to, for the callers they are given.                *)
(***************************************************************************)
CONSTANT StartMayFail   \* a Boolean: Resume itself may fail, as a torrent's does

VARIABLE status   \* task.Status

Init == status = "pending"

Start ==
    /\ status \in {"pending", "paused", "error"}
    /\ status' \in {"active"} \cup (IF StartMayFail THEN {"error"} ELSE {})

Stop == status = "active" /\ status' = "paused"

\* The transfer ends by itself; while it runs, and only then.
End == status = "active" /\ status' \in {"complete", "error"}

Cancel == status' = "cancelled"

Next == Start \/ Stop \/ End \/ Cancel

Spec == Init /\ [][Next]_status
=============================================================================
