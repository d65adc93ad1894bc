----------------------------- MODULE MCDialogs -----------------------------
(***************************************************************************)
(* The two dialogs of the page, of which a behaviour uses one: they share  *)
(* nothing.  Three items that differ in what becomes of them, for          *)
(* AddDialog.                                                              *)
(***************************************************************************)
EXTENDS AddDialog, SettingsDialog

VARIABLE used   \* the dialog that is used

MCItems == {"link", "file", "booth"}
MCKind == [i \in MCItems |-> i]

MCInit ==
    /\ used \in {"add", "settings"}
    /\ Init /\ DialogInit
    /\ used = "add" => current = Default

MCNext ==
    \/ used = "add" /\ Next /\ UNCHANGED <<dialogVars, used>>
    \/ used = "settings" /\ DialogNext /\ UNCHANGED <<vars, used>>

\* The fairness is AddDialog's.
MCSpec == MCInit /\ [][MCNext]_<<vars, dialogVars, used>> /\ WF_vars(Page) /\ WF_vars(Server)
=============================================================================
