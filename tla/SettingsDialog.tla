--------------------------- MODULE SettingsDialog ---------------------------
(***************************************************************************)
(* The settings dialog of the page, SettingsModal, and the two handlers it *)
(* calls.  It shows a change before the server has heard of it, and        *)
(* nothing keeps a second request from crossing the first: neither on its  *)
(* way to the server nor on its way back.  How the store saves is in       *)
(* SettingsStore; here a save succeeds or fails.                           *)
(***************************************************************************)
EXTENDS Naturals

CONSTANT MaxRequests   \* bound: how many requests the dialog makes

ASSUME MaxRequestsAssumption == MaxRequests \in Nat \ {0}

VARIABLES
    current,   \* settings.Store.current, on the server
    shown,      \* whether the dialog is open
    loading,   \* it shows that it is loading
    loaded,    \* its settings are not null
    settings,  \* the settings it shows
    request,   \* each request, and where it is
    unheard,   \* changes the page has given up and the server may carry out
    crossed,   \* history: since one was made alone, another was made, or carried
               \* out late, beside it
    astray     \* history: a request has crossed another, or taken effect and
               \* failed, and none that was alone has succeeded since

dialog == <<shown, loading, loaded, settings>>
crossings == <<crossed, astray>>
dialogVars == <<current, dialog, request, unheard, crossings>>

Requests == 1 .. MaxRequests
Settings == [allowTorrents : BOOLEAN, requireProxy : BOOLEAN]
Default == [allowTorrents |-> TRUE, requireProxy |-> FALSE]

\* before: what is shown again if it fails.  body: what a PUT is about, and
\* then the answer.
Unmade == [kind |-> "get", at |-> "unmade", before |-> Default, body |-> Default]

Pending == {n \in Requests : request[n].at \notin {"unmade", "done"}}

DialogTypeOK ==
    /\ current \in Settings /\ settings \in Settings
    /\ shown \in BOOLEAN /\ loading \in BOOLEAN /\ loaded \in BOOLEAN
    /\ request \in [Requests ->
          [kind : {"get", "put"}, at : {"unmade", "sent", "set", "answered", "failed", "done"},
           before : Settings, body : Settings]]
    /\ unheard \subseteq Requests
    /\ crossed \in BOOLEAN /\ astray \in BOOLEAN

\* Whatever the server's settings are, the page does not know them.
DialogInit ==
    /\ current \in Settings
    /\ shown = FALSE /\ loading = FALSE /\ loaded = FALSE /\ settings = Default
    /\ request = [n \in Requests |-> Unmade]
    /\ unheard = {}
    /\ crossed = FALSE /\ astray = FALSE

-----------------------------------------------------------------------------
(* What the user does.                                                     *)

Make(r) ==
    \E n \in Requests :
        /\ request[n].at = "unmade" /\ \A m \in Requests : m < n => request[m].at # "unmade"
        /\ request' = [request EXCEPT ![n] = r]
        /\ crossed' = (Pending # {})
        /\ UNCHANGED <<unheard, astray>>

\* The effect of `open': the settings are asked for every time.
OpenSettings ==
    /\ ~shown
    /\ Make([Unmade EXCEPT !.at = "sent"])
    /\ shown' = TRUE /\ loading' = TRUE
    /\ UNCHANGED <<current, loaded, settings>>

\* What is under way goes on without the dialog.
CloseSettings ==
    /\ shown
    /\ shown' = FALSE
    /\ UNCHANGED <<current, loading, loaded, settings, request, unheard, crossings>>

\* update: the change is shown at once.
Update(field) ==
    /\ shown /\ ~loading /\ loaded
    /\ LET next == [settings EXCEPT ![field] = ~@]
       IN  /\ settings' = next
           /\ Make([kind |-> "put", at |-> "sent", before |-> settings, body |-> next])
    /\ UNCHANGED <<current, shown, loading, loaded>>

-----------------------------------------------------------------------------
(* What the server does.                                                   *)

Proceeds(n, to) == request' = [request EXCEPT ![n].at = to]

Replies(n) == request' = [request EXCEPT ![n].at = "answered", ![n].body = current]

HandleGet(n) ==
    /\ request[n].at = "sent" /\ request[n].kind = "get"
    /\ Replies(n)
    /\ UNCHANGED <<current, dialog, unheard, crossings>>

\* Store.Set: in memory first ...
Set(n) ==
    /\ request[n].at = "sent" /\ request[n].kind = "put"
    /\ current' = request[n].body
    /\ Proceeds(n, "set")
    /\ UNCHANGED <<dialog, unheard, crossings>>

\* ... and once it is saved the answer is what is in force by then.
HandlePut(n) ==
    /\ request[n].at = "set"
    /\ Replies(n)
    /\ UNCHANGED <<current, dialog, unheard, crossings>>

\* The save fails, or the network: after the server has done what was asked,
\* before it, or without the server ever hearing of it.
Fails(n) ==
    /\ request[n].at \in {"sent", "set", "answered"}
    /\ Proceeds(n, "failed")
    /\ unheard' = IF request[n].kind = "put" /\ request[n].at = "sent" THEN unheard \cup {n} ELSE unheard
    /\ astray' = (astray \/ (request[n].kind = "put" /\ request[n].at # "sent"))
    /\ UNCHANGED <<current, dialog, crossed>>

\* A change that the page has given up reaches the server after all.
CarriedOutLate(n) ==
    /\ n \in unheard
    /\ unheard' = unheard \ {n}
    /\ current' = request[n].body
    /\ crossed' = (crossed \/ Pending # {})
    /\ astray' = TRUE
    /\ UNCHANGED <<dialog, request>>

-----------------------------------------------------------------------------
(* What the dialog does with the answers.                                  *)

\* It shows the answer, whichever request it belongs to.
ShowAnswer(n) ==
    /\ request[n].at = "answered"
    /\ settings' = request[n].body
    /\ loaded' = TRUE
    /\ loading' = (loading /\ request[n].kind = "put")
    /\ Proceeds(n, "done")
    /\ astray' = crossed
    /\ UNCHANGED <<current, shown, unheard, crossed>>

\* Fault for AloneIsRight: the change stays shown.
KeepShown(n) ==
    /\ request[n].at = "failed"
    /\ loading' = (loading /\ request[n].kind = "put")
    /\ Proceeds(n, "done")
    /\ astray' = (astray \/ crossed)
    /\ UNCHANGED <<current, shown, loaded, settings, unheard, crossed>>

\* A change that failed is taken back: what the dialog showed before it is
\* shown again.
Revert(n) ==
    /\ request[n].at = "failed"
    /\ settings' = IF request[n].kind = "put" THEN request[n].before ELSE settings
    /\ loading' = (loading /\ request[n].kind = "put")
    /\ Proceeds(n, "done")
    /\ astray' = (astray \/ crossed)
    /\ UNCHANGED <<current, shown, loaded, unheard, crossed>>

-----------------------------------------------------------------------------
DialogNext ==
    \/ OpenSettings \/ CloseSettings \/ \E field \in DOMAIN Default : Update(field)
    \/ \E n \in Requests :
          HandleGet(n) \/ Set(n) \/ HandlePut(n) \/ Fails(n) \/ CarriedOutLate(n)
          \/ ShowAnswer(n) \/ Revert(n)

DialogSpec == DialogInit /\ [][DialogNext]_dialogVars

-----------------------------------------------------------------------------
\* The inductive invariant.  As long as requests are made one at a time: an
\* answer is what is in force; a change the server has not heard of can be taken
\* back to what is in force; and otherwise the dialog shows it.
DialogInv ==
    /\ DialogTypeOK
    /\ crossed /\ Pending = {} => astray
    /\ ~crossed => \A n \in Pending :
          /\ \A m \in Pending : m = n
          /\ request[n].at \in {"set", "answered"} => request[n].body = current
    /\ ~crossed /\ ~astray /\ loaded =>
          /\ \A n \in Pending :
                request[n].kind = "put" /\ request[n].at \in {"sent", "failed"} => request[n].before = current
          /\ (\A n \in Pending : request[n].kind = "get") => settings = current

\* With nothing under way the dialog shows what the server enforces, once a
\* request that crossed no other has succeeded, whatever came before it, and
\* as long as none has crossed another or failed after it took effect.
AloneIsRight ==
    Pending = {} /\ loaded /\ ~astray => settings = current
=============================================================================
