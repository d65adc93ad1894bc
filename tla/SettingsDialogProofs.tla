------------------------ MODULE SettingsDialogProofs ------------------------
(***************************************************************************)
(* AloneIsRight of SettingsDialog, for any number of requests.  A step     *)
(* makes one request or moves one; the lemmas say what either does to the  *)
(* requests under way, and the invariant follows part by part.             *)
(***************************************************************************)
EXTENDS SettingsDialog, TLAPS

USE DEF dialog, crossings, dialogVars

Ats == {"unmade", "sent", "set", "answered", "failed", "done"}

\* The parts of the invariant beside the types.
Crossing == crossed /\ Pending = {} => astray

Alone ==
    ~crossed => \A n \in Pending :
          /\ \A m \in Pending : m = n
          /\ request[n].at \in {"set", "answered"} => request[n].body = current

Shown ==
    ~crossed /\ ~astray /\ loaded =>
          /\ \A n \in Pending :
                request[n].kind = "put" /\ request[n].at \in {"sent", "failed"} => request[n].before = current
          /\ (\A n \in Pending : request[n].kind = "get") => settings = current

LEMMA DialogParts == DialogInv <=> DialogTypeOK /\ Crossing /\ Alone /\ Shown
BY DEF DialogInv, Crossing, Alone, Shown

LEMMA InitDialog == DialogInit => DialogInv
<1>. SUFFICES ASSUME DialogInit PROVE DialogInv
  OBVIOUS
<1>1. Default \in Settings
  BY DEF Default, Settings
<1>2. request = [n \in Requests |-> Unmade] /\ settings = Default /\ current \in Settings
  BY DEF DialogInit
<1>3. Unmade \in [kind : {"get", "put"}, at : Ats, before : Settings, body : Settings] /\ Unmade.at = "unmade"
  BY <1>1 DEF Unmade, Ats
<1>4. Pending = {}
  BY <1>2, <1>3 DEF Pending
<1>5. shown \in BOOLEAN /\ loading \in BOOLEAN /\ loaded \in BOOLEAN /\ crossed \in BOOLEAN /\ astray \in BOOLEAN
  BY DEF DialogInit
<1>6. DialogTypeOK
  <2>1. unheard = {}
    BY DEF DialogInit
  <2>. QED
    BY <1>1, <1>2, <1>3, <1>5, <2>1 DEF DialogTypeOK, Ats
<1>7. crossed = FALSE /\ loaded = FALSE
  BY DEF DialogInit
<1>8. Crossing /\ Alone /\ Shown
  BY <1>4, <1>7 DEF Crossing, Alone, Shown
<1>. QED
  BY <1>6, <1>8, DialogParts

\* A request that is made is the only new one under way.
LEMMA Making ==
    ASSUME DialogTypeOK, NEW r, r.at = "sent", Make(r)
    PROVE  \E n \in Requests :
              /\ n \notin Pending /\ Pending' = Pending \union {n}
              /\ request' = [request EXCEPT ![n] = r]
              /\ crossed' = (Pending # {}) /\ UNCHANGED astray
<1>1. PICK n \in Requests : request[n].at = "unmade" /\ request' = [request EXCEPT ![n] = r]
  BY DEF Make
<1>2. n \notin Pending /\ Pending' = Pending \union {n}
  BY <1>1 DEF Pending, DialogTypeOK
<1>3. crossed' = (Pending # {})
  BY DEF Make
<1>4. UNCHANGED astray
  BY DEF Make
<1>. QED
  BY <1>1, <1>2, <1>3, <1>4

\* A request that is moved stays under way or is done.
LEMMA Moving ==
    ASSUME DialogTypeOK, NEW n \in Requests, n \in Pending, NEW to \in Ats \ {"unmade"}, Proceeds(n, to)
    PROVE  /\ Pending' = IF to = "done" THEN Pending \ {n} ELSE Pending
           /\ request'[n] = [request[n] EXCEPT !.at = to]
           /\ \A m \in Requests \ {n} : request'[m] = request[m]
BY DEF Proceeds, Pending, DialogTypeOK, Ats

LEMMA Replying ==
    ASSUME DialogTypeOK, NEW n \in Requests, n \in Pending, Replies(n)
    PROVE  /\ Pending' = Pending
           /\ request'[n] = [request[n] EXCEPT !.at = "answered", !.body = current]
           /\ \A m \in Requests \ {n} : request'[m] = request[m]
BY DEF Replies, Pending, DialogTypeOK

Types == [kind : {"get", "put"}, at : Ats, before : Settings, body : Settings]

LEMMA TypeStep == ASSUME DialogTypeOK, DialogNext PROVE DialogTypeOK'
<1>. USE DEF DialogTypeOK, Ats
<1>0. Default \in Settings /\ \A field \in DOMAIN Default : [settings EXCEPT ![field] = ~@] \in Settings
  BY DEF Default, Settings
<1>1. CASE OpenSettings
  <2>1. PICK n \in Requests : request' = [request EXCEPT ![n] = [Unmade EXCEPT !.at = "sent"]]
    BY <1>1 DEF OpenSettings, Make
  <2>2. [Unmade EXCEPT !.at = "sent"] \in Types
    BY <1>0 DEF Unmade, Types
  <2>3. request' \in [Requests -> Types]
    BY <2>1, <2>2 DEF Types
  <2>4. shown' \in BOOLEAN /\ loading' \in BOOLEAN /\ crossed' \in BOOLEAN
    BY <1>1 DEF OpenSettings, Make
  <2>5. UNCHANGED <<current, loaded, settings, unheard, astray>>
    BY <1>1 DEF OpenSettings, Make
  <2>. QED
    BY <2>3, <2>4, <2>5 DEF Types
<1>2. CASE CloseSettings
  BY <1>2 DEF CloseSettings
<1>3. ASSUME NEW field \in DOMAIN Default, Update(field)
      PROVE  DialogTypeOK'
  <2>1. settings' \in Settings
    BY <1>0, <1>3 DEF Update
  <2>2. PICK n \in Requests :
           request' = [request EXCEPT ![n] = [kind |-> "put", at |-> "sent", before |-> settings, body |-> settings']]
    BY <1>3 DEF Update, Make
  <2>3. request' \in [Requests -> Types]
    BY <2>1, <2>2 DEF Types
  <2>4. crossed' \in BOOLEAN
    BY <1>3 DEF Update, Make
  <2>5. UNCHANGED <<current, shown, loading, loaded, unheard, astray>>
    BY <1>3 DEF Update, Make
  <2>. QED
    BY <2>1, <2>3, <2>4, <2>5 DEF Types
<1>4. ASSUME NEW n \in Requests, HandleGet(n) \/ HandlePut(n)
      PROVE  DialogTypeOK'
  BY <1>4 DEF HandleGet, HandlePut, Replies
<1>5. ASSUME NEW n \in Requests, Set(n)
      PROVE  DialogTypeOK'
  <2>1. current' \in Settings /\ request' \in [Requests -> Types]
    BY <1>5 DEF Set, Proceeds, Types
  <2>2. UNCHANGED <<dialog, unheard, crossings>>
    BY <1>5 DEF Set
  <2>. QED
    BY <2>1, <2>2 DEF Types
<1>6. ASSUME NEW n \in Requests, Fails(n)
      PROVE  DialogTypeOK'
  <2>1. request' \in [Requests -> Types] /\ UNCHANGED <<current, dialog, crossed>>
    BY <1>6 DEF Fails, Proceeds, Types
  <2>2. astray' \in BOOLEAN /\ unheard' \subseteq Requests
    BY <1>6 DEF Fails
  <2>. QED
    BY <2>1, <2>2 DEF Types
<1>7. ASSUME NEW n \in Requests, ShowAnswer(n) \/ Revert(n)
      PROVE  DialogTypeOK'
  <2>1. request' \in [Requests -> Types] /\ UNCHANGED <<current, shown, unheard, crossed>>
    BY <1>7 DEF ShowAnswer, Revert, Proceeds, Types
  <2>2. settings' \in Settings
    BY <1>7 DEF ShowAnswer, Revert
  <2>3. loading' \in BOOLEAN /\ loaded' \in BOOLEAN /\ astray' \in BOOLEAN
    BY <1>7 DEF ShowAnswer, Revert
  <2>. QED
    BY <2>1, <2>2, <2>3 DEF Types
<1>8. ASSUME NEW n \in Requests, CarriedOutLate(n)
      PROVE  DialogTypeOK'
  <2>1. current' \in Settings /\ unheard' \subseteq Requests
    BY <1>8 DEF CarriedOutLate
  <2>2. crossed' \in BOOLEAN /\ astray' \in BOOLEAN
    BY <1>8 DEF CarriedOutLate
  <2>3. UNCHANGED <<dialog, request>>
    BY <1>8 DEF CarriedOutLate
  <2>. QED
    BY <2>1, <2>2, <2>3
<1>. QED
  BY <1>1, <1>2, <1>3, <1>4, <1>5, <1>6, <1>7, <1>8 DEF DialogNext

\* A step that makes a request: the request is alone if no other is under way,
\* and is taken back to what was shown.
LEMMA MakeStep ==
    ASSUME DialogTypeOK, Crossing, Alone, Shown, NEW r, r.at = "sent", Make(r), UNCHANGED <<current, loaded>>,
           r.kind = "get" => settings' = settings,
           r.kind = "put" => r.before = settings,
           r.kind \in {"get", "put"}
    PROVE  Crossing' /\ Alone' /\ Shown'
<1>1. PICK n \in Requests :
              /\ n \notin Pending /\ Pending' = Pending \union {n}
              /\ request' = [request EXCEPT ![n] = r]
              /\ crossed' = (Pending # {}) /\ UNCHANGED astray
  BY Making
<1>2. request'[n] = r
  BY <1>1 DEF DialogTypeOK
<1>3. Crossing'
  BY <1>1 DEF Crossing
<1>4. ASSUME ~crossed'
      PROVE  /\ Pending = {} /\ Pending' = {n}
             /\ ~astray' /\ loaded' => settings = current
  BY <1>1, <1>4 DEF Crossing, Shown
<1>5. Alone'
  BY <1>2, <1>4 DEF Alone
<1>6. Shown'
  BY <1>2, <1>4 DEF Shown
<1>. QED
  BY <1>3, <1>5, <1>6

LEMMA PartsStep == ASSUME DialogTypeOK, Crossing, Alone, Shown, DialogNext PROVE Crossing' /\ Alone' /\ Shown'
<1>1. CASE OpenSettings
  <2>1. Make([Unmade EXCEPT !.at = "sent"]) /\ UNCHANGED <<current, loaded, settings>>
    BY <1>1 DEF OpenSettings
  <2>2. [Unmade EXCEPT !.at = "sent"].at = "sent" /\ [Unmade EXCEPT !.at = "sent"].kind = "get"
    BY DEF Unmade
  <2>. QED
    BY <2>1, <2>2, MakeStep
<1>2. CASE CloseSettings
  BY <1>2 DEF CloseSettings, Crossing, Alone, Shown, Pending
<1>3. ASSUME NEW field \in DOMAIN Default, Update(field)
      PROVE  Crossing' /\ Alone' /\ Shown'
  <2>. DEFINE r == [kind |-> "put", at |-> "sent", before |-> settings, body |-> [settings EXCEPT ![field] = ~@]]
  <2>1. Make(r) /\ UNCHANGED <<current, loaded>>
    BY <1>3 DEF Update
  <2>2. r.at = "sent" /\ r.kind = "put" /\ r.before = settings
    OBVIOUS
  <2>. HIDE DEF r
  <2>. QED
    BY <2>1, <2>2, MakeStep
<1>4. ASSUME NEW n \in Requests, HandleGet(n) \/ HandlePut(n)
      PROVE  Crossing' /\ Alone' /\ Shown'
  <2>1. n \in Pending /\ Replies(n) /\ UNCHANGED <<current, dialog, crossings>>
    BY <1>4 DEF HandleGet, HandlePut, Pending
  <2>2. /\ Pending' = Pending
        /\ request'[n].at = "answered" /\ request'[n].body = current /\ request'[n].kind = request[n].kind
        /\ \A m \in Requests \ {n} : request'[m] = request[m]
    <3>1. /\ Pending' = Pending
          /\ request'[n] = [request[n] EXCEPT !.at = "answered", !.body = current]
          /\ \A m \in Requests \ {n} : request'[m] = request[m]
      BY <2>1, Replying
    <3>2. request[n] \in Types
      BY DEF DialogTypeOK, Types, Ats
    <3>. QED
      BY <3>1, <3>2 DEF Types
  <2>3. Pending \subseteq Requests
    BY DEF Pending
  <2>4. Crossing'
    BY <2>1, <2>2 DEF Crossing
  <2>5. Alone'
    BY <2>1, <2>2, <2>3 DEF Alone
  <2>6. Shown'
    BY <2>1, <2>2, <2>3 DEF Shown
  <2>. QED
    BY <2>4, <2>5, <2>6
<1>5. ASSUME NEW n \in Requests, Set(n)
      PROVE  Crossing' /\ Alone' /\ Shown'
  <2>1. /\ n \in Pending /\ Proceeds(n, "set") /\ UNCHANGED <<dialog, crossings>>
        /\ current' = request[n].body /\ request[n].kind = "put"
    BY <1>5 DEF Set, Pending
  <2>2. /\ Pending' = Pending
        /\ request'[n] = [request[n] EXCEPT !.at = "set"]
        /\ \A m \in Requests \ {n} : request'[m] = request[m]
    BY <2>1, Moving DEF Ats
  <2>3. request'[n].at = "set" /\ request'[n].body = current' /\ request'[n].kind = "put"
    BY <2>1, <2>2 DEF DialogTypeOK
  <2>4. Crossing'
    BY <2>1, <2>2 DEF Crossing
  <2>5. ~crossed => Pending = {n}
    BY <2>1 DEF Alone
  <2>6. Alone'
    BY <2>1, <2>2, <2>3, <2>5 DEF Alone
  <2>7. Shown'
    BY <2>1, <2>2, <2>3, <2>5 DEF Shown
  <2>. QED
    BY <2>4, <2>6, <2>7
<1>6. ASSUME NEW n \in Requests, Fails(n)
      PROVE  Crossing' /\ Alone' /\ Shown'
  <2>1. /\ n \in Pending /\ Proceeds(n, "failed") /\ UNCHANGED <<current, dialog, crossed>>
        /\ astray => astray'
        /\ ~astray' /\ request[n].kind = "put" => request[n].at = "sent"
    BY <1>6 DEF Fails, Pending
  <2>2. /\ Pending' = Pending
        /\ request'[n] = [request[n] EXCEPT !.at = "failed"]
        /\ \A m \in Requests \ {n} : request'[m] = request[m]
    BY <2>1, Moving DEF Ats
  <2>3. request'[n].at = "failed" /\ request'[n].before = request[n].before /\ request'[n].kind = request[n].kind
    BY <2>2 DEF DialogTypeOK
  <2>4. Pending \subseteq Requests
    BY DEF Pending
  <2>5. Crossing'
    BY <2>1, <2>2 DEF Crossing
  <2>6. Alone'
    BY <2>1, <2>2, <2>3, <2>4 DEF Alone
  <2>7. Shown'
    BY <2>1, <2>2, <2>3, <2>4 DEF Shown
  <2>. QED
    BY <2>5, <2>6, <2>7
<1>7. ASSUME NEW n \in Requests, ShowAnswer(n)
      PROVE  Crossing' /\ Alone' /\ Shown'
  <2>1. /\ n \in Pending /\ Proceeds(n, "done") /\ UNCHANGED <<current, crossed>>
        /\ astray' = crossed /\ settings' = request[n].body /\ request[n].at = "answered"
    BY <1>7 DEF ShowAnswer, Pending
  <2>2. Pending' = Pending \ {n}
    BY <2>1, Moving DEF Ats
  <2>3. ~crossed => Pending' = {} /\ settings' = current'
    BY <2>1, <2>2 DEF Alone
  <2>4. Crossing'
    BY <2>1 DEF Crossing
  <2>5. Alone'
    BY <2>1, <2>3 DEF Alone
  <2>6. Shown'
    BY <2>1, <2>3 DEF Shown
  <2>. QED
    BY <2>4, <2>5, <2>6
<1>8. ASSUME NEW n \in Requests, Revert(n)
      PROVE  Crossing' /\ Alone' /\ Shown'
  <2>1. /\ n \in Pending /\ Proceeds(n, "done") /\ UNCHANGED <<current, crossed, loaded>>
        /\ astray' = (astray \/ crossed) /\ request[n].at = "failed"
        /\ settings' = IF request[n].kind = "put" THEN request[n].before ELSE settings
    BY <1>8 DEF Revert, Pending
  <2>2. Pending' = Pending \ {n}
    BY <2>1, Moving DEF Ats
  <2>3. ~crossed => Pending = {n} /\ Pending' = {}
    BY <2>1, <2>2 DEF Alone
  <2>4. ~crossed /\ ~astray /\ loaded => settings' = current'
    <3>1. CASE request[n].kind = "put"
      BY <2>1, <3>1 DEF Shown
    <3>2. CASE request[n].kind = "get"
      BY <2>1, <2>3, <3>2 DEF Shown
    <3>. QED
      BY <3>1, <3>2 DEF DialogTypeOK
  <2>5. Crossing'
    BY <2>1 DEF Crossing
  <2>6. Alone'
    BY <2>1, <2>3 DEF Alone
  <2>7. Shown'
    BY <2>1, <2>3, <2>4 DEF Shown
  <2>. QED
    BY <2>5, <2>6, <2>7
<1>9. ASSUME NEW n \in Requests, CarriedOutLate(n)
      PROVE  Crossing' /\ Alone' /\ Shown'
  <2>1. Pending' = Pending /\ astray' /\ (Pending # {} => crossed')
    BY <1>9 DEF CarriedOutLate, Pending
  <2>2. Crossing' /\ Shown'
    BY <2>1 DEF Crossing, Shown
  <2>3. Alone'
    BY <2>1 DEF Alone
  <2>. QED
    BY <2>2, <2>3
<1>. QED
  BY <1>1, <1>2, <1>3, <1>4, <1>5, <1>6, <1>7, <1>8, <1>9 DEF DialogNext

-----------------------------------------------------------------------------
\* As long as requests are made one at a time, what is under way can be told
\* from what is in force, and what is shown is one or the other.
THEOREM Followed == DialogSpec => []DialogInv
<1>1. ASSUME DialogInv, [DialogNext]_dialogVars
      PROVE  DialogInv'
  <2>1. CASE DialogNext
    <3>1. DialogTypeOK' /\ Crossing' /\ Alone' /\ Shown'
      BY <1>1, <2>1, DialogParts, TypeStep, PartsStep
    <3>. QED
      BY <3>1 DEF DialogInv, Crossing, Alone, Shown
  <2>2. CASE UNCHANGED dialogVars
    BY <1>1, <2>2 DEF DialogInv, DialogTypeOK, Pending
  <2>. QED
    BY <1>1, <2>1, <2>2
<1>. QED
  BY <1>1, InitDialog, PTL DEF DialogSpec

\* With nothing under way the dialog shows what the server enforces, if no
\* request has gone astray since one that was alone succeeded.
THEOREM AloneRight == DialogSpec => []AloneIsRight
<1>1. DialogInv => AloneIsRight
  BY DEF DialogInv, AloneIsRight
<1>. QED
  BY <1>1, Followed, PTL
=============================================================================
