---------------------------- MODULE SettingsStore ----------------------------
(***************************************************************************)
(* settings.Store and the two handlers that use it: PUT /settings, whose   *)
(* Set changes the policy in memory under the lock and then writes         *)
(* settings.json without it, and POST /torrents, which asks the policy     *)
(* once and goes on.  The process may crash at any moment, and NewStore    *)
(* takes up the file or refuses to start.                                  *)
(***************************************************************************)
EXTENDS Naturals, FiniteSets, FiniteSetsExt

CONSTANT Handlers   \* goroutines serving requests

ASSUME HandlersAssumption == IsFiniteSet(Handlers)

VARIABLES
    process,    \* up, down, or refused: NewStore could not read the file
    current,    \* Store.current
    file,       \* settings.json: what it begins with, and how long it is
    pc,         \* where each handler is
    next,       \* the settings a PUT is about
    proxied,    \* whether the torrent a POST is about has a proxy
    inForce,    \* history: the policies in force since a POST came in
    answered,   \* history: the settings of the last PUT that was answered 200
    disturbed   \* history: since the last PUT that found no other under way,
                \* one came while it was, or failed, or crashed

requests == <<pc, next, proxied, inForce>>
vars == <<process, current, file, requests, answered, disturbed>>

Settings == [allowTorrents : BOOLEAN, requireProxy : BOOLEAN]
Default == [allowTorrents |-> TRUE, requireProxy |-> FALSE]

\* The length of the JSON text, beyond what all have: "false" is one longer
\* than "true".
Length(s) == 1 + Cardinality({f \in DOMAIN s : ~s[f]})

\* A file that was written in one go.
Saved(s) == [text |-> s, length |-> Length(s)]

\* json.Unmarshal rejects what a longer text has left behind a shorter one,
\* and the empty file.
Readable(f) == f.length = Length(f.text)

\* Without a file the settings are the default ones: Saved(Default) is also
\* how the model writes that there is none.
Init ==
    /\ process = "up"
    /\ current = Default
    /\ file = Saved(Default)
    /\ pc = [h \in Handlers |-> "idle"]
    /\ next = [h \in Handlers |-> Default]
    /\ proxied = [h \in Handlers |-> FALSE]
    /\ inForce = [h \in Handlers |-> {}]
    /\ answered = Default
    /\ disturbed = FALSE

TypeOK ==
    /\ process \in {"up", "down", "refused"}
    /\ current \in Settings
    /\ file \in [text : Settings, length : 0 .. 3]
    /\ pc \in [Handlers -> {"idle", "save", "write", "check", "add"}]
    /\ next \in [Handlers -> Settings]
    /\ proxied \in [Handlers -> BOOLEAN]
    /\ inForce \in [Handlers -> SUBSET Settings]
    /\ answered \in Settings
    /\ disturbed \in BOOLEAN

\* h answers its request.
Answer(h) ==
    /\ pc' = [pc EXCEPT ![h] = "idle"]
    /\ next' = [next EXCEPT ![h] = Default]
    /\ proxied' = [proxied EXCEPT ![h] = FALSE]
    /\ inForce' = [inForce EXCEPT ![h] = {}]

\* The PUTs between their change of the memory and their answer.
Saving == {h \in Handlers : pc[h] \in {"save", "write"}}

-----------------------------------------------------------------------------
(* PUT /settings.                                                          *)

Set(h, s) ==
    /\ process = "up" /\ pc[h] = "idle"
    /\ current' = s
    /\ pc' = [pc EXCEPT ![h] = "save"]
    /\ next' = [next EXCEPT ![h] = s]
    /\ inForce' = [g \in Handlers |->
                     IF pc[g] = "check" THEN inForce[g] \cup {s} ELSE inForce[g]]
    /\ disturbed' = (Saving # {})
    /\ UNCHANGED <<process, file, proxied, answered>>

\* Fault for RefusedOnlyWhenDisturbed: the file is opened without O_TRUNC.
OpenFileUntruncated(h) ==
    /\ pc[h] = "save"
    /\ pc' = [pc EXCEPT ![h] = "write"]
    /\ UNCHANGED <<process, current, file, next, proxied, inForce, answered, disturbed>>

\* os.WriteFile opens the file and truncates it ...
OpenFile(h) ==
    /\ pc[h] = "save"
    /\ pc' = [pc EXCEPT ![h] = "write"]
    /\ file' = [file EXCEPT !.length = 0]
    /\ UNCHANGED <<process, current, next, proxied, inForce, answered, disturbed>>

\* ... and writes at its beginning, over what another PUT may have written
\* since.  The request is answered.
WriteFile(h) ==
    /\ pc[h] = "write"
    /\ Answer(h)
    /\ file' = [text |-> next[h], length |-> Max({file.length, Length(next[h])})]
    /\ answered' = next[h]
    /\ UNCHANGED <<process, current, disturbed>>

\* The new settings stay in force although the request is answered 500.
SaveFails(h) ==
    /\ h \in Saving
    /\ Answer(h)
    /\ disturbed' = TRUE
    /\ UNCHANGED <<process, current, file, answered>>

-----------------------------------------------------------------------------
(* POST /torrents, up to the call of Enqueue.                              *)

Post(h, proxy) ==
    /\ process = "up" /\ pc[h] = "idle"
    /\ pc' = [pc EXCEPT ![h] = "check"]
    /\ proxied' = [proxied EXCEPT ![h] = proxy]
    /\ inForce' = [inForce EXCEPT ![h] = {current}]
    /\ UNCHANGED <<process, current, file, next, answered, disturbed>>

Permits(s, proxy) == s.allowTorrents /\ (s.requireProxy => proxy)

\* A torrent that is not permitted is answered 403 or 400.
Decide(h, policy) ==
    /\ pc[h] = "check"
    /\ IF Permits(policy, proxied[h])
       THEN pc' = [pc EXCEPT ![h] = "add"] /\ UNCHANGED <<next, proxied, inForce>>
       ELSE Answer(h)
    /\ UNCHANGED <<process, current, file, answered, disturbed>>

\* Fault for AdmittedByOnePolicy: the policy is the one on disk.
CheckOnDisk(h) == Decide(h, file.text)

\* One Get for both questions.
Check(h) == Decide(h, current)

\* NewTask, Enqueue and Resume, whatever the policy is by now.
Add(h) ==
    /\ pc[h] = "add"
    /\ Answer(h)
    /\ UNCHANGED <<process, current, file, answered, disturbed>>

-----------------------------------------------------------------------------
(* A crash, and NewStore.                                                  *)

Crash ==
    /\ process = "up"
    /\ process' = "down"
    /\ current' = Default
    /\ pc' = [h \in Handlers |-> "idle"]
    /\ next' = [h \in Handlers |-> Default]
    /\ proxied' = [h \in Handlers |-> FALSE]
    /\ inForce' = [h \in Handlers |-> {}]
    /\ disturbed' = (disturbed \/ Saving # {})
    /\ UNCHANGED <<file, answered>>

\* Fault for PolicySurvives: the file is not read when there is one.
RestartForgets ==
    /\ process = "down"
    /\ process' = "up"
    /\ current' = Default
    /\ UNCHANGED <<file, requests, answered, disturbed>>

Restart ==
    /\ process = "down"
    /\ IF Readable(file)
       THEN process' = "up" /\ current' = file.text
       ELSE process' = "refused" /\ UNCHANGED current
    /\ UNCHANGED <<file, requests, answered, disturbed>>

-----------------------------------------------------------------------------
Next ==
    \/ \E h \in Handlers :
          \/ \E s \in Settings : Set(h, s)
          \/ OpenFile(h) \/ WriteFile(h) \/ SaveFails(h)
          \/ \E proxy \in BOOLEAN : Post(h, proxy)
          \/ Check(h) \/ Add(h)
    \/ Crash \/ Restart

Spec == Init /\ [][Next]_vars

-----------------------------------------------------------------------------
\* Store's comment (settings.go:34-35), for PUTs that come one after the
\* other: what the last one was answered for is in force and on disk, after
\* any crash and restart too.
PolicySurvives ==
    process = "up" /\ Saving = {} /\ ~disturbed =>
        current = answered /\ file = Saved(answered)

\* The server finds settings it cannot read, and does not start, only after
\* PUTs have overlapped, or one has failed or was under way in a crash.
RefusedOnlyWhenDisturbed == process = "refused" => disturbed

\* handleAddTorrent's comment: a torrent is added only as the policy allows.
\* The policy may change any number of times meanwhile, but one that was in
\* force during the request has allowed this very torrent.
AdmittedByOnePolicy ==
    \A h \in Handlers :
        pc[h] = "add" => \E s \in inForce[h] : Permits(s, proxied[h])
=============================================================================
