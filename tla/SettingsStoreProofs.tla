------------------------- MODULE SettingsStoreProofs -------------------------
(***************************************************************************)
(* The settings survive, and torrents are admitted by one policy, for any  *)
(* number of handlers.                                                     *)
(***************************************************************************)
EXTENDS SettingsStore, FiniteSetTheorems, TLAPS

\* Handlers are at work only in a process that is up.
AtWorkOnlyUp == process # "up" => \A h \in Handlers : pc[h] = "idle"

\* Since the last PUT that was alone there is at most this one under way, and
\* what it is about is in force; with none, it was answered and is on disk.
Undisturbed ==
    ~disturbed =>
        /\ process # "refused"
        /\ \A h \in Saving : Saving = {h} /\ next[h] = current
        /\ \A h \in Saving : pc[h] = "write" => file.length = 0
        /\ Saving = {} => file = Saved(answered)
        /\ Saving = {} /\ process = "up" => current = answered

\* A POST that is being checked knows the policy that is in force now.
KnowsPolicy == \A h \in Handlers : pc[h] = "check" => current \in inForce[h]

SettingsInv ==
    TypeOK /\ AtWorkOnlyUp /\ Undisturbed /\ KnowsPolicy /\ AdmittedByOnePolicy

-----------------------------------------------------------------------------
\* The text has one of three lengths.
LEMMA LengthType == \A s \in Settings : Length(s) \in 1 .. 3
<1> TAKE s \in Settings
<1> DEFINE keys == {"allowTorrents", "requireProxy"}
           off == {f \in DOMAIN s : ~s[f]}
<1>1. DOMAIN s = keys
  BY DEF Settings
<1>2. IsFiniteSet(keys) /\ Cardinality(keys) <= 2
  <2>1. IsFiniteSet({"allowTorrents"}) /\ Cardinality({"allowTorrents"}) = 1
    BY FS_Singleton
  <2>2. keys = {"allowTorrents"} \cup {"requireProxy"}
    OBVIOUS
  <2> HIDE DEF keys
  <2> QED
    BY <2>1, <2>2, FS_AddElement
<1>3. off \in SUBSET keys
  BY <1>1
<1> HIDE DEF keys, off
<1>4. IsFiniteSet(off) /\ Cardinality(off) <= 2
  BY <1>2, <1>3, FS_Subset, FS_CardinalityType
<1>5. Cardinality(off) \in Nat
  BY <1>4, FS_CardinalityType
<1> QED
  BY <1>4, <1>5 DEF Length, off

LEMMA MaxOfTwo ==
    ASSUME NEW a \in Nat, NEW b \in Nat
    PROVE  Max({a, b}) = IF a < b THEN b ELSE a
<1>1. \E x \in {a, b} : \A y \in {a, b} : x >= y
  OBVIOUS
<1>2. Max({a, b}) \in {a, b} /\ \A y \in {a, b} : Max({a, b}) >= y
  BY <1>1 DEF Max
<1> QED
  BY <1>2

\* What a file is after a write at its beginning.
LEMMA WrittenOver ==
    ASSUME TypeOK, NEW s \in Settings
    PROVE  /\ Max({file.length, Length(s)}) \in 0 .. 3
           /\ file.length = 0 => Max({file.length, Length(s)}) = Length(s)
<1>1. file.length \in 0 .. 3 /\ Length(s) \in 1 .. 3
  BY LengthType DEF TypeOK
<1> QED
  BY <1>1, MaxOfTwo

LEMMA DefaultType == Default \in Settings
BY DEF Default, Settings

LEMMA InvInit == Init => SettingsInv
<1> SUFFICES ASSUME Init PROVE SettingsInv
  OBVIOUS
<1>1. Default \in Settings /\ Saved(Default) \in [text : Settings, length : 0 .. 3]
  BY DefaultType, LengthType DEF Saved
<1>2. TypeOK
  BY <1>1 DEF Init, TypeOK
<1>3. Saving = {}
  BY DEF Init, Saving
<1> QED
  BY <1>2, <1>3 DEF Init, SettingsInv, AtWorkOnlyUp, Undisturbed, KnowsPolicy,
                    AdmittedByOnePolicy

\* A request that is answered leaves nothing behind, and no other one moves.
LEMMA AnswerEffect ==
    ASSUME TypeOK, NEW h \in Handlers, Answer(h)
    PROVE  /\ pc' \in [Handlers -> {"idle", "save", "write", "check", "add"}]
           /\ next' \in [Handlers -> Settings]
           /\ proxied' \in [Handlers -> BOOLEAN]
           /\ inForce' \in [Handlers -> SUBSET Settings]
           /\ pc'[h] = "idle"
           /\ \A g \in Handlers \ {h} :
                 /\ pc'[g] = pc[g] /\ next'[g] = next[g]
                 /\ proxied'[g] = proxied[g] /\ inForce'[g] = inForce[g]
           /\ Saving' = Saving \ {h}
<1>1. next' \in [Handlers -> Settings]
  BY DefaultType DEF TypeOK, Answer
<1>2. inForce' \in [Handlers -> SUBSET Settings]
  BY DEF TypeOK, Answer
<1> QED
  BY <1>1, <1>2 DEF TypeOK, Answer, Saving

\* Every action keeps the invariant.
LEMMA SetKeeps ==
    ASSUME SettingsInv, NEW h \in Handlers, NEW s \in Settings, Set(h, s)
    PROVE  SettingsInv'
<1>0. TypeOK
  BY DEF SettingsInv
<1>1. TypeOK'
  BY <1>0 DEF Set, TypeOK
<1>2. Saving' = Saving \cup {h}
  BY <1>0 DEF Set, Saving, TypeOK
<1>3. Undisturbed'
  <2> SUFFICES ASSUME ~disturbed' PROVE Undisturbed'
    BY DEF Undisturbed
  <2>1. Saving' = {h} /\ pc'[h] = "save" /\ next'[h] = current' /\ process' = "up"
    BY <1>0, <1>2 DEF Set, TypeOK
  <2> QED
    BY <2>1 DEF Undisturbed
<1>4. AtWorkOnlyUp'
  BY <1>0 DEF Set, AtWorkOnlyUp
<1>5. KnowsPolicy'
  BY <1>0 DEF Set, KnowsPolicy, TypeOK
<1>6. AdmittedByOnePolicy'
  BY <1>0 DEF Set, SettingsInv, AdmittedByOnePolicy, TypeOK
<1> QED
  BY <1>1, <1>3, <1>4, <1>5, <1>6 DEF SettingsInv

LEMMA OpenFileKeeps ==
    ASSUME SettingsInv, NEW h \in Handlers, OpenFile(h)
    PROVE  SettingsInv'
<1>0. TypeOK
  BY DEF SettingsInv
<1>1. TypeOK'
  BY <1>0 DEF OpenFile, TypeOK
<1>2. Saving' = Saving /\ h \in Saving
  BY <1>0 DEF OpenFile, Saving, TypeOK
<1>3. file'.length = 0
  BY <1>0 DEF OpenFile, TypeOK
<1>4. Undisturbed'
  BY <1>2, <1>3 DEF OpenFile, SettingsInv, Undisturbed
<1>5. AtWorkOnlyUp' /\ KnowsPolicy' /\ AdmittedByOnePolicy'
  BY <1>0 DEF OpenFile, SettingsInv, AtWorkOnlyUp, KnowsPolicy, AdmittedByOnePolicy, TypeOK
<1> QED
  BY <1>1, <1>4, <1>5 DEF SettingsInv

LEMMA WriteFileKeeps ==
    ASSUME SettingsInv, NEW h \in Handlers, WriteFile(h)
    PROVE  SettingsInv'
<1>0. TypeOK /\ Answer(h) /\ next[h] \in Settings
  BY DEF SettingsInv, WriteFile, TypeOK
<1> DEFINE length == Max({file.length, Length(next[h])})
<1>1. length \in 0 .. 3 /\ (file.length = 0 => length = Length(next[h]))
  BY <1>0, WrittenOver
<1>2. file' = [text |-> next[h], length |-> length] /\ answered' = next[h]
      /\ process' = process /\ current' = current /\ disturbed' = disturbed
  BY DEF WriteFile
<1> HIDE DEF length
<1>3. TypeOK'
  BY <1>0, <1>1, <1>2, AnswerEffect DEF TypeOK
<1>4. Undisturbed'
  <2> SUFFICES ASSUME ~disturbed PROVE Undisturbed'
    BY <1>2 DEF Undisturbed
  <2>1. h \in Saving /\ pc[h] = "write"
    BY DEF WriteFile, Saving
  <2>2. Saving = {h} /\ next[h] = current /\ file.length = 0 /\ process # "refused"
    BY <2>1 DEF SettingsInv, Undisturbed
  <2>3. Saving' = {}
    BY <1>0, <2>2, AnswerEffect
  <2>4. file' = Saved(answered') /\ current' = answered'
    BY <1>1, <1>2, <2>2 DEF Saved
  <2> QED
    BY <1>2, <2>2, <2>3, <2>4 DEF Undisturbed
<1>5. AtWorkOnlyUp' /\ KnowsPolicy' /\ AdmittedByOnePolicy'
  BY <1>0, <1>2, AnswerEffect DEF SettingsInv, AtWorkOnlyUp, KnowsPolicy, AdmittedByOnePolicy
<1> QED
  BY <1>3, <1>4, <1>5 DEF SettingsInv

LEMMA SaveFailsKeeps ==
    ASSUME SettingsInv, NEW h \in Handlers, SaveFails(h)
    PROVE  SettingsInv'
<1>0. TypeOK /\ Answer(h)
  BY DEF SettingsInv, SaveFails
<1>1. TypeOK'
  BY <1>0, AnswerEffect DEF SaveFails, TypeOK
<1>2. Undisturbed'
  BY DEF SaveFails, Undisturbed
<1>3. AtWorkOnlyUp' /\ KnowsPolicy' /\ AdmittedByOnePolicy'
  BY <1>0, AnswerEffect DEF SaveFails, SettingsInv, AtWorkOnlyUp, KnowsPolicy,
                            AdmittedByOnePolicy
<1> QED
  BY <1>1, <1>2, <1>3 DEF SettingsInv

LEMMA PostKeeps ==
    ASSUME SettingsInv, NEW h \in Handlers, NEW proxy \in BOOLEAN, Post(h, proxy)
    PROVE  SettingsInv'
<1>0. TypeOK
  BY DEF SettingsInv
<1>1. TypeOK' /\ Saving' = Saving /\ h \notin Saving
  BY <1>0 DEF Post, TypeOK, Saving
<1>2. Undisturbed'
  BY <1>0, <1>1 DEF Post, SettingsInv, Undisturbed, TypeOK, Saving
<1>3. AtWorkOnlyUp' /\ KnowsPolicy' /\ AdmittedByOnePolicy'
  BY <1>0 DEF Post, SettingsInv, AtWorkOnlyUp, KnowsPolicy, AdmittedByOnePolicy, TypeOK
<1> QED
  BY <1>1, <1>2, <1>3 DEF SettingsInv

LEMMA CheckKeeps ==
    ASSUME SettingsInv, NEW h \in Handlers, Check(h)
    PROVE  SettingsInv'
<1>0. TypeOK /\ pc[h] = "check" /\ current \in inForce[h]
  BY DEF SettingsInv, KnowsPolicy, Check, Decide
<1>1. UNCHANGED <<process, current, file, answered, disturbed>>
  BY DEF Check, Decide
<1>2. CASE Permits(current, proxied[h]) /\ pc' = [pc EXCEPT ![h] = "add"]
           /\ UNCHANGED <<next, proxied, inForce>>
  <2>1. TypeOK' /\ Saving' = Saving /\ h \notin Saving
    BY <1>0, <1>1, <1>2 DEF TypeOK, Saving
  <2>2. Undisturbed'
    BY <1>0, <1>1, <1>2, <2>1 DEF SettingsInv, Undisturbed, TypeOK, Saving
  <2>3. AdmittedByOnePolicy'
    BY <1>0, <1>1, <1>2 DEF SettingsInv, AdmittedByOnePolicy, TypeOK
  <2>4. AtWorkOnlyUp' /\ KnowsPolicy'
    BY <1>0, <1>1, <1>2 DEF SettingsInv, AtWorkOnlyUp, KnowsPolicy, TypeOK
  <2> QED
    BY <2>1, <2>2, <2>3, <2>4 DEF SettingsInv
<1>3. CASE Answer(h)
  <2>1. TypeOK'
    BY <1>0, <1>1, <1>3, AnswerEffect DEF TypeOK
  <2>2. Saving' = Saving /\ h \notin Saving
    BY <1>0, <1>3, AnswerEffect DEF Saving
  <2>3. \A g \in Saving : pc'[g] = pc[g] /\ next'[g] = next[g]
    BY <1>0, <1>3, <2>2, AnswerEffect DEF Saving
  <2>4. Undisturbed'
    BY <1>1, <2>2, <2>3 DEF SettingsInv, Undisturbed
  <2>5. AtWorkOnlyUp' /\ KnowsPolicy' /\ AdmittedByOnePolicy'
    BY <1>0, <1>1, <1>3, AnswerEffect DEF SettingsInv, AtWorkOnlyUp, KnowsPolicy,
                                          AdmittedByOnePolicy
  <2> QED
    BY <2>1, <2>4, <2>5 DEF SettingsInv
<1> QED
  BY <1>2, <1>3 DEF Check, Decide

LEMMA AddKeeps ==
    ASSUME SettingsInv, NEW h \in Handlers, Add(h)
    PROVE  SettingsInv'
<1>0. TypeOK /\ Answer(h) /\ pc[h] = "add"
      /\ UNCHANGED <<process, current, file, answered, disturbed>>
  BY DEF SettingsInv, Add
<1>1. TypeOK'
  BY <1>0, AnswerEffect DEF TypeOK
<1>2. Saving' = Saving /\ h \notin Saving
  BY <1>0, AnswerEffect DEF Saving
<1>3. \A g \in Saving : pc'[g] = pc[g] /\ next'[g] = next[g]
  BY <1>0, <1>2, AnswerEffect DEF Saving
<1>4. Undisturbed'
  BY <1>0, <1>2, <1>3 DEF SettingsInv, Undisturbed
<1>5. AtWorkOnlyUp' /\ KnowsPolicy' /\ AdmittedByOnePolicy'
  BY <1>0, AnswerEffect DEF SettingsInv, AtWorkOnlyUp, KnowsPolicy, AdmittedByOnePolicy
<1> QED
  BY <1>1, <1>4, <1>5 DEF SettingsInv

LEMMA CrashKeeps == SettingsInv /\ Crash => SettingsInv'
<1> SUFFICES ASSUME SettingsInv, Crash PROVE SettingsInv'
  OBVIOUS
<1>1. TypeOK'
  BY DefaultType DEF SettingsInv, TypeOK, Crash
<1>2. Saving' = {} /\ \A h \in Handlers : pc'[h] = "idle"
  BY DEF Crash, Saving
<1>3. Undisturbed'
  BY <1>2 DEF SettingsInv, Undisturbed, Crash
<1> QED
  BY <1>1, <1>2, <1>3 DEF SettingsInv, AtWorkOnlyUp, KnowsPolicy, AdmittedByOnePolicy

LEMMA RestartKeeps == SettingsInv /\ Restart => SettingsInv'
<1> SUFFICES ASSUME SettingsInv, Restart PROVE SettingsInv'
  OBVIOUS
<1>1. TypeOK'
  BY DEF SettingsInv, TypeOK, Restart, requests
<1>2. /\ Saving' = {} /\ Saving = {}
      /\ \A h \in Handlers : pc'[h] = "idle"
  BY DEF Restart, requests, Saving, SettingsInv, AtWorkOnlyUp
<1>3. Undisturbed'
  <2>1. Readable(Saved(answered)) /\ Saved(answered).text = answered
    BY DEF Readable, Saved
  <2> QED
    BY <1>2, <2>1 DEF SettingsInv, Undisturbed, Restart
<1> QED
  BY <1>1, <1>2, <1>3 DEF SettingsInv, AtWorkOnlyUp, KnowsPolicy, AdmittedByOnePolicy

LEMMA Stutters == SettingsInv /\ UNCHANGED vars => SettingsInv'
BY DEF SettingsInv, TypeOK, AtWorkOnlyUp, Undisturbed, KnowsPolicy, AdmittedByOnePolicy,
       vars, requests, Saving

LEMMA InvStep == SettingsInv /\ [Next]_vars => SettingsInv'
BY SetKeeps, OpenFileKeeps, WriteFileKeeps, SaveFailsKeeps, PostKeeps, CheckKeeps,
   AddKeeps, CrashKeeps, RestartKeeps, Stutters
DEF Next

-----------------------------------------------------------------------------
\* Set, Store.save and NewStore together keep the inductive invariant.
THEOREM SettingsSafe == Spec => []SettingsInv
BY InvInit, InvStep, PTL DEF Spec

\* What the last of several PUTs was answered for is in force and on disk, if
\* they came one after the other, after any crash and restart too.
THEOREM PolicyKept == Spec => []PolicySurvives
<1>1. SettingsInv => PolicySurvives
  BY DEF SettingsInv, Undisturbed, PolicySurvives
<1> QED
  BY <1>1, SettingsSafe, PTL

\* NewStore refuses the file only after PUTs that overlapped, failed, or were
\* under way in a crash.
THEOREM RefusalExplained == Spec => []RefusedOnlyWhenDisturbed
<1>1. SettingsInv => RefusedOnlyWhenDisturbed
  BY DEF SettingsInv, Undisturbed, RefusedOnlyWhenDisturbed
<1> QED
  BY <1>1, SettingsSafe, PTL

\* handleAddTorrent adds a torrent only if one policy that was in force during
\* the request permits it, however often PUTs change the policy meanwhile.
THEOREM AdmissionSound == Spec => []AdmittedByOnePolicy
<1>1. SettingsInv => AdmittedByOnePolicy
  BY DEF SettingsInv
<1> QED
  BY <1>1, SettingsSafe, PTL
=============================================================================
