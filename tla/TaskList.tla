------------------------------ MODULE TaskList ------------------------------
(***************************************************************************)
(* tasks.json: scheduler.Store, persistLocked and PersistPeriodically, and *)
(* what main does with them at a start and at a shutdown.  Scheduler takes *)
(* a save for one step; here it is three, all under Scheduler.mu, while    *)
(* transfers end beside it and the process may go at any moment.  What a   *)
(* request does before it saves is one step, and of a task only matters    *)
(* whether its transfer is over.                                           *)
(***************************************************************************)
EXTENDS Naturals, FiniteSets

CONSTANT Tasks   \* the IDs newTaskID gives, each once

ASSUME TasksAssumption == IsFiniteSet(Tasks)

VARIABLES
    process,  \* up; stopping, after a signal; exited, after main; crashed
    entries,  \* Scheduler.entries
    over,     \* the entries whose transfer has ended
    unused,   \* IDs not given yet
    removed,  \* history: the tasks a request has removed
    holder,   \* who has Scheduler.mu: nobody, the ticker, a request
    step,     \* where the save is
    records,  \* the records it has collected
    file,     \* tasks.json
    behind    \* history: no save has succeeded since the start, or the last
              \* one failed

memory == <<entries, over>>
save == <<holder, step, records>>
ids == <<unused, removed>>
vars == <<process, memory, ids, save, file, behind>>

Running == process \in {"up", "stopping"}

Lists == [Tasks -> {"none", "active", "complete"}]
Empty == [t \in Tasks |-> "none"]

\* The file, or what is there in its place: no file, or no valid JSON.
Saved(list) == [kind |-> "list", list |-> list]
Absent == [kind |-> "absent", list |-> Empty]
Torn == [kind |-> "torn", list |-> Empty]

Records == [t \in Tasks |->
              IF t \notin entries THEN "none"
              ELSE IF t \in over THEN "complete" ELSE "active"]

TypeOK ==
    /\ process \in {"up", "stopping", "exited", "crashed"}
    /\ entries \subseteq Tasks /\ over \subseteq entries
    /\ unused \subseteq Tasks /\ removed \subseteq Tasks
    /\ holder \in {"nobody", "ticker", "request"}
    /\ step \in {"idle", "collect", "open", "write"}
    /\ records \in Lists
    /\ file \in [kind : {"absent", "list", "torn"}, list : Lists]
    /\ behind \in BOOLEAN

Init ==
    /\ process = "up"
    /\ entries = {} /\ over = {}
    /\ unused = Tasks /\ removed = {}
    /\ holder = "nobody" /\ step = "idle" /\ records = Empty
    /\ file = Absent
    /\ behind = TRUE

-----------------------------------------------------------------------------
(* Who saves.  http.Server.Shutdown lets no new request in.                *)

Lock(who) ==
    /\ holder = "nobody"
    /\ holder' = who
    /\ step' = "collect"
    /\ UNCHANGED <<process, records, file, behind>>

Add(t) ==
    /\ process = "up" /\ t \in unused
    /\ Lock("request")
    /\ unused' = unused \ {t}
    /\ entries' = entries \cup {t}
    /\ UNCHANGED <<over, removed>>

Remove(t) ==
    /\ process = "up" /\ t \in entries
    /\ Lock("request")
    /\ entries' = entries \ {t}
    /\ over' = over \ {t}
    /\ removed' = removed \cup {t}
    /\ UNCHANGED unused

\* Pause, Resume and Cancel save, too.
Touch(t) ==
    /\ process = "up" /\ t \in entries
    /\ Lock("request")
    /\ UNCHANGED <<memory, ids>>

\* Fault for TornIsReplaced: a tick saves only what has changed since the last.
TickIfChanged ==
    /\ Running /\ Records # records
    /\ Lock("ticker")
    /\ UNCHANGED <<memory, ids>>

\* Fault for DiskCatchesUp: a tick saves only if tasks have come or gone.
TickIfListed ==
    /\ Running /\ \E t \in Tasks : (t \in entries) # (records[t] # "none")
    /\ Lock("ticker")
    /\ UNCHANGED <<memory, ids>>

\* main stops the ticker only when it returns.
Tick ==
    /\ Running
    /\ Lock("ticker")
    /\ UNCHANGED <<memory, ids>>

\* A transfer ends without a word to the scheduler.
End(t) ==
    /\ t \in entries \ over
    /\ over' = over \cup {t}
    /\ UNCHANGED <<process, entries, ids, save, file, behind>>

-----------------------------------------------------------------------------
(* persistLocked and Store.Save.                                           *)

\* Fault for AnsweredIsSaved: what is over is not collected.
CollectRunning ==
    /\ step = "collect"
    /\ records' = [t \in Tasks |-> IF t \in over THEN "none" ELSE Records[t]]
    /\ step' = "open"
    /\ UNCHANGED <<process, memory, ids, holder, file, behind>>

Collect ==
    /\ step = "collect"
    /\ records' = Records
    /\ step' = "open"
    /\ UNCHANGED <<process, memory, ids, holder, file, behind>>

\* os.WriteFile truncates the file ...
OpenFile ==
    /\ step = "open"
    /\ file' = Torn
    /\ step' = "write"
    /\ UNCHANGED <<process, memory, ids, holder, records, behind>>

\* The deferred unlock; a request is answered.
Unlock ==
    /\ holder' = "nobody" /\ step' = "idle"
    /\ UNCHANGED <<process, memory, ids, records>>

\* ... and then writes it.
WriteFile ==
    /\ step = "write"
    /\ file' = Saved(records)
    /\ behind' = FALSE
    /\ Unlock

\* The error of a save is dropped: the request is answered all the same.
SaveFails ==
    /\ step \in {"open", "write"}
    /\ behind' = TRUE
    /\ Unlock
    /\ UNCHANGED file

-----------------------------------------------------------------------------
(* The process.                                                            *)

Signal ==
    /\ process = "up"
    /\ process' = "stopping"
    /\ UNCHANGED <<memory, ids, save, file, behind>>

\* What is in memory goes with the process.
Gone(how) ==
    /\ process' = how
    /\ entries' = {} /\ over' = {}
    /\ holder' = "nobody" /\ step' = "idle" /\ records' = Empty
    /\ UNCHANGED <<ids, file, behind>>

\* Shutdown has waited for the requests, or for five seconds, and main
\* returns, whatever the other goroutines are doing.
Exit == process = "stopping" /\ Gone("exited")

Crash == Running /\ Gone("crashed")

\* NewStore and New; nobody calls Load.
Start ==
    /\ ~Running
    /\ process' = "up"
    /\ behind' = TRUE
    /\ UNCHANGED <<memory, ids, save, file>>

-----------------------------------------------------------------------------
SaveStep == Collect \/ OpenFile \/ WriteFile \/ SaveFails

Next ==
    \/ \E t \in Tasks : Add(t) \/ Remove(t) \/ Touch(t) \/ End(t)
    \/ Tick \/ SaveStep
    \/ Signal \/ Exit \/ Crash \/ Start

Spec == Init /\ [][Next]_vars

(***************************************************************************)
(* Whoever has Scheduler.mu goes on; the ticker gets it in the end, as     *)
(* sync.Mutex does not starve a waiter; of saves that are tried for ever   *)
(* one succeeds.  No request, no end and no start is owed.                 *)
(***************************************************************************)
FairSpec == Spec /\ WF_vars(SaveStep) /\ SF_vars(Tick) /\ SF_vars(OpenFile) /\ SF_vars(WriteFile)

-----------------------------------------------------------------------------
\* A list tells of every entry, and of no end that has not come.
Covers(list) ==
    \A t \in Tasks :
        /\ list[t] # "none" <=> t \in entries
        /\ list[t] = "complete" => t \in over

\* What a request has changed is on disk when it is answered, and stays there
\* whatever saves come after it, as long as these succeed; and no task is
\* written down as complete before it is.
AnsweredIsSaved ==
    Running /\ holder = "nobody" /\ ~behind => file.kind = "list" /\ Covers(file.list)

\* A file that a failed save or an earlier process has spoiled is put right
\* by the periodic save of a process that stays.
TornIsReplaced == file.kind = "torn" ~> file.kind = "list" \/ ~Running

\* PersistPeriodically's comment (scheduler.go:236-241): a task that ends by
\* itself, without a call to the scheduler, is written down as complete,
\* unless it is removed meanwhile or the process ends.
DiskCatchesUp ==
    \A t \in Tasks : t \in over ~> file.list[t] = "complete" \/ t \notin over

\* "Store persists task Records to a JSON file so the task list survives a
\* restart. [...] for now, restored records are read-only history"
\* (store.go:9-13), and the header of scheduler.go (2-3) says so, too: what a
\* process has left in tasks.json is in whatever list is there afterwards,
\* unless a request has removed it.
ListSurvives ==
    \A t \in Tasks :
        [](~Running /\ file.list[t] # "none" =>
               [](file.kind = "list" => file.list[t] # "none" \/ t \in removed))

-----------------------------------------------------------------------------
(* The inductive invariant: what the save under way has in hand is as      *)
(* right as what is on disk when there is none.                            *)
SaveInv ==
    /\ TypeOK
    /\ ~Running => entries = {} /\ holder = "nobody"
    /\ holder = "nobody" <=> step = "idle"
    /\ step \in {"open", "write"} => Covers(records)
    /\ AnsweredIsSaved
=============================================================================
