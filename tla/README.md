# NekoDL, specified in TLA+

NekoDL is a download manager: a Go server (`src/core`) that runs downloads of
several kinds as *tasks*, a scheduler that decides which of them may run, an
HTTP and WebSocket API, and a web page (`src/web`).  This directory holds TLA+
modules of the parts whose behaviour depends on order: on goroutines that
interleave, on calls that overlap, on crashes, cancellations, retries and late
answers.  TLC checks them on small instances; TLAPS proves every safety property
that is checked, and what the liveness properties need of the order of steps, for
every value of their constants.

Contents

1. [The system](#1-the-system)
2. [Modules and what they stand for](#2-modules-and-what-they-stand-for)
3. [How the modules fit together](#3-how-the-modules-fit-together)
4. [What is checked](#4-what-is-checked)
5. [Bounds](#5-bounds)
6. [Fairness](#6-fairness)
7. [What is proved](#7-what-is-proved)
8. [Where the code and its comments disagree](#8-where-the-code-and-its-comments-disagree)
9. [What is not modelled](#9-what-is-not-modelled)
10. [What could be added](#10-what-could-be-added)

Run `tlc -config MCEngines.cfg Engines` to check a module and
`tlapm EnginesProofs.tla` to check proofs.  `PROJECT.json` lists the runs, for
every definition the lines of code it stands for, for every property a mutation
of the code that breaks it, and the hazards the properties are for.  A
definition whose comment begins with *Fault for* is such a mutation: no
specification uses it.

## 1. The system

### Components, their state and their operations

| component | state | operations | what makes it correct |
|---|---|---|---|
| scheduler (`scheduler/scheduler.go`) | the entries with their priority and age, under `Scheduler.mu`; each task's own status is read, not kept | `Enqueue`, `Pause`, `Resume`, `Cancel`, `Remove`, each of which reschedules and saves; `Records`, `Get`; `PersistPeriodically` | no more tasks run than `maxConcurrent`, the highest-ranked ones first; no slot is wasted; a removed task is gone |
| task list store (`scheduler/store.go`, `cmd/nekodl/main.go`) | `tasks.json` | `Save`, by requests and every two seconds; `Load`, which nothing calls | what was answered is on disk; a spoiled file is replaced; the list survives a restart |
| task interface (`task/task.go`) | `Status` | `Resume`, `Pause`, `Cancel`, `Remove`, `Progress` | see *the contract* below |
| HTTP engine (`httpengine`) | `Task`: status, segments with their resume points, counter, goroutine, context; the file; the progress file beside it | the above; `New` takes up the progress file | a complete file is whole; a resumed one skips nothing; stopping is not failing |
| MEGA engine (`megalink`) | `Task`: status, counter, name; the file | the above, single-shot | a complete file is whole, however often it was restarted |
| yt-dlp and Booth engines (`ytdlpengine`, `boothengine`) | `Task`: status; a subprocess with its two pipes and whatever it starts | the above | no process outlives its task; complete means that the process said so; a call that stops a task returns |
| torrent engine (`torrentengine`) | `Task`: status, a client, three goroutines, `completedAt` | the above; the kill switch, the seed limiter | a stopped torrent downloads nothing, a cancelled one is disconnected, a running one is watched, seeding ends |
| settings store (`settings`, `api/settings.go`) | the policy in memory and in `settings.json` | `NewStore`, `Get`, `Set` | a policy that was accepted survives; the server can start |
| add and request handlers (`api/*.go`) | none of their own | one scheduler call each; the add handlers `Enqueue` and then call `Resume` themselves | torrents are added only as the policy allows; an error means that nothing was added |
| events feed (`api/websocket.go`) | one connection, two goroutines, a write lock | push the list every second, answer pings | frames are whole; the handler ends with its client |
| web task list (`web/src/hooks/useTasks.ts`) | the list shown, loading, error, one socket, one request at a time | `refresh`, messages, answers | the page shows the newest list it was given |
| web settings dialog (`SettingsModal.tsx`) | the settings shown | load, change, take back | it shows what the server enforces |
| web add dialog (`AddTaskModal.tsx`) | what was entered; a submission | two kinds of submission, one request per line | nothing is added twice, every submission ends |
| resolvers, MEGA's cipher, views | none that changes | | not modelled, see section 9 |

### How they interact

* A request handler calls the scheduler; the scheduler holds `Scheduler.mu`
  while it calls methods of tasks, which take the task's own `mu` and, for
  `Pause` and `Cancel`, wait for the task's goroutines.
* An add handler (`addtask.go:85` and `:100`, `addtorrent.go:87`,
  `addytdlp.go:86`, `addbooth.go:67`) calls `Enqueue`, which may start the task, and afterwards
  `Resume` on the task directly, without `Scheduler.mu`.
* A task's goroutines change its status by themselves.  The scheduler is not
  told: it reads statuses when somebody calls it, and the save every two seconds
  brings them to disk.
* The server pushes `Scheduler.Records()` to every page once a second, beside
  the answers to the page's own requests.
* At a shutdown `main` waits for the requests under way, for five seconds at
  most, and returns; neither the tasks nor the periodic save are waited for.

### What is hard here

Two calls on one task may overlap (the add handler's `Resume` with anything the
scheduler does); `rescheduleLocked` acts on statuses that change while it works;
`Resume` counts its goroutine in the `WaitGroup` after it has unlocked; the HTTP
engine takes a snapshot of its progress under a lock and saves it outside, one
goroutine per segment; `os.WriteFile` truncates and then writes, so that a crash,
a shutdown or a second writer in between spoils the file; a context that is
cancelled surfaces as an error of whatever was under way; a pipe ends only when
every process that holds it has ended, and a scanner that gives up leaves it
full; requests of the page cross each other on both ways, fail after they took
effect, or are carried out unheard.  `PROJECT.json` lists these hazards one by
one, at the line where each bites.

## 2. Modules and what they stand for

| module | stands for |
|---|---|
| `Scheduler` | `scheduler.go` and the handlers' calls: one state variable per field, `rescheduleLocked` one loop iteration per step |
| `TaskList` | `store.go`, `persistLocked`, `PersistPeriodically`, and what `main.go` does with them at a start and at a shutdown |
| `TaskContract` | what `scheduler.go` may expect of a `task.Task`: the abstract specification of one task, in four actions |
| `EngineTask` | what the four single-goroutine engines have in common: `Resume`, `Pause`, `Cancel`, `Remove`, context, `WaitGroup` |
| `HttpTask` | `httpengine/task.go`: probe, mirrors, finalize, the two files |
| `MegaTask` | `megalink/task.go`, `download.go` |
| `SubprocessTask` | `ytdlpengine/task.go`, `boothengine/task.go` |
| `Engines` | one task of any of those three, with the properties all engines share; the composition that is checked and proved about |
| `TorrentTask` | `torrentengine/task.go`, `ipcheck.go`, `seedlimit.go` |
| `Segments` | `httpengine/segment.go`: `buildSegments` as operators |
| `SegmentTransfer` | `httpengine`: `ensureSegments`, `downloadSegments`, `fetchSegment`, `retryWithBackoff`, `saveProgress`, `New`, byte by byte |
| `SettingsStore` | `settings.go`, `api/settings.go`, the policy check of `addtorrent.go` |
| `SettingsDialog` | `SettingsModal.tsx` and the two handlers it calls |
| `AddDialog` | `AddTaskModal.tsx` and the five add handlers |
| `EventsFeed` | `api/websocket.go` and `useTasks.ts` |
| `MCScheduler`, `MCDialogs` | values for TLC: priorities, a symmetry and a view; the items of the add dialog, and a choice between the two dialogs |
| `SchedulerProofs`, `SegmentTransferProofs` (with the ranges of `Segments`), `SettingsStoreProofs`, `SettingsDialogProofs`, `TaskListProofs` (with `EventsFeed`), `AddDialogProofs`, `EnginesProofs`, `TorrentTaskProofs` | theorems, section 7 |

### Scheduler

`entries`, `addedAt` and `status` are the scheduler's map and each task's
status.  A handler (`pc`, `op`) is idle, holds `s.mu`, is about to call `Resume`
itself (`"resume"`), or has set the status and not yet started the goroutine
(`"spawn"`).  `Enqueue`, `Pause`, `Resume`, `Cancel`, `Remove` are the critical
sections up to the call of `rescheduleLocked`; then `Filter` looks at one entry
of the map at a time (`scan`), in any order, and the loop over the sorted slice
takes the first of what is left (`queue`, `IsFirst`) and gives it a slot or takes
it (`GiveSlot`, `TakeSlot`); `Unlock` is the deferred unlock, after a save that
touches none of these variables and is the subject of `TaskList`.  `ResumeFails`
is the early return of `mutate`.  Without the lock: `DirectResume` and `Respond`
(add handlers), `Finish` and `TripKillSwitch` (engines).  Time stamps are as
coarse as one likes: two tasks may have the same one, which is what the
comparison by ID is for.

Three variables are history.  `stray`: tasks that run because of an add
handler's own `Resume` and that no reschedule has visited since.  `lapsed`:
tasks that stopped by themselves after the filter had read them.  `overlapped`:
tasks whose add handler's `Resume` overlapped with a stop; of these the engine
modules show that they may be at work whatever their status is, so here they
may still end and, for a torrent, still start.  A torrent's `Resume` that began
before another one of the same task, and comes to its end after that, writes its
outcome over whatever the status is by then (`LateOutcomes`).

### TaskList

A request or the ticker takes `Scheduler.mu` (`holder`), collects the records,
truncates the file and writes it (`Collect`, `OpenFile`, `WriteFile`), or fails in
between (`SaveFails`), which nobody is told.  Meanwhile tasks end (`End`), and the
process is told to stop, exits or crashes in any of these steps.  `Start` begins
with an empty list, since `Load` is never called, and with whatever file there
is.  `behind` and `removed` are history: the present process has saved nothing yet, or
its last save failed; a request has removed the task.

### EngineTask, its extensions, and Engines

Two callers: `scheduler`, one call at a time, and `adder`, with one `Resume`.
Each method is the sequence of its critical sections: `Resume` (status, context,
unlock) and then `Spawn` (`wg.Add`, `go run`); `Pause`/`Cancel` (read the cancel
function), `CancelContext`, `WaitReturns`, `SettlePause`/`SettleCancel`.  A *run*
is one goroutine with its context.  `faulted` records that something outside
failed, `overlapped` that two callers have been in methods at once.

`HttpTask` adds the goroutine's way through `mkdir`, `ensureSegments`, the
mirrors and `finalize`.  An attempt at a mirror succeeds or ends in an error, and
`run` judges the error alone (`Judge`): if it is the context's it stops without a
word, whatever the mirror, and else it goes on to the next mirror or fails after
the last.  Such an error is a fault outside (`Breaks`), the context (`Stops`), or
one the code brings on itself: a range without an end, of a file whose size the
server does not tell, is asked for again after a stop (`plan`, `arrived`), and if
its last byte had come, every mirror refuses it (`"past"`, `"refused"`; `overshot`
is the history of it).  `MegaTask` adds its two resolutions of the link, the
truncation, the counter that `Pause` sets back.

`SubprocessTask` adds the process, which may exit by itself at any time, also
while it is being killed, and its pipes.  The goroutine reads stdout to its end,
then waits for the one that reads stderr, then for the process (`phase`
`"stdout"`, `"stderr"`, `"wait"`).  `helped` says that the process has started a
program of its own, such as `ffmpeg`, which the kill of the process does not
reach and which holds the pipes.  A line longer than the scanner's buffer makes
its reader give up (`deaf`); a process that goes on writing to that pipe blocks
(`blocked`) until it is killed.

`Engines` has a variable `engine` and an instance of each of the three; a step
is a step of the chosen one that keeps what belongs to the others (`OthersKept`).
The properties that every engine owes to the scheduler and to the add handler
are stated there once.

`TorrentTask` is separate: its client is built outside the lock and kept, its
`Pause` waits for nothing, and three goroutines belong to it.  `Build` and
`Record` are two steps, between which another caller may do the same; `DetectLeak`
is two requests (`CheckDirect`, then `CheckPassed` or `Trip`), and a cancelled
context makes the second fail like a leak.

### SegmentTransfer

The content is `Size` bytes; `file` is the set of bytes written.  Each segment's
goroutine asks for its range, writes some bytes, moves its resume point under
`Task.mu` taking a snapshot, saves the snapshot in the two steps of
`os.WriteFile`, and looks at its context before it reads on.  `retryWithBackoff`
counts in `tries`; the first error of any segment decides what `run` does
(`Collect`): next mirror, give up, stop silently, or finalize; a file that cannot be
opened is an error of the whole attempt (`OpenFails`).  What a shorter text leaves
of a longer one is `Spoiled`, and stays so under another short one.  `Crash` loses
the memory.  `Restart` is `New`: it takes up what the sidecar holds, refuses a torn
one, or finds none, which is also what happens to a download that was renamed
after the server's hint, because the sidecar is then looked for under the first
name.

### SettingsStore and SettingsDialog

`Set` changes the memory under the lock and then writes the file without it,
truncation and text apart; a text that is shorter than what another writer has
put there since leaves a rest that does not parse (`Readable`).  `Check` is the
one `Get` of a `POST /torrents`.

`SettingsDialog` has up to `MaxRequests` requests, each on its way to the server,
in the middle of `Set`, answered, or failed.  A change is shown when it is made
(`Update`), replaced by whatever answer comes (`ShowAnswer`), and taken back if it
fails (`Revert`) to what was shown when it was made.  A change whose connection was
lost on its way may be carried out after that (`unheard`, `CarriedOutLate`).
`crossed` and `astray` are history: two requests were under way at once; one has
crossed another or failed after, or before, it took effect, and none that was alone
has succeeded since.

### AddDialog

An *item* is a line, a `.torrent` file, or what is entered for Booth.  `Submit`
and `BoothSubmit` share the button and the flag that locks it; the lines are sent
one after another, then the file, each as one request (`Send`, `Answered`, `Lost`);
`Finish` clears all fields if any request succeeded.  The fields stay open to
typing all the while (`Enter`, `Erase`).  On the server every handler may refuse,
then enqueues, then answers; `HandleAddTorrent` may fail after that
(`ResumeFails`).  A request whose connection was lost may be carried out later
(`CarriedOut`).

### EventsFeed

A list is known by the number of changes it has seen.  A frame is written in two
parts (opcode and length, payload) under `writeMu`; what is written and not yet
read is `wire`, bounded by `Window`, on which a write blocks.  Either goroutine
may find that the connection is gone; each ends the other in its way.  The page
drops cancelled requests' answers and shows whichever list came last otherwise.

## 3. How the modules fit together

`Scheduler` treats a call of a task's method as one step with one outcome.  That
is justified in two parts.  First, `TaskContract` states what such a task may
do, and `Engines` and `TorrentTask` are shown to implement it (`ContractKept`, with
`INSTANCE TaskContract WITH status <- ...`), by TLC on small instances and by
TLAPS for all, as long as their callers do not overlap; `StopReturns`,
`CancelReturns` and `PauseEnds` show that the calls return.  Second, callers
overlap only when an add handler's `Resume` meets a call of the scheduler; from
then on the mapping shows a task that the contract allows nothing more of, so
nothing is claimed, and `Scheduler` keeps such tasks apart (`overlapped`) and
lets them misbehave.

`Engines` composes the three engines behind the one interface.  `HttpTask` has
the calls and their overlaps and abstracts the transfer; `SegmentTransfer` has the
transfer and calls that do not overlap.  `TaskList` has the saves that are one
invisible step of `Scheduler`'s `Unlock`; `SettingsStore` has the saves that
`SettingsDialog` takes for one step.  `AddDialog` has the requests whose effect on
other tasks is in `Scheduler`.

The contract does not say that a task in error stays there: `Resume` starts a
failed task again, as the code does.  Nor does it cover a torrent whose kill
switch trips, which may happen in any status; `Scheduler` has `TripKillSwitch`
for that.

## 4. What is checked

All "pass" runs finish without an error.  Distinct states are in parentheses.

| run | shows |
|---|---|
| `sched_overlap` (51 500; `MCScheduler_torrent.cfg`) | Two tasks, one of them a torrent, two handlers, a limit of one; every interleaving of requests, reschedules, add handlers and engines.  `LimitUpToStrays`: when the lock is free, only strays run over the limit.  `NoPriorityInversion`: no task waits behind a running one that ranks below it.  `SlotsIdleOnlyAfterLapse`: while a task waits, each unused slot belonged to a task that stopped by itself after the filter had read it.  `RemovedStaysStopped`: a removed task is cancelled and stays so, whenever its add handler gets to its `Resume`.  `SchedulerInv`: the inductive invariant of the proof |
| `engines` (458 000) | Every engine but the torrent one.  `StoppedIsStill`: after `Pause` or `Cancel` has returned no goroutine is at work.  `ActiveIsWorkedOn`: an active task always has somebody working on it or about to change its status, however calls overlap.  `NoErrorWithoutFault`: no order of calls turns a stop into a failure, with two exceptions, which are named: a mega.nz task that is fetching its metadata, and an HTTP one of unknown size that has its last byte.  `RemovedLeavesNoFile`.  `CompleteMeansWhole`: the truncation of a restart never leaves a complete task with part of a file.  `NoProcessLeft`: neither a stop nor the end of a task leaves a process behind.  `ContractKept`: refinement of `TaskContract`.  `StopReturns`: a stop is held up by a helper and by nothing else, no matter how much output nobody reads.  `ExitIsNoticed`: a process that has ended is reaped, also after a scanner has given up |
| `torrent` (112 000) | With a proxy and both seed limits.  `CancelledIsClosed`, `StoppedDownloadsNothing` (also when the kill switch trips between the steps of a call), `WatchedUnlessTripped` (the kill switch outlives every `Pause` and `Resume`), `ContractKept`, `SeedingEnds` (in every order of completion, pause and check), `CancelReturns` |
| `transfer` (246 000) | `CompleteMeansContent`: what is complete is all there, whatever was paused, retried, taken from another mirror, or crashed and taken up.  `SidecarNotAhead`: late, reordered and torn saves never claim a byte that is not in the file.  `ProgressAddsUp`: the counter agrees with the resume points after retries and restarts.  `NoErrorWithoutFault`, `PauseEnds`; `TransferInv` is the inductive invariant of the proof |
| `tasklist` (42 000) | Requests, the ticker and ending transfers around a save in three steps that may fail, with signals, crashes and starts in between.  `AnsweredIsSaved`: what a request has changed is on disk when it is answered and stays there as long as saves succeed.  `TornIsReplaced`, `DiskCatchesUp`: a file that a crash, a shutdown or a failed save has spoiled is replaced, and an end nobody asked about is written down, both without a request |
| `settings` (22 000) | `PolicySurvives`: the last accepted policy is in force and on disk, through crashes, unless requests overlapped or one failed.  `RefusedOnlyWhenDisturbed`: only then can the server find settings it cannot read.  `AdmittedByOnePolicy`: a torrent is added only if one policy that was in force during the request allows it |
| `dialogs` (858 000) | Either dialog of the page; they share nothing, and a behaviour is of one.  `AloneIsRight`: after any crossing and failing of requests, one that is alone and succeeds makes the settings dialog show what the server enforces.  `AddedOnce`: nothing is added more often than it was entered, however often the button is pressed and whatever is typed during a submission, unless an answer was lost or was an error in spite of its task.  `SubmitEnds`: a submission ends, unless a file cannot be read |
| `feed` (64 000) | `FramesWhole`, `RefreshIsFresh` (an answer to a request made before a change never replaces one made after), `PageCatchesUp`, `HandlerReturns` (both goroutines end, wherever each is blocked) |
| `sched_pause`, `torrent_resumed`, `transfer_torn`, `tasklist_restart` | expected violations, section 8 |

Deadlock is not checked anywhere: the models end where their bounds do (no more
runs, clients or requests to make, all tasks removed), and the server may be left
alone.  What a deadlock of the code would be, a call that does not return, is what
the liveness properties are about.

## 5. Bounds

| constant | value | why it is enough |
|---|---|---|
| `Tasks`, `MaxConcurrent` (scheduler) | 2 and 1 | one slot and two contenders of different rank, the second a torrent.  For all values of both: the theorems of section 7 |
| `Handlers` (scheduler, settings) | 2 | one in its critical section while the other is an add handler on its way to `Resume`, or saves; the locks keep more from mattering |
| `MaxRuns` (engines) | 3 | one run that is stopped, one started again, and one that the add handler starts beside it |
| `MaxProcesses` | 2 | a process that is killed while its helper lives, and the next one |
| `Mirrors` | 2 | a first, and a last |
| `MaxStarts` (torrent) | 2 | one client, and the one that an overlapping `Resume` builds |
| `Size`, `MaxConn`, `MinSegmentSize` | 4, 2, 1 | two segments with two resume points each, so that one is half done while the other is whole, and one snapshot is shorter than another |
| `MaxRetries` | 1 | an attempt that is repeated and one that is the last |
| `Tasks` (task list) | 3, and 2 in `tasklist_restart` | one that a former process has left in the file, one that is removed, one that ends; there, one that is left in the file and one that replaces it |
| `MaxRequests` (settings dialog) | 4 | two that cross, one of them failing; one that is alone after them; the one that loads the dialog |
| `Items`, `MaxEntered`, `MaxPresses` (add dialog) | 3, 2, 2 | a link, a file and Booth's input; each entered again, and sent by a second press |
| `MaxChanges`, `MaxRequests`, `Window` (feed) | 1, 2, 2 | a list before and after; a request and the one that cancels it; one whole frame, so that writers block |

Retries, runs, clients, requests, presses and changes are bounded in the guards of
the actions that use one up; everything else is as the code has it.  `StampNow`
takes time stamps from `0 .. Cardinality(Tasks)`, which is as many different
readings as tasks can have.  In `TaskList` an ID is given once and for all, as
`newTaskID` does, so its runs end with the IDs.

## 6. Fairness

Fairness is stated only for what the Go runtime, the operating system, the browser
or `os/exec` owes.

* A goroutine that can go on does (`WF` of `Caller`, `CallerStep`, `SaveStep`,
  `Push`, `Read`, `PauseReturns`).
* A goroutine whose context is cancelled notices, because every request it makes
  is bound to that context (`WF` of `Worker`, `Unwind`, `RunStep` and the rest of
  `SegmentTransfer`, each under `ctxDone`).  Until then a transfer may stall for
  ever, as in the code, where nothing has a timeout.
* `exec.CommandContext` kills its process (`Kill`, in `Worker`).  A process that
  is not killed need not end, nor what it has started.
* `sync.Mutex` does not starve a waiter: strong fairness of `Tick` for the
  periodic save, and of `TakeLock` for the
  frame lock.
* Of saves that are tried again and again one succeeds: strong fairness of
  `OpenFile` and `WriteFile` in `TaskList`.  A run in which the process keeps
  being restarted owes nothing, which is why `TornIsReplaced` and `DiskCatchesUp`
  speak of a process that stays.
* A `select` with several ready cases chooses at random, so a case that is ready
  again and again is taken (strong fairness of `SeeEnded`).
* The page runs, and a handler answers (`WF` of `Page`, `Server`, `SocketEvent`,
  `RequestEvent`), which the `StopReturns` of the engines is there for.
* In `TorrentTask` the seed time comes some time after the download, and the
  goroutine that finds the content whole goes on.

Nothing is owed by users, servers, swarms, or a network that loses a request.

## 7. What is proved

TLAPS proves for all values of the constants, under their assumptions
(`Tasks` finite, priorities and the limit any integers; any size, told by the
servers or not, and any number of connections, retries and mirrors; any number of
request handlers, runs, processes, clients, requests and items):

| theorem | statement |
|---|---|
| `SchedulerProofs!TypeCorrect`, `Maintained` | `Spec => []TypeOK`, `Spec => []SchedulerInv` |
| `SchedulerProofs!RemovalFinal` | `Spec => []RemovedStaysStopped` |
| `SchedulerProofs!LimitHeld` | `Spec => []LimitUpToStrays` |
| `SchedulerProofs!OrderKept` | `Spec => []NoPriorityInversion` |
| `SchedulerProofs!SlotsAreUsed` | `Spec => []SlotsIdleOnlyAfterLapse` |
| `SchedulerProofs!OneIsNext`, `PlanComesToItsEnd` | a reschedule that has tasks to visit has exactly one to visit next; it takes at most two steps for each entry, and nothing else adds to them |
| `SegmentTransferProofs!Contiguous`, `Covered` | the ranges of `buildSegments` are adjacent, start at 0, end with the file, and leave no byte out |
| `SegmentTransferProofs!TransferSafe` | `Spec => []TransferInv` |
| `SegmentTransferProofs!CompleteIsContent` | `Spec => []CompleteMeansContent` |
| `SegmentTransferProofs!SidecarIsNotAhead` | `Spec => []SidecarNotAhead` |
| `SegmentTransferProofs!ErrorsHaveCauses` | `SizeKnown => (Spec => []NoErrorWithoutFault)` |
| `SegmentTransferProofs!ProgressIsRight`, `ProgressStaysWithin` | `Spec => []ProgressAddsUp`; the counter never exceeds the size, and is the size in the end |
| `SegmentTransferProofs!PausesWindDown` | while `Pause` waits, every step of the download is one step nearer its end |
| `EnginesProofs!EnginesHeld` | `Spec => [](LifeInv /\ FilesInv /\ ProcessInv)` |
| `EnginesProofs!StillOnceStopped`, `ActiveIsAttended`, `ErrorsHaveFaults`, `RemovedLeaveNoFile`, `CompleteAreWhole`, `NoProcessIsLeft` | the six invariants of the run `engines` |
| `EnginesProofs!StopsReachAll`, `AllRunsWindDown` | a stop waits only for goroutines it has told; a run takes at most four steps for each mirror and four more |
| `EnginesProofs!EnginesKeepContract` | `Spec => ContractKept`: the engines implement `TaskContract` |
| `TorrentTaskProofs!TorrentHeld` | `Spec => []TorrentInv` |
| `TorrentTaskProofs!CancelledAreClosed`, `StoppedAreQuiet`, `RunningAreWatched` | the three invariants of the run `torrent` |
| `TorrentTaskProofs!CancelsReachAll`, `CancelsWindDown` | `Cancel` waits only for goroutines it has told, and for seven steps at most |
| `TorrentTaskProofs!SeedersAreLimited` | an upload that has a limit has a limiter that watches it |
| `TorrentTaskProofs!TorrentKeepsContract` | `Spec => ContractKept` |
| `TaskListProofs!TypeCorrect`, `AnsweredSaved` | `Spec => []SaveInv`, `Spec => []AnsweredIsSaved` |
| `TaskListProofs!FeedTypeCorrect`, `WireIsWhole`, `MessagesAreWhole` | `FeedSpec => []FeedTypeOK`, `FeedSpec => []FramesWhole`, and what the page is handed is one frame |
| `TaskListProofs!ShowsTheRefresh`, `LoadingWhileAsked` | `FeedSpec => []RefreshIsFresh`; the page is loading just while its last request is under way |
| `TaskListProofs!GoroutinesAreTold` | a goroutine of a connection that returns has told the other one |
| `TaskListProofs!PushesInOrder` | pushed lists are on the wire in the order in which they were read |
| `SettingsStoreProofs!SettingsSafe`, `PolicyKept`, `RefusalExplained`, `AdmissionSound` | `SettingsInv` and the three invariants of the run `settings` |
| `SettingsDialogProofs!Followed`, `AloneRight` | `Spec => []DialogInv`, `Spec => []AloneIsRight` |
| `AddDialogProofs!EntriesHold`, `OnceEach` | `Spec => []EntryInv`, `Spec => []AddedOnce` |
| `AddDialogProofs!SubmissionsWindDown` | a submission ends within four steps for each of its items and two more |

### The scheduler's invariant

`LimitUpToStrays`, `NoPriorityInversion` and `SlotsIdleOnlyAfterLapse` are about
moments when `s.mu` is free, so they say nothing in the middle of a reschedule and
are not inductive.  `SchedulerInv` says what each step of it establishes.
`Settled` is the set of running tasks, strays apart, that the present plan has
dealt with or will not deal with.  *SlotsCounted*: there are at most as many as the
loop has given slots (`index`), and never more than the limit.  *SlotsOrdered*:
whoever is settled comes before everything still in the queue; while the loop has
slots to give, nothing it has passed is waiting; and no waiting task comes before a
settled one.  A request begins a plan with every entry in `scan`, so nothing is
settled; the filter drops only finished tasks; `GiveSlot` adds one task to
`Settled` and one to `index`; `TakeSlot` adds none, since a paused task does not
run; what engines and add handlers do meanwhile only takes tasks out of
`Settled` (they end) or adds strays.  When the lock is free the plan is empty
and `Settled` is the running tasks without the strays, which gives both
properties.

*SlotsUsed* is the other direction.  `Used` is what runs or has stopped by itself
since the filter read it; outside the queue there are at least as many of these as
slots given, or as many as the limit.  A task that `GiveSlot` finds finished must
have been unfinished when it was filtered, which is what the first conjunct of
*SlotsUsed* remembers.  When the plan is done and some task still waits, *SlotsOrdered*
says that the loop has run out of slots, so all of them are used.
`RemovedStaysStopped` needs *PlanWithinEntries* (a reschedule only touches tasks
the scheduler still holds) and *Created*.

The proof has one lemma per conjunct with one step per action
(`DisciplineStep`, `PlanStep`, `CreatedStep`, `RemovedStep`, `SlotsStep`,
`UsedStep`), and lemmas for what several actions share (`FewerSettled`: everything
that only takes tasks out of `Settled`; `UsedBeside`: everything that happens beside
a reschedule).

`OneIsNext` is why the order in which the loop finds the entries does not matter:
`Before` is a strict total order, and a finite set has a first element of such an
order (`FiniteHasFirst`).  `StepsLeft` counts two steps for an entry in `scan` and one
for a task in `queue`.  The two sets are disjoint and within the entries, so it is at
most twice their number; the filter takes two and gives back one, the loop takes
one, and what engines and other handlers do leaves it alone.

### The transfer's invariant

That a complete file is the whole content is a fact about the end of a download;
`TransferInv` says what carries it there.  The resume points exist three times:
in `Task.segments`, in the snapshot each goroutine is about to save, and in the
progress file, where a snapshot may arrive long after a newer one.  *AllBacked*:
each of the three, on its own, is *Shaped* (its ranges are those that
`buildSegments` makes, with every resume point inside its range) and answers only
for bytes in the file.  Neither part compares one copy with another, which is
why no order of the saves matters: the file only grows, so a copy that was
backed stays backed (`BackedGrows`), and a restart may take up any of them, or
none.  A snapshot's `ranged` must be kept with its segments, because *Shaped*
depends on it: a plan without ranges is one segment that starts at 0, which is
what makes it sound for `StartOver` to set its resume point back to 0.

*WrittenBeforeRecorded* is the order of `WriteAt` and `s.Current = offset`: what
lies between the start of a range and a goroutine's offset is in the file, so
`Record` moves the resume point over written bytes only.  *NothingSkipped*: while
`run` waits for its goroutines, one that is gone has left its whole range in the
file or an error.  Such a range may have been whole before this start; then it is
not `Pending`, and *AllBacked* says the rest.  *Discipline*: no goroutine of a
segment outlives the wait, and there are segments whenever one is made.

When `Collect` finds no error, every range is in the file (*NothingSkipped*); the
ranges are those of `buildSegments` (*Shaped*), and `Covered` says that they leave
no byte out (`MadeFacts`, `AllFetched`).  A size the servers do not tell and a
server without ranges are the other case of `MadeFacts`: one segment without an
end.  There is one lemma per conjunct (`TypeStep`, `BackedStep`, `DisciplineStep`,
`WrittenStep`, `SkippedStep`, `CompleteStep`), and `SegmentStepEffect` and
`SaveStepEffect` state once what a goroutine's step leaves alone.
`ErrorsHaveCauses` assumes that the servers tell the size, and does not hold
otherwise (section 8).

The counter has an invariant of its own, `ProgressInv`.  `downloaded` is not the sum
of the resume points: `fetchSegment` adds to it when it writes, and moves the resume
point afterwards, so it counts the bytes up to where each goroutine has got (`Reach`).
*CountRight* says so with the set of these bytes, each with its segment, in the
place of a sum: a step that writes adds an interval to the set, one that records
changes nothing in it, and one that starts over takes away what it takes off the
counter.  *InStep*: but for a byte just written, a goroutine is where its segment is,
so a retry counts nothing twice.  *PlannedOnce*: segments are planned only where
there are none, so the counter does not start again above old ones.
*NoneLeftBehind* and *AllAtEnd* carry the resume points to the ends of their ranges
for a complete task, which `TransferInv` does not need: there it is enough that the
bytes are there.  `ProgressAddsUp` is what is left when no goroutine is at work.

*How a Pause ends.*  `LeftOf` is how many steps a goroutine can take once its
context is done: those of its place, and seven for each attempt it has left.
`LeftOfRun` is the same for `run`, with five for each mirror.  The pair is ordered
lexicographically, because `run` starts new goroutines when it turns to another
mirror.  *PauseInv* is that the context is done all the while.

### The engines' invariant

The proof is about all engines at once.  `CommonStep` is what any step of any
engine is to the task's life: a step of a method (`Calling`), a run that moves on or
finishes (`Advances`), or something else (`Beside`); one lemma per engine shows
that its steps are such, and everything after that is proved of `CommonStep`.

`LifeInv` has four parts.  *SpawnedFromInside*: a run that has been counted on and
not been started belongs to exactly one caller that is about to start it.
*Attended*: an active task has a run nobody has cancelled, or a caller that will
give it another status; this one holds however calls overlap, and is
`ActiveIsWorkedOn`.  *OnlyBegun*: runs are begun once.  *OneByOne*, as long as calls
do not overlap: one caller inside, one run at work and only of an active task, and
none left when a wait is over; the window between `Resume`'s unlock and its
`wg.Add` is inside the method, so that the next call does not see it.
`StoppedIsStill` and the contract follow: a run ends the task only while it is
active, because there is no other one.

*LastIsCancelled*, as long as calls do not overlap: whoever is at work is the run
whose cancel function the task keeps, the scheduler's stop has read that one, and
once it waits the context is done and nobody is about to start.  So `StopReachesAll`:
the wait is for goroutines that were told.  `RunLeft` is how far a run is from its
end: its place, four for each mirror it may still turn to, and one for a process
that is to be killed.  Every step of a run makes it smaller, whatever fails
(`HttpLess`, `MegaLess`, `ProcessLess`), and no step of another run, of a caller or of
what a process has started makes it greater (`CallLeaves`, `AloneLeaves`).

*FilesInv* is what deletion needs: whatever mega.nz has sent is under a name that
`Remove` knows.  *HttpTold*, in it, is what `ErrorsHaveFaults` needs between the
attempt that fails and the status that says so: a run that has an error of its own
to judge has met a fault or asked for too much.  *ProcessInv* relates a process to the phase of its run: whoever
has got past a pipe has seen its end, or its scanner has given up; `Reap` comes
after the process has ended; and an exit that came of a kill has a cancelled
context.

### The torrent's invariant

`TorrentInv` has the same plan with clients in the place of runs: one caller inside
and where it thinks it is (*Placed*: the start it is making belongs to nobody and
has no goroutine yet, the one it stops is the current one), goroutines and open
clients only of the current start (*AtCurrent*), no data flow outside an open
client of a running task (*Quiet*), nothing left of a cancelled one (*Left*), and
the kill switch launched with every start that has a proxy and ending only when it
trips or is cancelled (*Guarded*).  `Works` is what any step of one of the three
goroutines is to these.

`SeedInv` adds *Limited*: data flows out through open clients only, whose seed limiter
is launched with them and ends under an upload only when it is cancelled; and
*Told*: a `Cancel` that waits has cancelled the current start.  The three goroutines
of that start take three, two and one step once they are cancelled, and the add
handler has one call to make, which finds the task taken: seven in all
(`CancelNearer`).

### The saves and the dialogs

`SaveInv`: what the save under way has in hand is as right as what is on disk when
there is none.  Whoever has the lock is the only one to change the entries, and an
end that comes between the collection and the write only makes the list less than
up to date, never wrong.

*Undisturbed*, in `SettingsInv`, is `PolicySurvives` for the moments in between:
since the last PUT that found no other under way, only this one may be saving, what
it saves is in force, and between its truncation and its text the file is empty, so
that the text it writes is all there is (`WrittenOver`).  A crash then either finds
nobody saving, and the file is what was answered, or counts as a disturbance.
*AtWorkOnlyUp* is needed because a start may not find requests under way, and
*KnowsPolicy* because `AdmittedByOnePolicy` says nothing about a request before it
is decided: every policy put in force while it waits joins `inForce`, so the one
that `Get` returns is among them.

`DialogInv`: as long as requests are made one at a time, an answer is what is in
force, a change the server has not heard of can be taken back to what is in force,
and otherwise the dialog shows it.

`EntryInv`: an item that may yet be sent (it is in the fields and they will not be
cleared; the submission has still to send it; its request is under way and has not
made a task) has been entered once more than it was added.  For the end of a
submission (`SubmissionsWindDown`) the items are finitely many, whatever is entered
(`FiniteEntries`), and each takes at most four steps: it is sent, the handler takes
one or two, and its answer is heard or lost.

### The feed's invariants

`WireInv`: at most one of the two goroutines is inside a frame (*OneWrites*, which is
what `writeMu` is for); while one is, and the connection lives, its opcode is the
last thing on the wire, and else the last thing is a payload (*WireEnd*); opcodes and
payloads alternate, an opcode first as long as the page's socket is open (*Aligned*);
and each opcode is followed by its own payload (*FramesWhole*).  The page reads two
parts at a time, so what it is handed is one frame (`MessageIsWhole`).

`RefreshInv`: the page is loading just while its last request is asked or answered
and not heard (*LoadingIsAsked*), and an answer to that request was read after
`refresh()` was called (*AnswerIsFresh*).  The answer to an earlier one, whenever it
comes, changes nothing, because its nonce is no longer the page's.

`OtherIsTold`: the reader that returns has closed the channel; the pusher that
returns has closed the connection, which never outlives it.

*PushedInOrder*: the list is read before the lock is taken, so a pong may pass it but
no other list can, because one goroutine does both; the list that waits is as new as
any on the wire (`OrderOfWrite`), and what the page takes off the front leaves the rest
in order (`OrderOfRest`).

### Only model-checked

The ten liveness properties (`StopReturns`, `ExitIsNoticed`, `SeedingEnds`,
`CancelReturns`, `PauseEnds`, `TornIsReplaced`, `DiskCatchesUp`, `SubmitEnds`,
`PageCatchesUp`, `HandlerReturns`), and nothing else: liveness under fairness and
`ENABLED` are outside what the prover does.  Of six of them the part that is a matter
of safety is proved, for all values of the constants: that whoever is waited for
knows of it (`StopsReachAll`, `CancelsReachAll`, `SeedersAreLimited`,
`GoroutinesAreTold`), and that a number that is never negative goes down with
every step and up with none (`AllRunsWindDown`, `CancelsWindDown`, `PausesWindDown`,
`SubmissionsWindDown`).
What fairness adds, that these steps are taken, is TLC's part.

Inductions over data are out of reach too, because the library's induction
theorems take an operator as a parameter.  Where one would be needed the proofs
do with sets: the counter's sum is the size of a set, and the first element of a
plan comes from the theorem that strict inclusion among finite sets is well-founded,
which has no such parameter.  No module has a RECURSIVE operator.

## 8. Where the code and its comments disagree

* **`sched_pause`, `PauseFreesSlot`.**  `scheduler.go:143-144` says that `Pause`
  frees a slot.  `Paused` is not a finished status, so the reschedule at the end
  of the same call resumes the task whenever it ranks within the limit.
* **`torrent_resumed`, `WholeIsReported`.**  `task_test.go:129` of `torrentengine`
  expects a torrent that was paused and resumed to complete.  When the content
  becomes whole around the pause, `runDownload` finds a task that is not active,
  leaves its status alone and returns (`task.go:269`); `Resume` starts no other, so
  the task is active for ever, and holds a slot.
* **`transfer_torn`, `SidecarReadable`.**  `progress.go:18-19` says that the
  sidecar lets a download resume after a restart.  `fetchSegment` saves its
  snapshot outside the lock; two segments that save at once may leave a shorter
  text over a longer one, which `New` then refuses.  The run shows it after an
  ordinary pause with no fault at all.
* **`tasklist_restart`, `ListSurvives`.**  `store.go:9-13` says that the task list
  survives a restart, if only as "read-only history", and so does the header of
  `scheduler.go`.  A start makes an empty scheduler (`main.go:34`) and never calls
  `Load`; the first save, two seconds later, puts its own list over the file, and
  what the process before it had left there is gone.  What a fix would do with the
  list is open; the property asks only that the next list tells of each task that no
  request has removed.

Other behaviour a reader may not expect, which the models show and the
properties are worded around:

* *Scheduler.*  Add handlers pass the limit (`stray`); a slot freed by a transfer
  that ends stays idle until the next request (`lapsed`); a `Resume` that overlaps
  with a stop may leave a transfer at work in a task that is paused, cancelled or
  removed (`overlapped`).
* *Task list.*  An exit may come in the middle of a save and leave no list.
* *HTTP engine.*  A download that was renamed after the server's hint starts over
  after a restart.  With a size the server does not tell, a task paused after its
  last byte arrived asks for one byte too many and fails (`overshot` in `HttpTask`,
  `SizeKnown = FALSE` in `SegmentTransfer`).
* *MEGA engine.*  A `Pause` while the metadata is being fetched ends in error
  (`MetadataCancelled`).
* *Subprocesses.*  A program that yt-dlp has started holds up a `Pause`, and with
  it the scheduler's lock, for as long as it holds the output (`helped` in
  `StopReturns`).  A process that writes a line longer than the scanner takes may
  block until somebody stops the task.
* *Torrents.*  A task that is resumed after its kill switch has tripped runs
  without one (`Tripped` in `WatchedUnlessTripped`).  The comment on `DetectLeak`
  (`ipcheck.go:52-54`) speaks of a check before the start, which nobody makes.
* *Settings.*  Overlapping `PUT /settings` may leave a file that does not parse
  (`disturbed`); a policy whose save failed stays in force; answers that cross leave
  the dialog showing what is not in force (`astray`).
* *Add dialog.*  One success clears the lines that failed and what was typed
  meanwhile; a file that cannot be read locks the button (`"stuck"`); a torrent
  whose `Resume` fails is an error and a task at once (`troubled`).
* *Page.*  One that has lost its connection does not connect again.

## 9. What is not modelled

* Resolvers, link parsing and MEGA's cipher: functions of their input with no
  state beyond one call.
* The text of yt-dlp's and BoothDownloader's output: progress, log lines, and the
  warning taken from them.  Long lines are modelled by what they do to the pipe.
  The periodic update of yt-dlp touches no task.
* The views of the page, its filters and selections, and the options sent along
  with a download.
* Configuration, authentication, static files, the WebSocket handshake beyond its
  success, and the bytes of a frame's header.
* A client that keeps its connection open and reads nothing: there is no write
  deadline (`websocket.go:94`), so a writer blocks for good.  `HandlerReturns`
  speaks of clients that go.
* Speeds and times shown; names of files and their collisions; preallocation
  except that it may fail, checksums except that one may not fit.
* Servers that do not tell the size are in `HttpTask` and its run; in
  `SegmentTransfer` they are in the specification and in the proofs, not in the run.
  Servers that break HTTP are in neither: a body is a prefix
  of the range that was asked for, or ends in an error.
* Go's memory model: fields are read and written under their locks, and no model
  has a data race.

The torrent library, the subprocesses, the network, the disk and the browser are
modelled by what the code sees of them.

## 10. What could be added

The work was done from the centre outwards: the scheduler, the contract and the
engines against it, the transfer, the two stores, the feed, and then the page's
dialogs; each with its run first and its proof after.  In order of what each would
add:

1. `TorrentSchedule`: one torrent composed with a reschedule, for the slot that
   is held for ever when completion meets a pause (`task.go:269`), and what a fix
   would have to keep.
2. What can be said without fairness of `DiskCatchesUp`, `TornIsReplaced` and, beyond
   the order of pushes, of `PageCatchesUp`.
3. The frame encoding of `websocket.go` as operators with a decoder as the
   reference, at each of the three length forms.
4. A second server process on the same data directory, which nothing prevents.
