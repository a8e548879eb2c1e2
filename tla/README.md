# AutoFileMover: specification and proofs

AutoFileMover watches download folders, asks a language model where each new
entry belongs in the media library, lets a user review and change the answer,
and moves or deletes the files, one at a time, from a background queue. It runs
unattended on a share that may vanish, is restarted at any moment, and handles
files that exist once. This directory holds TLA+ models of the parts where that
is hard, the TLC configurations that check them, and TLAPS proofs of what holds
for every size of the system.

Contents: [inventory](#inventory) · [modules](#modules) · [runs](#runs) ·
[disagreements](#disagreements-between-code-and-documentation) ·
[proofs](#proofs) · [abstractions](#abstractions) · [plan](#plan)

## Inventory

| Component (source) | State | Operations | Correct means | Modelled in |
| --- | --- | --- | --- | --- |
| **Item locks** (`internal/engine/locks.go`) | a map from source path to a reference-counted entry with a one-slot channel | `acquire` (waits, honours the context), `tryAcquire`, `release`, `drop` | one mutator per item; entries neither leak nor disappear early; no lost wakeup; the queue is fair | `ItemLocks` |
| **Job queue** (`internal/store/jobs.go`, `internal/store/reconcile.go`, `internal/queue/`) | the `jobs` table, the claimed job, the last health probe | enqueue, retry, delete, clear, claim, complete, fail, reschedule, reset at start, prune | the worker keeps the job it runs; the same work is open once; no job without item; an outage fails nothing; every job ends | `JobQueue`, `Backoff` |
| **Plan engine** (`internal/engine/plan.go`, `conflicts.go`, `target.go`, `engine.go`, `reconcile.go`) | `items` row with one record per file (action, destination, overwrite, conflict, done) | discovery, classification, re-planning, conflict scan and resolution, execution, reconciliation | nothing is lost without a decision; no collision is passed over; the row tells what has happened on disk | `FilePlan`, `ItemPlan` |
| **Mover** (`internal/mover/mover.go`) | the two file trees | `Move`, `Delete`, `RemoveEmptyDirs`, copy across filesystems | does not overwrite; a file is always somewhere, whole; folders in use stay | `Mover`, `Transfer`, `EmptyDirs` |
| **Classification** (`internal/ai/classifier.go`, `internal/ai/client.go`, parts of the plan engine) | rejected options per model | prompt, call with retry, parse, confidence threshold, decisions, target | the film is never deleted; files get the action they were named with; only existing folders | `Classification`, `ChatClient` |
| **Foundry discovery** (`internal/foundry/`) | trusted endpoint and its generation, cached catalogue | coalesced discovery, listing of deployments, signing of requests | what is offered works; a request goes only to the account in force; listings end and are whole | `Discovery`, `Deployments`, `ChatClient` |
| **Watcher** (`internal/watcher/watcher.go`, `ProcessAll`) | watched paths, debounce timer, `scanMu` | events, ticker, `Resync`, scans | every download is processed in the end; watches follow the configuration | `Watcher` |
| **Background refresh** (`internal/web/refresh.go`) | the running refresh and its status | `scheduleSourceRefresh` | one at a time, shared by all requests, no request lost | `SourceRefresh` |
| **Progress** (`internal/engine/progress.go`) | one shared record | phases, counts | idle is shown when nothing runs | `Progress` |
| **Item store and settings** (`internal/store/store.go`, `settings.go`) | SQLite, one connection | upserts, the unique index on open jobs, settings key by key | rows are written whole; a key is stored with its endpoint | `ItemPlan`, `JobQueue`, `Settings` |
| **Web handlers** (`internal/web/handlers.go`, `server.go`, `ai.go`) | none of their own | edit plans under the item lock with a short wait; queue everything that touches storage | a request never waits for the storage | the handlers are actions of the modules above |
| **Scanner** (`internal/scanner/scanner.go`) | none | lists source entries, refuses unstable ones | lists what is there | the stability window, in `Watcher` |
| **Media info** (`internal/mediainfo/`) | none | quality and episode from a name | the same episode is recognised | as a relation, in `FilePlan` |
| **Process** (`cmd/autofilemover/main.go`) | context | wiring, signals, ten seconds to stop | a stop loses no work | `JobQueue`, `Watcher` |
| Configuration, log buffer, version, user interface, demo, site tools | display and start-up values | | | not modelled |

**How they interact.** Two long-running goroutines change items: the queue's
worker, which runs user-requested jobs one by one, and the watcher's scanner
(`ProcessAll`), which finds entries, classifies them and executes confident
answers itself. HTTP handlers change plans directly, and enqueue jobs for
anything slow. All three meet at the lock of the item's source path: the worker
waits for it without limit, handlers for a moment, the refresh not at all
(`tryAcquire`). Scans take turns source by source (`scanMu`). The `jobs` table is
shared between the worker and everyone who may delete rows; the progress record
between the worker and the scanner; the discovered endpoint between scans,
connection tests and the settings page. The database and the two file trees are
separate stores: no transaction spans them.

**What is hard.** A stop between a move and the row that records it. A plan that
changes while a conflict scan reads folders without the lock. Rows deleted while
their job runs. Contexts that end in the middle of an operation and take the
final write with them. Errors that look permanent because the share has gone.
Entries of the lock table that are dropped just as somebody asks for them.
Copies across filesystems that fail or lose power half-way. Discoveries that
overlap requests signed for the endpoint of the one before. Events that come
while the scan they should start is running. Saves that are one statement per
key. `PROJECT.json` lists each hazard at its line.

## Modules

| Module | Models |
| --- | --- |
| `KeyedMutex` | what the lock table promises: per key one owner, and who asked waits until it owns the key or gives up |
| `ItemLocks` | `locks.go` at the granularity of the table's mutex and of the channel: entries, references, slot, FIFO of blocked senders |
| `ItemLocksRefinement` | the mapping from `ItemLocks` to `KeyedMutex` |
| `JobQueue` | the `jobs` table, the worker's loop, and everyone who edits the table: handlers, scanner, shutdown, crash, storage |
| `WorkQueue` | what the queue promises: an accepted work is open until its run has ended or it is taken back; one runs, and what runs stays |
| `JobQueueRefinement`, `ItemPlanRefinement` | the mappings from the jobs table, and from the queue that `ItemPlan` sees, to `WorkQueue` |
| `Backoff` | when a job that failed runs again |
| `FilePlan` | the plan of one item as data, and the pure functions on it |
| `ItemPlan` | the life of one item: user, worker, scanner, mover, crash |
| `Transfer` | what `Move` promises: nothing is replaced, success is at once, a failure changes nothing but for the cases it names. The code keeps it as long as `Lstat` tells what is there |
| `Mover` | `Move` system call by system call, several calls with one destination, storage failures, cancellation, crash, power cut |
| `MoverRefinement` | the mapping from `Mover` to `Transfer` |
| `EmptyDirs` | `RemoveEmptyDirs` against a download client that goes on writing |
| `Classification` | from the AI's answer to the plan of an item, while settings and folders change |
| `Discovery` | `Provider.Catalog` over `Client.Refresh`: the gate, the cache, the trusted endpoint |
| `ChatClient` | the chat requests of scans and tests over `Discovery`: signing, and the retry without a temperature (it EXTENDS `Discovery`: the composition of the two) |
| `Deployments` | the walk over the pages of deployments, and which of them are offered |
| `Watcher` | the watcher's loop, its timer, `Resync` and the scans of all sources, which may be away or unreadable |
| `SourceRefresh` | the background refresh that polls share |
| `Progress` | the one progress record that scanner and worker write |
| `Settings` | overlapping saves of the settings, key by key |
| `*Proofs` | the theorems about the module of that name (`ChatClientProofs`: also `Discovery`; `MoverProofs`: also `EmptyDirs`; `ItemPlanSafetyProofs`: further ones about `ItemPlan`; `BackgroundProofs`: `SourceRefresh`, `Progress`, `Deployments`; `DecisionsProofs`: `Classification`, `Settings`, `Backoff`) |
| `MCItemPlan`, `MCMover`, `MCBackground`, `MCDecisions` | instances for TLC; `JobQueueRefinement` and `ChatClient` are checked as they are |

Definitions named "Mutant" in a comment state a plausible bug of the definition
that follows them. They are in no next-state relation; each is used to make sure
that some property notices it.

### ItemLocks

`m` is the map, `refs` and `full` the reference count and the slot of each entry
object, `pc`, `key`, `ent` where each goroutine is, which path it asked for and
which entry it looked up; `ahead` is the order of the goroutines blocked on a
channel. `Arrive` is the get-or-create of `acquire` under `l.mu`; the `select`
that follows is `Send`, `Block` or `Cancel`; a release hands the slot to the
longest waiting sender (`ReleaseTo`), as Go's channels do, or empties it
(`ReleaseFree`); `Drop` gives up the reference under `l.mu`. `TryAcquire` is one
step because the slot is tried while `l.mu` is held. An entry object nobody
refers to may be allocated again (`Fresh`), so that a dropped entry and its
successor can be confused in the model whenever the code could confuse them.

### JobQueue and Backoff

A row has a status, an item and a work (kind and payload together: the unique
index covers both). Time is abstracted to what `ORDER BY run_after, id` and
`run_after <= now` tell apart: `delayed` rows are not due, and `earlier` is the
order of the others. One SQL statement is one step, since the store has one
connection; `RetryJob` is two statements and two steps. The worker is `boot`
(before `ResetRunningJobs`), `ready`, `claim`, `busy` (inside `dispatch`),
`record` (about to write the outcome). `execute`'s classification of the error
is the outcome: `complete`, `fail`, `defer` (permanent error but the probe found
the storage away), `retry`, `handback`. `cancelled` is the context that
`SIGTERM` ends: every statement of the worker fails from then on, and the row it
was about to write stays as it is until the next start.

`Backoff` has the numbers that `JobQueue` leaves out: `attempts` and the wait in
milliseconds, with the doubling, its cap and the random spread of a fifth.

`WorkQueue` is the queue as its users need to know it, without rows, order, retries
and time: the works that are open and the one that runs. Two modules implement it.
In `JobQueueRefinement` a work is open while it has a pending or a running row and
runs from the claim to the written outcome; in `ItemPlanRefinement` the open works
are the set `jobs` and the one that runs is `job`. What the promise leaves open is who
takes a work back: `Withdraw` lets anybody do so, as handlers, refreshes and pruning
do, and excludes only that the running work, or its item, is taken. So the short form
of the queue that `ItemPlan` works with is tied to the table: both keep the same promise.

### FilePlan and ItemPlan

The source folder is the set `src` of the files in it (`folder`: it exists); the
library `lib` maps each path (folder and name) to the content that is there. A
content is a file of the item or one of `Others`, so that it is visible when
something is overwritten, removed or left in two places. `files` is the plan
(`items.files`), one record per relative path; `Root` is the entry with the
empty path that stands for an empty folder.

| Actions | Code |
| --- | --- |
| `PlanFileAction`, `SetItemTarget`, `ResolveConflict`, `RejectItem` | the methods of the same name, with the `scheduleConflictScan` their handlers end in |
| `Enqueue` | `handleConfirmItem`, `handleFileAction`, `handleReclassifyItem`, `handleCreateItemFolder` |
| `ApplyPlan`, `ApplyFileAction` | the checks of the methods up to the first file, including the authoritative conflict scan and the write of "moving" |
| `RemoveExisting`, `MoveFile`, `MoveRefused`, `DeleteFile`, `StorageFails` | `execFile`: each call of the mover, with the outcomes `Transfer` allows and, under `blind`, those of an `Lstat` that fails |
| `Persist`, `Cleanup`, `Confirm` | `executePlan`'s write after each file, `finalize`, the last write |
| `ScanConflicts`, `MergeConflicts` | `DetectItemConflicts`: the scan without and the merge under the lock |
| `ReclassifyItem`, `CreateTargetFolder`, `Refused`, `Record` | the other jobs, a job that is turned away, and the end of a job |
| `FindWithoutAI`, `ClassifyFails`, `Classify`, `SweepLeftover`, `RefreshItem` | `processCandidate` and `refreshItemFiles` |
| `Crash` | the process dies, or its context ends, between any two steps |

`mem` is the copy of the row the executing goroutine loaded and writes back
whole. `agreed` is a history variable: the content the user had in front of them
when they chose "replace".

### Mover, Transfer and EmptyDirs

In `Mover`, `src[m]` is what is left at the source of call `m`, `dest` whose
content each name at the destination leads to (`made`: it is a folder), `whole`
the contents that are complete and `safe` those that are flushed. The steps are
the system calls: `Lstat`, `Rename`, and for a copy `Open` (O_EXCL), `Write`,
`Flush` for each file, `Undo` (`RemoveAll` of the destination), `RemoveSource`.
Each may fail (`CopyFails`, `WriteFails`, the second disjuncts of `Undo` and
`RemoveSource`). `Crash` ends all calls; with a power cut, what was not flushed
is gone. `Rivals` says whether two calls may overlap.

`Blind` says whether `Lstat` may fail where something is. The code goes on as if the
destination were free (`mover.go:37` asks for `err == nil`): `Rename` then replaces a
file, and a copy fails because the file exists and `Undo` removes it. `exposed` is a
history variable: the entries that had nothing left at their source, or not all, when
this happened. `Kept` and `AllOrNothing` speak of all others. `misled` says that it has
happened at all, and ends what `ImplementsTransfer` promises.

`Transfer` states the promise in one step per outcome, seen by a caller: `done`,
`exists`, `failed` (nothing has changed), `left` (complete copy, the source could
not be removed), `dirty` (remains of a copy that could not be removed), or an
interruption. `MoverRefinement` hides a copy until its call has returned.

`EmptyDirs` is the walk, the visit of the deepest folder first (`Look`: the
listing; `Remove`: the `rmdir`), with `AddFile` and `AddDir` of a download client
between any two of them.

### Classification

`sc` is the `scanContext` an operation took at its start, `reply` the answer of
the AI. `Decision` is how an answer is matched to a file (path, then base name),
`Decide` is `applyDecisions`, `Protect` is `protectMainVideo`, `ResolveTarget` is
`resolveTarget` with `matchSubfolder`. A path is a folder and a base name, a
folder of the library a title and a spelling: what the code compares
case-insensitively has one title.

### Discovery, ChatClient, Deployments

`endpoint` and `generation` are `Client`'s, `gate`, `snapshot`, `refreshErr` and
`lastAttempt` are `Provider`'s; `lastAttempt` is "new" for 15 seconds, "minutes"
for five minutes, and then "old" - what the two lifetimes tell apart. `got` and
`mine` are what a caller has read and at which generation. `ChatClient` adds the
requests: `Verify` and `Sign` are the two comparisons of `Authorize` around the
acquisition of a token; `Reject` is the HTTP 400 that is answered by a second
request without a temperature. `recent` and `rejections` are history variables.
`Deployments` is the one step `ListDeployments` of `Discovery` in detail.

### Watcher, SourceRefresh, Progress, Settings

`Watcher` keeps `watched` (the map of the program) apart from `armed` (what the
kernel reports on): a folder that goes away takes its watch with it, and the
program does not notice. The path stays in `watched`, so no `Resync` arms it again
when the folder comes back; from then on its downloads are found by the ticks alone.
`run` is the loop, `resync` and
`want` the two goroutines that may be in `Resync` with the list they have read,
`scan`, `todo`, `at` and `scanMu` the scans. A source in `broken` is one of which
something cannot be read - the settings, the database, the folder, the listing of an
item found before, or of the candidate itself: `ProcessSource` returns from it
(`newScanContext`, `reconcileSource`, `ScanSource`) or passes the candidate over
(`SkippedFiles`, `Inspect`). It is checked when a source is entered and again when
its candidate is processed. An entry is "fresh" (written to within the
stability window), "stable" or "done".

`SourceRefresh` has `running` and `cooling` (ten seconds after `FinishedAt`), and
what a refresh is for: a change is `pending` until a task has read the sources.
`Progress` is the record with its percentages and what each activity is doing. In
`Settings` a save writes `todo` key by key in any order, and the API key last.

## Runs

The bounds are in the `.cfg` files; every integer of the models is bounded by
the constants, except the attempts of a conflict scan, which the code bounds by
`conflictScanAttempts` = 3, and `generation` in `Discovery`, which `MaxCalls`
bounds.

| Run | Instance | Shows |
| --- | --- | --- |
| `queue` | 2 items, 2 works, 2 rows (0.13 million) | work is open once, no orphans, outages fail nothing, no accepted work is lost and none is taken from the worker (the refinement of `WorkQueue`), and every pending job settles once the process stays up and the storage writable. Two rows are a running and a pending one, or a failed one and the open twin its retry meets |
| `plan` | 2 files (two releases of one episode), 2 names, 1 folder; crashes, automatic execution, rejection, plan and reclassification jobs (1.4 million) | no loss without a decision, no collision passed over, a true journal, conflicts belong to their plan - with a crash between any two steps |
| `plan_storage` | the same with failing storage, an `Lstat` that fails (`blind`), unreadable folders and a single-file move (0.4 million) | the row tells exactly which files have left, whatever failed; refreshes take back only what is not claimed (the refinement of `WorkQueue`) |
| `plan_replace` | 2 folders, 3 names, both ways to resolve, a single-file move (0.7 million) | only what the user agreed to is replaced; no collision of a file with itself; files go to the item's target |
| `plan_live` | 1 file; plan, folder and single-delete jobs, late files (20 thousand) | queued work is dealt with, no item stays "moving" |
| `mover` | a file and a folder of two files with one destination, one call at a time, every system call may fail; then 3 nested folders (1.1 million) | a file is always in the source or whole at the destination, but for what an `Lstat` that fails has exposed; `Move` implements `Transfer` up to the first such `Lstat`; the clean-up takes no file that arrives |
| `discovery` | 2 callers with 2 calls each, 2 endpoints, 1 model that rejects temperatures (0.5 million) | discoveries are shared, a client is refused only for a newer discovery, requests are signed for the current account, a model rejects a temperature once per caller under way, and every call returns |
| `background` | 3 goroutines, 2 paths, 3 entry objects; 1 source, 1 timer, 1 change (of the sources, of a folder, or of what can be read), 2 downloads; 2 refresh tasks; 2 activities with 3 files; lists of 1 to 3 pages with every kind of link (59 thousand) | one owner per item, exact references, the refinement of `KeyedMutex`, and that every request for a lock is granted; downloads are processed as soon as their source can be read, watches follow, events lead to a scan; refreshed changes are read; idle is shown; listings end and are whole |
| `decisions` | 2 videos, 3 paths, answers naming 2 files, 2 spellings of a folder; 2 keys, 2 pages, 3 saves; 40 failures in a row (2.5 million) | the film is kept, named files get their action, targets exist; the API key is stored with its form; delays keep their bounds |
| `resume_loss`, `mover_race`, `mover_overwrites` | 1 file; 2 calls of `Move` at a time; 2 calls one after the other | the disagreements below |

Why the bounds are enough: the code treats files of an item independently except
for their order, the shared destination folder and the single lock, so two files
show every pairwise effect; a folder more lets the target change under a plan;
one foreign content suffices for a collision by name or by episode. `SameEpisode`
is not symmetric in the instances: `x` is another release of the episode in `b`.
In `discovery` two callers with two calls each are a discovery, one that overlaps
it, and a client that was given its endpoint before. In `background` three goroutines
are a holder and two waiters whose order matters, and the one that has released comes
back as the newcomer; as many entries as goroutines are as many as can be alive. One source
suffices for the races of `Resync`, timer and scan; the order of sources plays no
part in any of them. Forty failures pass the twentieth, where the code stops
doubling. The three `MC` modules with a variable `moves`, or a stage, put
components side by side that share no modelled state: one of them moves in a
behaviour, the others rest, so that the states add up and do not multiply.

`CHECK_DEADLOCK FALSE` stands where the system may really stop: an item whose
folder has gone and whose row is removed is finished (the runs of `ItemPlan`); all
moves done or colliding, and folders swept (`MCMover`); all calls made
(`ChatClient`); the process shut down, the page closed, the list read
(`MCBackground`, where `Served` shows that the locks get nobody stuck); all questions
asked and all saves made (`MCDecisions`). `queue` checks that nothing gets stuck.

**What a run includes.** In `ItemPlan`, `Requests` are the works the user may
queue and `Events` switches parts of the environment on: `auto` (confident
answers are executed at once), `crash`, `hiccup` (storage and AI fail), `blind`
(`Move` does not see what is at the destination, because `Lstat` fails), `unreadable`
(a folder cannot be listed), `replace` and `give_way` (how collisions are resolved), `reject`, `arrival` (files keep arriving). Some properties do not
hold under all of them at once; which, and why, is the subject of the next section.

**Fairness.** In `ItemLocks` every goroutine that can proceed does, and every
holder releases: all callers `defer` the release. In `JobQueue` the worker's own
steps and its timers are weakly fair; that a job which is run again and again ends
in an outcome that is not a retry at some time is strong fairness on
`Succeed \/ GiveUp`. This is an assumption about outcomes, not only about the storage:
an error that the code takes for a transient one, and that is permanent, contradicts
it (a single-file move onto an existing file does: see below). So `JobsSettle` shows
that the queue's order, delays, crashes and resets keep nobody from their turn, not
that every error comes to an end. It has as premise that the process stays up. In
`ItemPlan` execution is weakly fair; `Claim` is strongly fair per work, which is
what `JobsSettle` shows about the queue's order; a claimed job's next step is
strongly fair because the worker waits in the FIFO queue of the item lock
(`Served`) while the users' handlers hold the lock for a moment each. In
`ChatClient` a discovery under way proceeds or fails (every request to Azure has
a time limit), and `Enter` is strongly fair because a Go channel serves its
blocked senders in order. In `Watcher` the goroutines run, time passes for
downloads that have ended (`Settle`) and for the ticker (`Tick` strongly fair:
it fires again and again, and Go's `select` picks among what is ready), and
`scanMu` is Go's mutex, which starves nobody (`EnterSource` strongly fair); a
source that is added, a folder that goes and a shutdown are at nobody's duty. In
`SourceRefresh` an open page polls and a refresh runs to completion (it has a
context of its own). In `Deployments` every query is answered or times out.
Of users and of accounts nothing is assumed. Of the storage it is that a call returns,
that one which reports an error has not been carried out (`RemoveAll` excepted), and
what the fairness above says; a source that stays unreadable is excused by `Processed`.

## Disagreements between code and documentation

Three are kept as runs that end in a counterexample:

- `resume_loss` - *replace, crash, resume*. `execFile` removes the existing file,
  moves the new one, and the row is written after that. If the process stops
  before the write and both have the same name, the resumed plan removes
  `OverwritePath` again - the file it has just moved - and then fails because
  the source is gone.
- `mover_race` - *two moves, one name*. `Lstat` and `Rename` are two calls, and
  `rename` replaces a file. The worker and a scan hold the locks of different
  items; of two moves to the same destination the later one destroys what the
  earlier one has moved, and both report success.
- `mover_overwrites` - *an `Lstat` that fails*. `Move` returns "already exists" only
  if `Lstat` succeeds. With any other error than "not there" - on a share: an I/O
  error, a stale handle, a time-out - it goes on: `rename` replaces the file that is
  there, or, if it has to copy, `O_EXCL` fails with "exists" and the clean-up of a
  partial copy (`mover.go:50`) removes the file that was there before. One call at a
  time is enough, and the comment of `Move` promises that nothing is overwritten.

Others met while modelling, not kept as runs. Those with a run in parentheses
show when the named event, request or statement is added to it:

*Plans and executions*

- Two files of one item collide with the same existing file (by name and by
  episode) and both are resolved with "replace": they carry the same
  `OverwritePath`, and the second deletes what the first has moved
  (`plan_replace` with `MCPair`).
- `Move` reports an existing destination with an error that wraps nothing, so
  `isPermanent` does not see `fs.ErrExist`; a single-file move onto an existing
  file is retried for ever (`JobsEnd` of `plan_live` with a single-file move).
- A change of the plan after `mergeConflicts` has released the lock and before
  the job row is completed finds the unique index occupied, is not enqueued, and
  is scanned by nobody until the plan is executed (a pending `detect` job is in
  `jobs` until `Record`).
- With `blind`, `OnlyAgreedLosses` fails for the same reason as `mover_overwrites`,
  if single files are moved: nobody agreed to what the move replaces or removes. The
  moves of a plan come after a scan of the folder, which sees what `Lstat` does not,
  unless it is `unreadable`.
- With `crash`, the invariant `NoSelfConflict` of `plan_replace` fails: after a
  stop between rename and row, the resumed plan reports the moved file as a
  collision with itself (README.md: "resumes the plan where it stopped"). `JournalExact`
  fails with it for the same reason: the row does not know of the last move.
- With `hiccup`, `NoSelfConflict` fails as well: a copy whose source could not be
  removed is in both places.
- With `crash`, `MovingEnds` of `plan_live` fails: an automatic move stores
  "moving" and has no job; after a restart nobody resumes it.
- With a single-file move among the requests, `NoUnreviewedCollision` of `plan`
  fails: `ApplyFileAction` looks at no collision; `Move` itself refuses the same
  name but not the same episode.
- With `unreadable`, `NoUnreviewedCollision` of `plan` fails: `listDestEntries`
  answers a failed `ReadDir` with an empty listing.
- With `arrival`, `OnlyAgreedLosses` of `plan` fails: the `Root` entry of an
  empty folder is deleted with `RemoveAll`, files that arrived since included.
- A stop between `Cleanup` and `Confirm` leaves an item without a folder, and
  `RefreshItem` removes its row: the move is done and its record gone.
- A rejection while the item is being executed is overwritten by the
  execution's copy of the row.
- With `hiccup` and `replace` together, `OnlyAgreedLosses` fails: a copy whose source
  could not be removed stays at the destination with the old file gone. The source is
  deleted as a single file, which leaves "replace" in the plan and the entry done, and
  a single-file move of the same entry then deletes the copy.
- With reclassification, `PlanFollowsTarget` of `plan_replace` fails: an answer
  without a target leaves the old destinations in the plan.
- A single-file delete does not clear a recorded conflict, and `ResolveConflict`
  accepts a file that is done (this is why `ConflictMatchesPlan` speaks of open
  files; `detectConflicts` says that it refreshes every file).
- A plan made by hand for an item that was found before an AI endpoint was
  configured is replaced by the first scan with one (`Candidate`: `typed` is
  still false), against the comment in `processCandidate`.

*Decisions and settings*

- A file that is to be kept "stays for manual review" (README.md); if another
  file of the item can move, a confident item is executed at once and becomes
  "auto_moved", with the kept file left in the source and nothing to review
  (`Answer`).
- What-If mode that is switched on during a scan is not seen by it: `sc` was
  taken at its start, while the settings page and the documentation promise that
  no file is touched from then on. The same holds for a library's `use_subfolders`.
- The comment on `scanContext` calls it "loaded once per scan";
  `CreateTargetFolder` builds one of its own.
- Two folders that differ only in case: the first of the listing is taken,
  whatever the AI named.
- A save that is cut off half-way can leave the new endpoint beside the old API
  key (`KeyWithItsForm` promises the converse only).
- A new library and its `use_subfolders` flag are two statements.

*Background*

- `Percent` is documented as 0..100, but a scan that begins under a plan resets
  `Total`, and the plan then reports its files against the total of the scan:
  the percentage can exceed 100 (`percent <= 100` is no invariant of `Progress`).
- An item that stays unreadable makes every scan abandon its source before any
  candidate is looked at (`reconcileSource` joins the errors of all items), new
  downloads included; nothing of it is shown but a line in the log.
- The watch of a folder that goes and comes back is never renewed: `Resync` adds only
  what is not in `watched`. `WatchesFollow` is about that map.
- A discovery that fails because its first caller went away is kept as a failure
  for everyone for 15 seconds (`Fail`).
- A refresh of the account while a scan waits for an answer makes the scan's next
  request refused, and its item an error (`RefusedAfterRefresh`).
- On shutdown `RescheduleJob` is called with the context that has just ended, so
  the job is not "handed back" (`Record` with `cancelled`); the reset at the next
  start makes up for it.
- Between `RetryJob`'s two statements the twin that made the first one fail may
  be deleted; the failed row is dropped all the same (`RetryDrop`).
- A source that is configured before the watcher's loop has started makes the
  request's `Resync` use a watcher that does not exist yet (`ApplyNothing`).

## Proofs

TLAPS checks these for all values of the constants: sets of goroutines, rows,
callers, files, folders, pages of any size, and no bound on how often anything
happens, but for the bounds that are constants of the specification and may have
any value. The assumptions are the named `ASSUME`s of the modules, which TLC
evaluates in the runs, and hypotheses of single theorems. `ItemLocks` assumes
finitely many goroutines, because the references are counted, and
`RejectionsAreRemembered` finitely many callers; `MoverProofs` assumes
`Rivals = FALSE`, because with rivals the claims are false (`mover_race`). The
hypotheses of `ItemPlanSafetyProofs` name the events and requests under which a
claim is true; all of them hold in the runs that check it.

**`ItemLocksProofs`.** `IInv` adds to the properties: what each goroutine has in
each place (`Roles`), that an entry belongs to one key, that the count equals
the users (`Counted`), that a holder fills the slot, that it is the only holder of its
entry, that a full slot has a holder, and that nobody is queued on an empty slot. Mutual exclusion per
*path* is not inductive: it needs that two goroutines at the same path have the same
entry (`Roles`, via `m`), which needs that an entry is dropped only with its
last user (`Counted`). From `IInv`: `TypeCorrect`, `Mutex`, `Refs`,
`NoLostWakeup`, `TryAcquireIsFair` (the action property) and `Refinement`:
every step of the table is a step of `KeyedMutex` or a stutter.

**`JobQueueProofs`.** `IInv` adds `WorkerState`: inside a job its row is the one
running row; before a claim no row runs unless the context has ended; at any
time at most one; and an outcome "fail" follows a healthy probe. The exception
for an ended context is essential - the outcome of the last job is not written
then, so a row stays running until the reset at the next start. All deletions of
handlers and scanner go through one lemma (`RemoveIsSafe`): removing rows that
are not running, and no item of a row that stays, keeps the invariant. From
`IInv`: `TypeCorrect`, `WorkerKeepsJob`, `OneJobRuns`, `WorkIsOpenOnce`,
`JobsHaveItems`, and the action properties `WorkerEndsJobs` and
`OutagesFailNothing`. `QueueKeepsWorks` is the refinement of `WorkQueue`: every
deletion takes works back that are not running (`RemovalWithdraws`), a retry is an
acceptance because its item is still there and rows have works (`HasWork`), and a
work ends with its row because no twin is open (`OpenOnce`).

**`ItemPlanProofs`.** For any files, folders, names, requests and events:
`TypeCorrect`, `JournalIsTrue` (`DoneIsTrue`) and `CollisionsMatch`
(`ConflictMatchesPlan`). The row is overwritten with the copy of an execution and
with what a conflict scan has read a while ago, so the invariant says the same of
all three (`Plans`, `Journal`), and that the copy is of files that are listed and
still has the file whose turn it is (`Copy`). The functions of `FilePlan` are
treated first: each keeps a plan `Good` and marks nothing as done (`NoneNew`).
That there is a first pending file is the least element of a set of naturals.
`WorksAreKept` is the refinement of `WorkQueue`; its invariant (`Registered`) says
that a claimed work stays open, that only an item with a row has works, and that an
execution never writes the row of an item that is gone.

**`ItemPlanSafetyProofs`.** The properties that need more than the plan to be well
formed. `BInv` adds to `IInv` that destinations are those of their files (`Placed`),
that a scan records no collision for what is done (`Closed`), that row and copy
decide the same while a file has its turn (`AsListed`), what each stage implies
(`Staged`), and that an empty folder has one entry (`RootAlone`). From it every step
is of one of a few kinds (`Steps`): it leaves plan and disk alone (`Idle`), revises
the plan (`Revision`), begins an execution (`Beginning`), writes the copy
(`Progressing`, `Released`), or touches a file. Each theorem is then an invariant
that the kinds keep, of the plan that is current (`Live`: the copy while there is
one, else the row). None holds unconditionally; a hypothesis stands for an event
that refutes the claim when it is added to the run, as the list above says:

| Theorem | Property | Hypotheses | Invariant |
| --- | --- | --- | --- |
| `JournalIsExact` | `JournalExact` | no `crash` | `Exact`: what has left is recorded in the current plan |
| `PlansFollowTarget` | `PlanFollowsTarget` | no reclassification | `Following`: row and copy lead to the target - both, since either may become the row |
| `CollisionsAreWithOthers` | `NoSelfConflict` | no `crash`, no `hiccup` | `Elsewhere`, `Exact`, `Settled`: no file is in two places, and what is in the library has no collision recorded |
| `CollisionsAreReviewed` | `NoUnreviewedCollision` | no `unreadable`, no single-file move | `Clear`: while a plan is executed, no open move of it meets anything that was not reviewed |
| `LossesAreAgreed` | `OnlyAgreedLosses` | no `arrival`, no `blind`; with `replace` neither `crash` nor `hiccup`, and no two files with a collision in common (`Apart`) | `RootEmpty`, `Bound`: what a file may replace is what the user agreed to, or is gone already |

The runs `plan` and `plan_replace` check `OnlyAgreedLosses` under two of these
combinations; the theorem covers all of them for any files, folders and works. The
storage may fail (`hiccup`, without `replace`), except that `Lstat` tells what is at a
destination. The other four theorems hold under `blind` as well.

**`MoverProofs`.** `IInv` says how far each call has come (`Progress`: what is
stored when it is at which system call), that only one runs (`Alone`), and that
names lead to contents of that name (`Shape`). A call past its `Lstat` runs alone, and
whatever the destination leads to has all of it at its source or is exposed (`Spare`):
so what the call writes or undoes is nobody's only copy (`OthersKeep`, `CopyKeeps`).
From it, for `Rivals = FALSE` and any `Blind`: `NothingLost` (`Kept`) and
`WholeEntries`. As long as no `Lstat` has failed over something, what a call finds at
the destination is its own or nothing, and nothing is exposed (`InSight`); hence
`MoveKeepsContract`: up to then each system call is a step of `Transfer` or invisible. For `EmptyDirs`: `DownloadsStay`
(`FilesStay`), because `rmdir` refuses what is not empty at that moment, whatever
the listing said.

**`ChatClientProofs`.** `IInv`: one caller is past the gate (`Gate`), the endpoint
is untrusted while a discovery runs and otherwise what is kept (`Trust`), and what
each caller was given at which generation (`Holds`, `Repeats`). From it:
`ServesTheTrusted`, `RefusedOnlyIfStale`, `NoneRejectedTwice`,
`SignsForTheCurrent`, `OneRoundTrip`. `RejectionsAreRemembered` (`RejectedOnce`)
counts: each rejection of a model is charged to a caller that was sent off before
the first, and those that have paid or still may pay (`Paying`) are no more than
all callers; once a rejection is remembered nobody new sends a temperature
(`Remembered`).

**`BackgroundProofs`.** `OneTaskRuns`; `QuietShown`; `ListIsWhole`,
`NamesTellApart`, `OnlyKnownTakeTemperature`. The invariant of the listing
(`Frontier`): whatever the pages that have been read link to has been read, or is
what is asked for next.

**`DecisionsProofs`.** Of `Settings`: `WholeFormIsSaved`, `KeyStaysWithItsForm`; what
a save that nothing overlaps has written agrees with its form (`Written`), and that
nothing overlaps it is a fact about the other pages (`OnlyOne`). Of `Classification`:
`FilmIsKept`, `NamesAreObeyed`, `OnlyIntoExisting`, for any files, sizes, folders and
answers: the three properties of the run `decisions` about what an answer may do.
They speak of one step, so most of it is about the operators: that files of any sizes
have a first of the largest (`Largest`: a smallest set without one cannot exist), that
a folder that is matched is one of the library (`MatchedIsThere`), what `Decide` and
`Protect` leave alone (`DecideDoes`, `ProtectDoes`). The invariant says that only
`Answer` runs while there is an answer. Of `Backoff`: `DelaysAreBounded`. The doubling
is a shift whose exponent is cut off, so that its powers are finitely many numbers
(`Powers`), from which the growth and the spread keep their bounds for any number of
attempts, with no induction over it.

**Only model-checked.** All liveness (`Served`, `JobsSettle`, `JobsEnd`,
`MovingEnds`, `CallsReturn`, `Processed`, `WatchesFollow`, `EventsLeadToScan`,
`ChangesAreRead`, `ListingEnds`): liveness under fairness and `ENABLED` are beyond
the prover. Every other property of the passing runs - invariants, action
properties and refinements - is stated by a theorem.

## Abstractions

- *Steps.* A handler that only touches the database does so under the item lock
  and is one step, together with the scan it schedules. `RejectItem` takes no
  lock, and is a step that can fall between any two steps of an execution.
- *Refusals.* What-If mode, a missing target folder, an unstable source or an AI
  that does not answer make an operation of `ItemPlan` refuse: `Refused`, at any
  time, under `hiccup`. `Classification` has What-If mode itself.
- *Files.* Contents are not divided; a change of size, which reconciliation treats
  like a new file, is not modelled. Loose files in a source (an item that is one
  file) are not modelled. `ItemPlan` sees of a copy across filesystems what
  `Transfer` allows. A file that was done does not come a second time (`Arrive`).
- *Storage.* A system call that reports an error has not been carried out, but for
  `RemoveAll`, which may have done a part. A rename that a share carries out and reports
  as failed is outside the model; `Move` would find no source to copy and remove what
  it has moved. Other programs put nothing into the library while an item is handled;
  in particular the path that is to be replaced is not changed by them.
- *Database.* A statement fails as the context or the process ends (`Crash`; `cancelled`
  in `JobQueue`), not by itself in the middle of an execution.
- *Answers.* The AI gives any action for every file, and any folder or none.
- *Time.* Delays of retries are "later" but in `Backoff`; lifetimes of caches are
  the values the code tells apart; the thirty days or one day after which rows
  are pruned are "some time".
- *Several items* share nothing but the library and the queue; `JobQueue` has
  several, `ItemPlan` has one and meets the others as `Others`; `Mover` has several
  entries with one destination.
- *Azure.* A query succeeds, fails or times out; URLs and names that are not valid
  are a refusal.
- *Row ids* that nobody refers to may be used again, which keeps the table small;
  SQLite's own ids grow.

## Not modelled

Reading folders (scanner), prompts and the parsing of answers, the formats of
Azure's resources, media-info parsing, templates and the page's JavaScript, the
plain create, update and delete of libraries, sources and notes (one statement
each, but for what `Watcher`, `Classification` and the list above say of them),
logging, configuration, the demo and the site tools: text processing, I/O or
display without state that another part relies on.

## Plan

1. Done: `ItemLocks`, `JobQueue`, `FilePlan`, `ItemPlan`; `Mover` with `Transfer`
   and `EmptyDirs`; `Discovery`, `Deployments`, `ChatClient`; `Watcher`,
   `SourceRefresh`, `Progress`; `Classification`, `Settings`, `Backoff`; their
   proofs as listed above.
2. Proofs next: the safety of `Watcher` (a scan holds `scanMu` alone, the kernel
   reports only on what is watched), the parts of `LossesAreAgreed` that a `crash`
   leaves true.
3. Composition: beyond the common abstraction `WorkQueue`, `JobQueue` with the
   outcomes of `ItemPlan` in place of the nondeterministic ones, for the claim that a
   finished job has been done; two items in `ItemPlan` with the rivals of `Mover`;
   two entries per source in `Watcher`.
4. `ItemPlan`: loose single files, and files whose size changes.
