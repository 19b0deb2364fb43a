# TLA+ models of videocms

videocms is one Go process that stores, encodes and serves videos. It keeps its
rows in SQLite (through gorm), its objects on mounted stores (local disk, S3,
SFTP), and does everything slow in background tasks. The models here are
translated from that code; `PROJECT.json` maps every definition to its lines.

## The system and its parts

| Part | State | Operations | What is hard |
|---|---|---|---|
| Background runtime (`background/`) | rows of jobs, tasks, attempts, queues, schedules; in memory: registered goroutines and their cancel functions | enqueue, claim, run, commit fence, finish, pause, resume, cancel, retry, stale recovery, restart, recurring runs | two writers of one row at any time, crash between two transactions, lost final write, signals that find no goroutine, a clock that is set back |
| Storage registry (`storage/service.go`, `managed_store.go`) | mounted and retired handles, users of each | lookup, replace, unmount, close | a store may be retired under its users and must be closed once, after the last |
| SFTP provider (`storage/sftp.go`) | one shared connection, who dials, the delay after a failure | open, put, delete, keepalive, close | callers share a connection any of them may find broken; the server's answer may be lost |
| Lifecycle locks (`app/storage_lifecycle.go`) | keyed reader-writer locks with reference counts | read, write, sorted sets of reads | deletion of unused locks, lock order over the whole application |
| Traffic recorder (`traffic/recorder.go`) | counts per key, the batch in flight | record, flush, merge back, shutdown | counting goes on while a batch commits or fails; bounded buffer; last flush |
| Storage migration (`services/`, `logic/StorageMigration.go`) | migrations, items, reservation keys, two copies of each file | plan, copy, cutover, cleanup, cancel, keep originals, reconcile | crash, cancellation, deletion or publication between copy, cutover and cleanup |
| Deleter, encoder cleanup (`services/`) | files, links, objects of all mounts | delete unreferenced files, remove encoded sources | races with migration, publication and new links |
| Storage administration and placement (`logic/`) | mounts, pools, availability of files | create, update, unmount, remount, reconnect, delete, place an upload | files that appear on a mount being detached; scans that are overtaken |
| Resumable uploads (`services/tusupload/`) | sessions and their status, files on disk | create, hook events, finalize, import, expire, terminate | events applied late, finalize against expiry, a task repeated after a crash |
| Folder shares (`controllers/FolderShareController.go`, `services/tusupload/shared.go`) | share, guests' tokens, their sessions | unlock, upload, finalize; change, revoke, move, delete | the share changes between the steps of a guest; limits over parts and groups |
| Media cache (`mediacache/`) | cache entries, claims, workspace, file versions | open, capture, fill, promote, evict, invalidate | promotion against invalidation and eviction; claims on every exit |
| Encoder (`services/`) | artifact rows, encode tasks | encode, publish, fail, retry, clean, reconcile | rows and tasks change in different transactions |
| Remote and prepared downloads (`services/`, `logic/`) | rows, their tasks, files on disk | create, replay, fetch, import, cancel, retry, delete; prepare, serve, expire, sweep | cancellation at the commit fence, retried requests, partial output |
| File, folder and link logic (`logic/`) | folders, links, files, deletion jobs | create, clone, move, delete | trees that change while they are deleted; links against the deleter |
| Background handlers (`services/BackgroundHandlers.go`) | none of their own | one handler per kind of task | which errors are retried |
| Request gate (`app/runtime.go`) | one slot per user | try, end | a slot held over an error path |
| Settings, authentication, controllers, routes | rows, sessions | requests | little that is concurrent |

They interact through the database (every part), through
`background.Enqueue` and `background.BeginCommit` (uploads, encoder, downloads,
migration), through `Service.Store` (whoever reads or writes an object) and
through the lifecycle locks (whoever relies on a file staying on its mount).
`cmd/ServeMain.go` creates them and stops them in its own order.

What makes each part correct:

* runtime: a job's status is what its tasks say; irreversible work is never
  repeated or canceled; requests take effect; jobs end; a schedule's run is not
  taken for an earlier one;
* registry: no use after close, close exactly once, shutdown reports every error;
* SFTP: a connection has an owner until it is closed, readers see whole objects,
  calls return;
* locks: exclusion in spite of reclaimed entries, no deadlock;
* recorder: nothing lost or counted twice, bounded, complete at shutdown;
* migration, deleter: the contents of a file do not depend on where it is kept,
  no object without an owner in the end;
* administration: an available file can be read, one default pool;
* uploads and shares: quotas and limits hold, an upload becomes one video and
  its bytes stay until then;
* cache: an object of an old file version is never promoted, the bound holds,
  no claim is leaked;
* encoder, downloads: what a row says is ready or completed exists, and a row
  that is not at its end has a task that will bring it there;
* library: everything a user has can be reached, a deletion that reports success
  is complete, a link has its file.

## Modules

| Module | Models | Proofs |
|---|---|---|
| `BackgroundRuntime` | the job runtime | `BackgroundRuntimeProofs` |
| `DurableTask` | what the runtime makes of one task row, for the modules of its handlers | `TaskProofs` (lemmas) |
| `Schedules` | a recurring schedule, its loop and the jobs it makes | `ApplicationProofs` |
| `StorageService` | registry and handles | `StorageServiceProofs` |
| `SFTPStore` | the SFTP provider | `StorageServiceProofs` |
| `StorageLifecycle` | the keyed locks, for callers that run a plan of locks | `StorageLifecycleProofs` |
| `StorageLockUsers` | the plans: which locks each operation of the application takes | |
| `TrafficRecorder` | the recorder | `TrafficRecorderProofs` |
| `FileContents` | what storage promises: the abstract specification of a file's contents | |
| `StorageMigration` | migrations beside deleter, encoder and cleanup; implements `FileContents` | `StorageMigrationProofs` |
| `StorageAdmin` | mounts, pools, scans and placement | `ApplicationProofs` |
| `Uploads` | upload sessions and their import | `MediaProofs` |
| `FolderShares` | uploads of guests | `MediaProofs` |
| `Totals` | the sums the database computes over rows | `MediaProofs` (lemmas) |
| `MediaCache` | the playback cache | `MediaProofs` |
| `Encoding` | encode tasks and artifact rows | `TaskProofs` |
| `RemoteDownloads`, `PreparedDownloads` | the two kinds of downloads | `TaskProofs` |
| `Library` | folders, links, deletion jobs, the deleter, the request gate | `ApplicationProofs` |
| `MCRuntime`, `MCRuntimeProgress`, `MCStorageLocks`, `MCStorageMigration` | instances of one module | |
| `MCServices`, `MCMedia`, `MCApplication` | instances of several modules side by side | |

`MCServices`, `MCMedia` and `MCApplication` put modules beside each other that
share no variable: the variable `part` says which of them a behaviour belongs
to, the others stay in their initial state. The states of such a run are the sum
of its parts, and a property holds of a part exactly if it holds of the run.
Where components do interact, their module has both of them: the migration has
the deleter, the encoder and the cleanup; the library has the gate, the deletion
jobs and the deleter; administration has uploads and migrations; the downloads
and the encoder extend `DurableTask`.

### BackgroundRuntime

A transaction is one step: SQLite has one writer at a time. What the code
does between transactions is a step of its own, so a crash or another actor can
come in between: `Claim` (transaction) and `Launch` (registration of the
goroutine); the handler's return, `Finish`, and `GoroutineExits` (the deferred
removal from `Runtime.active`); `CancelJob`, `PluckCanceled` (the read of the
running tasks) and `SignalActive` (the cancel functions).

`job`, `task`, `attempt` and `queuePaused` are the rows and survive `Crash`;
`active`, `run`, `dispatcher` and `request` are memory and do not. A run is the
goroutine of one attempt, with the cause its context was canceled with. A
task's `due` is `run_after` in the past, `beat` the age of its heartbeat.
Handlers are external: they return one of `Results`, may pass the commit fence
if their task is in `Commits`, and give up with the error of the context when
the fence refuses, as the handlers of `services/BackgroundHandlers.go` do.
`Faults` switches on crashes, graceful shutdowns, final writes that
`finishWithRetry` gives up on, and a busy database in `BeginCommit`.
`StopCause` is the cause a handler sees at a shutdown: `"parent"` is what
`ServeMain.go` produces, because it cancels the root context before `Stop`;
`"stopping"` is what `Stop` alone would produce. (It would not be a cure for
everything: an attempt that is canceled by its job and then interrupted with that
cause is queued again, and waits like the ones that `CancelCompletes` excepts.)

`lapsed` of uploads, `lapped` here, `resaved`, `restored`, `doubled`, `pulled`, `outdated`
and `torn` below are history variables: nothing in the code reads them, they record
that a history has happened in which the code itself is known to break a property,
so that the property can say what holds otherwise. `lapped` marks a goroutine that
was launched while another one of its task was still there.

Left out: progress numbers, messages and events, labels, the order among tasks
of equal rank (any claimable task may be claimed), the order in which the
dispatcher visits queues, `Retain`, and the read API. Idempotency keys and
schedules are in `Schedules`.

### DurableTask and Schedules

`DurableTask` has the task's life as a handler meets it: queued, running, cancel
requested, and the commit flag; a crash queues a running task again, or fails it
if it had passed the fence. The modules of the
handlers choose when each of its changes happens.

`Schedules` keeps a row, the scheduler loop and the jobs by idempotency key. The
loop claims the row in one transaction, enqueues in a second under a key that
names the period of the clock, and records the job in a third; a crash, an
operator who runs the schedule by hand, and a clock that is set back come in
between.

### StorageService

`Handle` is a `managedStore`; `step` follows `finishClose` (provider closed,
registry told, `done` closed). Critical sections are steps, so another goroutine
runs between the registry's section in `RegisterStore` or `UnregisterStore` and
the `retire` after it. A client is one operation or one open object body;
`CloseAgain` is the second `Close` of a body, which the two `sync.Once` make
harmless. A provider's `Close` may fail.

### SFTPStore

Connections are numbered. `GetConnection` either hands out the current one, makes
its caller the one who dials, or waits (for the dial or for the delay after a
failed one); a dial is a step of its own, in which the store may be closed.
`Invalidate` and `ClosesConnection` are two steps, as the mutex is released in
between. A connection may break at any time, before or after the server did what
it was asked (`AnswerLost`). An object is absent, whole, or only a temporary
file of some `Put`. `Open` and `Delete` are tried twice, `Put` is not. `Stat` and
`Capacity` take the path of an `Open` that fails, `Walk` that of a `Put` that
fails early. Host keys, authentication, paths and `Check` are left out.

### StorageLifecycle and StorageLockUsers

`RetainLock` and `ReleaseLock` are the sections under the map's mutex; `RLock`,
`WLock` and their continuations are `sync.RWMutex` (external): a writer that has
announced itself blocks later readers, and gets the lock when the earlier ones
have left. A caller runs a *plan*: the list of locks it takes while it holds the
earlier ones. `StorageLockUsers` derives the plans from the call sites; an
operation that releases its locks half way and takes others (a migration item
that is copied, then cut over) is two plans. `GiveUp` is an early return with
some of the locks held.

### TrafficRecorder

Requests and bytes of a key always change together, so one count stands for
both; the ghost variables `offered` and `dropped` count what `Record` was given
and refused. `flushBatch` is four steps: take a batch under the mutex, the
transaction, and the section after it that forgets the batch or merges it back.
The loop and `Shutdown` share it under `flushMu`. A transaction may fail at any
time. The status counters shown to administrators are left out.

### StorageMigration and FileContents

A file's objects carry version numbers, so that a copy that missed a publication
can be told from one that did not. Migrations, items, reservation keys and the
three kinds of jobs (main, cleanup, abort) are rows; `work` is where the handler of
a job stands with each file, and is lost in a crash. Copying reads under the
file's lock, everything else (final pass, cutover, cleanup, abort, deletion,
publication) writes under it; a step that the code takes under the lock but that
a crash can split (copy object after object, delete object after object) is
several steps. The operator cancels, pauses, retries, keeps originals and purges;
the reconciler repairs what a crash left; all of that is bounded by `budget`.
Init is either a file without migrations or one that another migration has moved
while this one was canceled and can still be retried.

`FileContents` is the promise: the contents of a file change only when the
application publishes, drops the source while every output exists, or deletes the
file. A cleanup or a migration that lost the source of a file that has not been
encoded would be none of these. `ContentsPreserved` is its specification under the mapping that reads a
file's contents from the mount its row names. Every step of a migration, crash
and cleanup is a stuttering step of it.

### StorageAdmin

Rows of mounts and pools, the registry of open stores, files with the mount they
are recorded on, and the places that hold objects. Operations that change the
registry and the database one after the other are two steps (`CreateStorageMount`
and `CreateRegisters`, `UnmountStorageMount` and `UnmountUnregisters`,
`RemountStorageMount` and `RemountRecords`); a reconnect scan loads batches and
looks at objects without the lock, as the code does. Uploads publish under the
read lock of a mount and record later; a migration appears as the holder of its
mounts. `outdated` and `torn` are ghosts: they mark the two histories in which the
code itself is known to break the properties (see below), so that these say what
holds otherwise. Cache mounts of pools, pools of users and database errors are
left out. So is the cleanup of a migration's originals, which removes objects no row
names any more: it is in `StorageMigration`, whose mounts stay at their places.
Whether it could remove objects in use because two mounts were configured with the
same place is examined in neither.

### Uploads and FolderShares

The tus library (external) is what `service.go` sees of it: parts arrive, and
progress, completion and termination events are put into channels that have a
consumer each, so an event may be applied long after what it reports. The bytes of
a session are at the upload path, at the import path or under the name a simple
upload gets. An import is the handler of `media.import` or a direct finalize
request; it loads, claims the session, moves the bytes, looks for a duplicate,
publishes, and records link and file in a transaction with the creation key.
Expiry, termination, restart and faults come in between any two of these. A link
is marked `lapsed`, a ghost, if the sessions that held its room were no longer
counted as pending when it was recorded: those are the session itself, or the parts
of a concatenated upload, which has no quota bytes of its own. An import that fails
ends as transient or permanent, as its cause is classified, and leaves the status of
its session when the commit is refused or `completeFinalize` or the write of
`failFinalize` fails. The loser of the race for a session is refused for good if the
session is a tus upload, and tried again if it is a simple one.

`FolderShares` has the limits a guest's session is created under: folder size,
video size, parts and final of one group, sessions that wait, and those already
imported. A request resolves the share first and works with the row it read. One
request of a guest is in progress at a time, and the checks of `preUploadCreate`
are one step. Changes of the largest video size and the views are left out.

### MediaCache

A flow is one request or one job: it opens the origin, reads the version, claims
the object, captures, and hands its payload to a promotion or a fill task. The
contents of an object is the number of its publication. Entries are committed
under the version that was read; eviction, removal and the invalidation by an
encoder come in between, and `CloseCache` at any time. Which target is tried and
whether an object is admitted is nondeterministic.

### Encoding, RemoteDownloads, PreparedDownloads

Each keeps the rows of its component beside the rows of `DurableTask`. A handler
is a sequence of steps (load, work, fence, record) with a crash, a cancellation or
a second request possible after each; what it writes outside the task's
transaction is a step before or after the task's end, in the order of the code.
`Encoding` has one file's artifacts, its reconciler and the cleanup of the source.
The listener of ffmpeg's progress socket saves the row the handler has in memory;
nobody joins it, so it may save once more after the handler returned, and over what
came next. The model lets the last listener of a task do that at any time before a
crash (even after a graceful stop); `doubled` records when it hit.

`RemoteDownloads` has one URL of a batch, with replayed and concurrent creations. Every
request and handler that looks at a row and writes later is two steps: the handler
loads the row and updates it, a deletion checks the status and deletes whatever it has
become, a retry checks and resets, a cancellation loads and projects, or, for a row
that has no job yet, saves all of what it loaded. An `Updates` that finds its row
deleted changes nothing and goes unnoticed; a `Save` writes the row again. `resaved`
has the rows for which a `Save` did that, or took back the link to the job: a replay
may have made a second row by then, and both live. `ReplayKeepsBatch` says what holds
of the others. The timeout of a download ends it at any step up to the import, and
after it.

`PreparedDownloads` the rows and files of one video, with expiry and sweep. ffmpeg
and the transfer of bytes succeed or fail.

### Library

Folders and links with their owners, files with their data. Operations in one
transaction are one step; `CloneFileByHash` is two (the check and the link), and so is
a rename: `UpdateFolder` and `UpdateFile` load the row and later `Save` all its
columns. gorm's `Save` inserts the row again when its update meets none that is live.
A rename beside a move puts back the parent folder it had loaded, beside a deletion
the folder or link itself, and two such saves can close a circle
(`UpdateFolderController.go:32-38`). `restored` has the items a rename put back in a
state they had lost. `LibrarySound` and `DeletionComplete` hold of all others: a stale
rename damages the item it saves and nothing else, but every circle goes through
such an item. The
deletion job validates, passes the fence, deletes links, then folders, and each
round of the deleter lists, counts, marks, removes and forgets. The gate's slot is
taken by deletions and staged uploads of the same user.

## Runs

All runs switch deadlock checking off: the systems may come to rest (all jobs
done, nothing to lock, recorder stopped, bounds used up).

| Run | Instance | Checks |
|---|---|---|
| `RuntimeSerial` | one job: a required task and an optional child, capacity 1, all requests, results and faults, 2 attempts per task | `TypeOK`, `JobStatusReduced`, `CommitFence`, `AttemptLog`, `OrphanedCommitFails`, `ReclaimedOnlyIfLapped`, `ReopenedOnlyByRetry` |
| `RuntimeProgress` | either one task with a commit phase, all requests but those to a queue, all results, all faults but a busy database; or a required, delayed task and its child with all results and faults but no operator; 2 attempts per task | `CancelCompletes`, `PauseSettles`, `JobEnds` |
| `Services` | stores: 2 names, 2 handles, 2 clients; SFTP: 2 callers, 1 fault; recorder: 3 keys, buffer of 2, batches of 1, 2 events per key | `NoUseAfterClose`, `CloseComplete`, `CloseTerminates`; `ConnectionsOwned`, `ObjectWhole`, `CallsReturn`; `Conservation`, `BufferBounded`, `ShutdownFlushes`, `Delivered` |
| `StorageMigration` | a file of a source and an output, 2 mounts, one migration, 2 versions, at most one mishap, 2 requests of the operator and one reconciliation, 3 of these together | `NoOrphans`, `OverReleases`, `ContentsPreserved` |
| `Media` | uploads: 2 sessions in 2 groups, room for one large upload, one fault; shares: a guest, 3 sessions in 2 groups, one act of the owner; cache: 2 objects, 2 flows, a mount with room for one | `QuotaKept`, `UploadDataKept`, `OneLinkPerUpload`; `FolderLimitKept`; `CacheBounded`, `ClaimsOwned` |
| `Application` | encoding: one artifact, 2 jobs; remote: 2 requests of one key; prepared: 2 rows; library: 3 folders, 2 links, 5 operations, a rename counted as one; admin: 2 mounts, 2 places, 2 administrators; schedules: interval 3, clock up to 7; locks: 3 goroutines | `NothingForgotten`; `ReplayKeepsBatch`, `CompletedHasVideo`; `ReadyHasFile`; `LibrarySound`, `DeletionComplete`; `AvailableIsReadable`, `OneDefaultPool`; `NoRunSwallowed`; `Exclusion`, `NoCircularWait` |

What the properties say is in the comment before each. Most type
invariants (`UploadsTypeOK`, `CacheTypeOK` and so on) are stated for the reader and
no run lists them; that of the runtime is checked because its proofs rest on it. The
proofs of the others bring the types they need in their invariants.

Why the bounds are enough to be interesting: two attempts per task let an old
goroutine meet its successor, an operator's retry meet a late result, and a
stale recovery be followed by a new claim; a child task makes the job's status
depend on a row that does not exist at first; three goroutines are what a
deadlock with a waiting writer needs; a third key is what overfills a buffer of
two while a batch is in flight; a second handle can be mounted beside the first
or replace it while a client still uses it; two versions let a copy miss a
publication, and one mishap with two requests let a canceled migration be retried
after a crash; two uploads with room for one exceed a quota that is not counted
everywhere; three sessions of a guest are a video of two parts, or one with
another upload beside it; a cache with room for one of two objects has to evict
while it promotes; two replays of one key and a task that runs twice repeat
everything a request or a handler does; three folders are a chain that can be
closed to a circle. The clock up to 7 is more than two intervals of 3.

The bounds are constants whose names begin with `Max` (and `TaskRuns`), and the
sets of entries, handles, sessions and so on. `MaxRuns` limits the attempts of a
task; `JobEnds` says so in its conclusion (a task that waits for more attempts than
the model has). `Media` uses the symmetry of its model
values; it has no liveness property.

### Fairness

* `BackgroundRuntime`: the dispatch and heartbeat loops tick, the process is
  restarted, and a handler returns. `Claim` is strongly fair: other tasks may
  keep a slot busy, but the dispatcher visits the oldest tasks first. So is
  `DispatchQueue`, as a process that dies every time before its loop has looked at
  a queue gets nothing done. A crash or a request is never required.
* `StorageService`: goroutines inside `retire`, `finishClose` and `Close` go on,
  and whoever opened a body closes it; the registry itself is not fair.
* `SFTPStore`: a caller goes on with its call, the keepalive goroutine runs, the
  delay after a failed dial ends, and `Close` returns. The network need not break
  and nobody need call.
* `TrafficRecorder`: the ticker fires, and a transaction that is tried again and
  again is committed some time (strong fairness of `Commit`).

`ServicesFairness` states the last three, each for the part that moves. The other
modules are checked for safety only. For the locks, `NoCircularWait` is what the
code can get wrong; that a free lock is handed over is up to `sync.RWMutex`. For
the handlers, that a row is not forgotten is a state property
(`NothingForgotten`: an open row has a task that can still run), and that tasks
run is what `JobEnds` says.

### Disagreements between the code and what it says

Six runs end in a violation, each of one property that a comment, a message or a
test of the repository states:

* `RuntimeStaleRace` (`StaleHasNoGoroutine`): on a queue of capacity two, as the
  storage queue is, the deferred `delete(r.active, task.ID)` of an old goroutine
  removes the registration of the next attempt of its task, and `recoverStaleTasks`
  takes a task from under a live goroutine, which its comment excludes. A result that
  is to be retried is enough; the run needs no fault and no operator. What holds on
  every queue is `ReclaimedOnlyIfLapped`.
* `RuntimeShutdown` (`CanceledOnlyOnRequest`): `ServeMain.go` cancels the parent
  context before `Stop` names the shutdown as the cause, so an attempt that gives up
  at a shutdown is recorded as canceled and not queued again.
* `StorageLocksMigration` (`NoCircularWait`): `StartStorageMigration` locks mounts
  before files, everything else files before mounts. With a change of the mount
  waiting in between, three goroutines wait for each other.
* `UploadsSource` (`RecordedSourceKept`): a direct finalize request and the durable
  task may import one session at the same time, as `finalizeContext` goes on with a
  session that is importing. Both publish under the same key, and the one that
  loses the creation key deletes the object the other has recorded.
* `CacheStale` (`CaptureDiscarded`): `OpenWithResult` opens the origin before it
  reads the file's cache version, so a publication in between makes the old bytes a
  valid promotion of the new version.
* `LibraryClone` (`ClonedLinkUsable`): `CloneFileByHash` checks its candidate under
  the lock of the mount, the deleter counts links under the lock of the file, and
  the clone's link may name a file that is being deleted.

Others were met while modelling and have no run of their own:

* Runtime: a handler that answers the cancellation of its job with a
  retriable error leaves a waiting task that `claim` refuses for ever, and its job waits for
  it (`CancelCompletes` excepts this, and nothing else). `BeginCommit`
  answers `false` to a database error and its callers take that for a
  cancellation. A crash or a failed `Enqueue` after a schedule was claimed skips one
  period.
* Encoding: two encode tasks of one artifact can exist and write its row in turn; the
  retry of a task after its artifact was ready and its source cleaned makes the
  artifact fail; an encoding canceled by the user is started again by the reconciler.
* Uploads: a late progress event sets a complete session back to "uploading", which
  `EnqueueFinalize` then refuses. Sessions that expire while they are imported are not
  counted by the quota, and the transaction that records the video does not check it
  again: once a part of a concatenated upload has expired between the check
  (`CreateFile.go:78`) and the record, another upload may be admitted into its room,
  and both are recorded. `QuotaKept` and `FolderLimitKept` except such videos
  (`lapsed`).
* Remote downloads: a row can stay "canceling" or "pending" when its task ends at
  another moment than the handler expects (a crash before a cancel, a retry that
  meets the end of the handler). A deletion that lands between the load and the update
  of the handler, or whose row was retried after its check, and a replay make two
  rows for one URL: the handler's `Save` brings the deleted one back (`resaved`).
  Prepared downloads: a queued row whose job was
  canceled through the general API stays queued and is reused.
* Migration: a retry of a canceled migration while its abort job runs is accepted; a
  shutdown is treated as a cancellation; keep-originals that is interrupted may end
  as completed with reserved items.
* Administration: `UpdateStoragePool` saves the default flag it read, so that zero or
  two default pools are possible (`OneDefaultPool` excludes this history by the ghost
  `outdated`); a mount that is detached while `CreateStorageMount` has not registered
  its store yet keeps a registered store (excluded by `torn`).
* Library: a rename saves a stale row, which undoes a move or a deletion beside it and
  can make two folders each other's parent (`restored`). A deletion job that is refused by the gate while the same user stages an
  upload fails for good after its links are gone.
* SFTP: a dial that its caller cancels counts as a failed one and delays the others; a
  `Put` that loses its connection leaves its temporary file.

## Proofs

`BackgroundRuntimeProofs`, for all sets of jobs, tasks, queues and operators and
all faults:

* `TypeCorrect` (`Spec => []TypeOK`). `TypeOK` alone is not inductive: the
  dispatcher holds a task and an attempt number between `Claim` and `Launch`,
  and the number has to be a real attempt of that task. `DispatcherOK` adds it.
* `FenceHolds` (`Spec => []CommitFence`). `CommitFence` is inductive together
  with the type invariant: `BeginCommit` passes only without a request,
  requests are refused while any task of the job commits, and every action that
  ends or restarts an attempt leaves the committing tasks or clears the
  requests.

* `StatusIsReduced` (`JobStatusReduced`). A recovery recomputes the jobs it finds in
  some statuses only, so `ReductionInv` also says that the rows of a job that was
  never enqueued are untouched, and the proof shows that the other jobs keep the
  status they would be given.
* `OnlyRetriesReopen` (`ReopenedOnlyByRetry`) and `OrphansFail`
  (`OrphanedCommitFails`) are properties of steps, proved from the same invariants.
* `AttemptsAreExact` (`AttemptLog`), for queues of capacity one, and
  `StaleReclaimIsSafe` (`ReclaimedOnlyIfLapped`), for every capacity. `SerialInv` says that a running task's goroutine is the
  registered one, that the dispatcher's claim still stands, that it has a slot to
  give only while nothing of the queue is registered, and that a process that is down
  has no goroutine. On the other queues the second rests on `LapInv`: a goroutine of a task
  no two of whose goroutines have met is the registered one.

`StorageLifecycleProofs`, for all finite sets of goroutines and all plans:

* `LocksTypeCorrect`, `MapHoldsEntriesInUse` (`EntriesInUse`): the invariant
  `OwnInv` says that a caller has an entry exactly for the keys its position in
  the plan implies, that the reference count of an entry is the number of such
  callers, and that the map is injective.
* `WriterExcludes` (`Exclusion`): `LocksInv` adds that the mutex of each key
  agrees with what the callers have been granted and where they wait.
* `OrderedLocksDoNotDeadlock` (`NoCircularWait`): from the assumption
  `TakenInOrder` on the plans; whoever is waited for holds the key waited for,
  so it is at a later stage of the order than every one who waits for it.
  `MCStorageLocks` has TLC evaluate that assumption for the plans of the
  application, the start of a migration excepted.

`StorageServiceProofs`, for all sets of names, handles and finite sets of clients:

* `StoresTypeCorrect` (`TypeOK`) and `OperationsDrain` (`NoUseAfterClose`): the
  invariant `UseInv` says that a handle's `active` is the number of clients that
  use it, that a handle whose close has begun has no users and is retired, and
  that clients and the registry only know handles that were registered. The
  count is needed even for the type: `release` must not go below zero.
* `CloseReportsAll` (`CloseComplete`): the registry always reaches every handle
  that has not told it of its close, as mounted or as retired (`Reached`), so
  the set that `Close` collects under the mutex has them all (`Closing`), and
  `closeErr` holds the errors of exactly the handles that have told it.

`StorageServiceProofs` again, about `SFTPStore`, for all sets of callers and every
number of faults. The invariant `SFTPInv` rests on three facts about generations: at
most one caller dials, for the newest generation and only while the store has no
connection (`OneDialer`); whoever names a connection names one that was dialed
(`NamesDialed`); and, until the store is closed, every generation but the one in
use has cost a fault (`GenerationsPaid`), which is what bounds the generations.

* `SFTPTypeCorrect`, `NoConnectionLeaks` (`ConnectionsOwned`);
* `ObjectsAreWhole` (`ObjectWhole`; needs that what is about to be renamed over
  the object is complete, `UploadsWhole`).

`TrafficRecorderProofs`, for all sets of keys and sizes:

* `FlushIsExclusive`: `flushMu` is held exactly by the flusher that is inside a
  batch, and the batch is empty otherwise. The other three rest on it.
* `NothingLost` (`Conservation`), `BufferStaysBounded` (`BufferBounded`; needs
  that `inflight` is the number of keys of the batch), `ShutdownLosesNothing`
  (`ShutdownFlushes`; needs that the loop has ended, and that nothing is pending
  any more, when Shutdown returns).

`StorageMigrationProofs`, for all sets of files, mounts, objects, migrations and all
bounds on retries, crashes and requests:

* `NoOrphansLeft` (`NoOrphans`) and `ContentsArePreserved` (`MigSpec =>
  ContentsPreserved`: initial states map to initial states of `FileContents`,
  every step to a step of it or a stutter). Both rest on `MigInv`, a conjunction
  over files. Of one file it says what its items, the goroutines that work on it,
  its lock and the deleter may be in the middle of, and what is in which store
  then (`ItemOK`, `WorkOK`, `LockOK`, `DeleterOK`); that every object is where the
  row is, or where an item owns or must still clean it (`Covered`); and that a
  file that came back to a mount a finished migration had cleaned is owned there by
  another (`Returned`). The invariant does not mention the statuses of jobs:
  whatever the runtime starts, loses or repeats, locks and items decide what is
  written. An action disturbs one file, so each has a lemma that the others keep
  their part (`QuietItem`, `QuietWork`).
* `AbortsReleaseFiles` (`OverReleases`): `AbortInv` follows the abort job through
  the files, which are released as it passes them. The property says that of
  aborted migrations only. It is not true of completed ones: a restart of the
  migration job can overtake `KeepStorageMigrationOriginals`, whose last step then
  marks a row retained one of whose files was reserved again.

`MediaProofs`:

* `CacheStaysBounded` (`CacheBounded`), `ClaimsAreOwned` (`ClaimsOwned`), for all
  finite sets of requests and objects and all sizes. `CacheInv` says which steps
  hold a claim, workspace or the lock of a mount, that the reserved bytes are the
  number of captures times the size of an object, and that room for the object is
  made before it is committed and stays because the lock is held. Finiteness is
  assumed because the sizes are sums over objects.
* `UploadsAreKept` (`UploadDataKept`), `OneVideoPerUpload` (`OneLinkPerUpload`), for
  all finite sets of sessions and groups: `UploadsInv` says of every session where its
  bytes are at each status, of every import attempt what it has moved or
  published, and that a link has the creation key of its group.
* `QuotaIsKept` (`QuotaKept`), for all finite sets of sessions and groups, every quota
  and every number of faults. The sum that is checked is no invariant: a recorded video
  counts beside its sessions until `CompleteFinalize`, and the check of an import leaves
  out the sessions of its own group. `QuotaInv` says that there are promises of room: a
  number for every session, so that the promises and the recorded videos together fit
  the quota (`Promises`), and the sessions of a group are promised what an import
  between its check and its record brings as long as they hold it (`Promised`). The
  promises exist at every step but nothing in the code keeps them. A session created
  under the quota sets them all to the quota bytes of the sessions
  (`CreationPromises`), an import that passes its check takes those of its group for
  its video (`CheckedPromises`), recording it turns the promise into used storage
  (`RecordedPromises`), and every other step leaves them (`QuietPromises`).
* `FolderLimitIsKept` (`FolderLimitKept`), for any guests, all finite sets of sessions
  and groups, every limit and every number of changes by the owner. `SharesInv` has a
  promise for every group that covers each of its videos that may still be recorded
  (`Due`: the sessions that are pending, and once there is a job, only its own), and
  the promises and the videos of the folder together fit the limit (`Reserves`). A
  session created under the capacity sets the promises to what the check counted
  (`CreateStep`); recording spends the promise of the group (`RecordsStep`);
  deleting a link gives its room back to the group, whose import may record it again
  (`DeleteLinkStep`). Requests that work with an older share are covered because its
  limit was no larger, unless the owner lowered it.

Both rest on lemmas about totals (`TotalMonotonic`, `TotalSplit`, `TotalWithout`).
`Totals` defines a sum as a cardinality, the number of the units of its values, and not
as a fold, so that they follow from the theorems on finite sets instead of an induction.
The largest of the sizes `ReservedBy` takes exists because the natural numbers are
well-founded (`Greatest`).

Two attempts failed for a good reason and corrected the model. `lapsed` used to say only
that the session itself was gone, and `QuotaInv` was not inductive for concatenated
uploads; three sessions are enough for TLC to show the expired part described above.
And `CompleteFinalize` used to mark the uploads of its group that are still being staged
as done, which have no row yet that the update of `completeFinalize` could reach.

`TaskProofs`, for all numbers of rows, jobs and faults, begins with lemmas on what
the runtime makes of one task row. `ApplicationProofs` extends it.

* `ReadyPreparationsHaveTheirFile` (`ReadyHasFile`): `PrepKeeps` is an invariant of one
  row, which the handler, the sweep and the reaper change in turn.
* `ReplaysMakeOneDownload` (`ReplayKeepsBatch`), `CompletedDownloadsHaveTheirVideo`
  (`CompletedHasVideo`): in `RemoteInv` the create requests are in sequence
  (`createMu`), so there is at most one row that is not deleted, up to those in
  `resaved`; the job stays that of its row, and only that row is linked or completed;
  and the row a handler works on is not completed, whatever else becomes of it.
* `NoEncodingIsForgotten` (`NothingForgotten`): an artifact that no task works on and
  that reconciliation passes over would have to refer to a task that succeeded without
  leaving it ready. `EncodeInv` rules that out for every artifact that was neither
  retried by hand nor written by two at once (`Tidy`). `KeysOK`: a job made under a key
  has tasks for exactly the artifacts of the key, which names earlier jobs only.
  `RefsKept`: an open task is of the latest job of its artifact, no reference lies
  beyond it, no reference falls behind a key made for the artifact, and the row a
  handler loaded, which it may save at any time, refers to nothing older than what is
  recorded. `DoneKept`: once a task has succeeded, nothing that may still be written
  (the row, a handler's copy of it, the job reconciliation is about to record) takes an
  artifact that is not ready back to that task. The two need each other: a handler that
  saves an old row is harmless because its copy is no older, and reconciliation does
  not find a job again once its task has worked on the artifact, because the key that
  job was made under lies behind the reference from then on.

`ApplicationProofs`, for all sets of rows, users, mounts and all numbers of faults:

* `ScheduledRunsAreMade` (`NoRunSwallowed`): the schedule's next run lies in a later
  period than every job made for it (`SchedInv`).
* `LibraryHangsTogether` (`LibrarySound`), `DeletionsAreComplete`
  (`DeletionComplete`). `LibraryInv` has the folder tree, the links of files, and the
  selection of a deletion job. `Above` and `CollectFolderDeletion` are defined as
  closures (the least set closed upwards or downwards), so that what they contain can
  be proved without induction: a circle would have no entrance from the root. The
  invariant speaks of the items that were not put back by a rename, and of the
  circles that avoid them.
* `AvailableFilesCanBeRead` (`AvailableIsReadable`), `OneDefaultPoolAlways`
  (`OneDefaultPool`). `AdminInv` says what each administrator, upload and migration has
  locked and found between its steps, that the locks of a mount exclude each other, and
  that a mount's store is registered while it is mounted, except in the two
  histories the ghosts mark.

TLC has checked every one of these invariants on a small instance as well.
The assumptions are those of the modules, named at the constants: finite sets,
positive bounds, plans without repeated keys, children in the job of their
parent. `OrderedLocksDoNotDeadlock` assumes `TakenInOrder` of the plans, and
`AttemptsAreExact` is about queues of capacity one.

Every invariant and every action property that a passing run checks is stated by a
theorem. Only model-checked are

* liveness (`CancelCompletes`, `PauseSettles`, `JobEnds`, `CloseTerminates`,
  `CallsReturn`, `Delivered`): it needs fairness and `ENABLED`, which the prover does
  not handle.

## Not modelled

* The import of old background history (`background/migration.go`): it runs alone at
  start, in order, under stable keys and a marker.
* Local and S3 stores: calls without state of their own. The copy helpers of
  `storage/` are one step per object of the migration.
* Thumbnails of links (`logic/LinkThumbnail.go`), tags, subtitles and other
  attributes of a link: one row each, without a protocol.
* The legacy scheduler of `services/Encoder.go` (used by tests only), the legacy
  synchronous simple upload and the legacy cleanup of upload sessions.
* Controllers, routes, middlewares, settings, authentication and pages: they parse,
  check and render, and keep no state that two actors share. The settings that stop
  work are inputs of the modules they stop.
* Progress numbers, messages, events and the read APIs everywhere.

## Plan

1. Theorems of the types of the modules whose theorems state none.
2. `Retain` in `BackgroundRuntime`, queues with a capacity of two, and tasks canceled
   on their own.
3. Thumbnails of links: concurrent updates and a reset that fails half way.
4. An abstract specification of a durable job that `BackgroundRuntime` implements and
   that `DurableTask` is an instance of.
