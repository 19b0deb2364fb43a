--------------------------- MODULE StorageMigration ---------------------------
(***************************************************************************)
(* Moving videos between storage mounts: the migration, cleanup and abort  *)
(* jobs of services/StorageMigration.go with the operations of             *)
(* logic/StorageMigration.go an administrator calls, the reconciler, the   *)
(* deleter, the encoder's publications and the source cleanup, which all   *)
(* work on the same objects under the lifecycle locks of a file.           *)
(*                                                                         *)
(* A file's objects carry a version (0: absent).  A mount stands for its   *)
(* pool.  The background runtime appears as the status of each job and the *)
(* stop request its handler sees as a canceled context; a shutdown is one  *)
(* of the reasons a context is canceled.  A job that waits for a retry is  *)
(* "queued".                                                               *)
(***************************************************************************)
EXTENDS Naturals, FiniteSets

CONSTANTS Files, Mounts, Objs, SourceObj, Migs,
          Home,           \* the mount every file starts on
          MaxVersion,     \* publications of one object
          MaxGen,         \* abort jobs of one migration (cancel_generation)
          MaxMishaps,     \* crashes, storage errors, lost reactions, purges
          MaxOperations,  \* operations of an administrator, deletions
          MaxReconciles,  \* runs of the reconciler
          MaxEvents       \* all of these together

ASSUME MigrationAssumption ==
    /\ SourceObj \in Objs
    /\ Home \in Mounts
    /\ {MaxVersion, MaxGen} \subseteq Nat \ {0}
    /\ {MaxMishaps, MaxOperations, MaxReconciles, MaxEvents} \subseteq Nat

VARIABLES
    file,      \* file[f]: its row (live, marked deleted, gone) and mount
    store,     \* store[mt][f][o]: the version of object o on mount mt
    encoding,  \* the files an output of which is being encoded
    mig,       \* the storage_migrations rows
    item,      \* the storage_migration_items rows
    job,       \* job[m][j]: status of a job and the stop its handler sees
    work,      \* work[m][j][f]: how far the running handler j is with f
    keeping,   \* keeping[m]: files KeepStorageMigrationOriginals still visits
    deleter,   \* mounts the deleter still has to empty, per file it holds
    seen,      \* rows the reconciler loaded and has not applied yet
    budget     \* what is left of the environment's bounds

migVars == <<file, store, encoding, mig, item, job, work, keeping, deleter,
             seen, budget>>

Main == <<"main", 0>>
Cleanup == <<"cleanup", 0>>
Abort(g) == <<"abort", g>>
NoJob == <<"none", 0>>
JobIds == {Main, Cleanup} \cup {Abort(g) : g \in 1..MaxGen}

Terminal == {"succeeded", "failed", "canceled"}
JobStatuses == Terminal \cup {"none", "queued", "running", "paused"}
MigStatuses == {"none", "queued", "running", "paused", "failed", "canceled",
                "retaining", "cleaning", "completed", "retained"}
ItemStatuses == {"none", "pending", "copying", "verifying", "failed",
                 "cleanup_pending", "cleaning", "cleaned", "original_kept",
                 "original_partial", "canceled", "deleted"}

NoObjects == [o \in Objs |-> 0]
NoItem == [status |-> "none", owned |-> FALSE, cutover |-> FALSE,
           cleaned |-> FALSE, reserved |-> FALSE]
NoMig == [status |-> "none", src |-> Home, dst |-> Home, cleanup |-> NoJob,
          keep |-> FALSE, canceled |-> FALSE, gen |-> 0]
Unseen == [status |-> "none", cleanup |-> NoJob]
Idle == [pc |-> "off", left |-> {}]
NoWork == [f \in Files |-> Idle]
Fresh == [st |-> "queued", stop |-> "no"]
Unborn == [st |-> "none", stop |-> "no"]

\* Every file has its source on mount mt.
StartsOn(mt) ==
    /\ file = [f \in Files |-> [row |-> "live", at |-> mt]]
    /\ store = [n \in Mounts |-> [f \in Files |-> [o \in Objs |->
                   IF n = mt /\ o = SourceObj THEN 1 ELSE 0]]]

\* No migration yet.
NoMigrations ==
    /\ StartsOn(Home)
    /\ mig = [m \in Migs |-> NoMig]
    /\ item = [m \in Migs |-> [f \in Files |-> NoItem]]
    /\ job = [m \in Migs |-> [j \in JobIds |-> Unborn]]

\* Migrations that were canceled before they copied anything, while a later
\* one, which is over, has moved the files.  Their jobs can still be retried.
OvertakenMigrations ==
    \E mt \in Mounts \ {Home} :
        /\ StartsOn(mt)
        /\ mig = [m \in Migs |-> [status |-> "canceled", src |-> Home, dst |-> mt,
                                  cleanup |-> Abort(1), keep |-> TRUE, canceled |-> TRUE, gen |-> 1]]
        /\ item = [m \in Migs |-> [f \in Files |-> [NoItem EXCEPT !.status = "canceled"]]]
        /\ job = [m \in Migs |-> [j \in JobIds |->
               CASE j = Main -> [Unborn EXCEPT !.st = "canceled"]
                 [] j = Abort(1) -> [Unborn EXCEPT !.st = "succeeded"]
                 [] OTHER -> Unborn]]

MigInit ==
    /\ NoMigrations \/ OvertakenMigrations
    /\ encoding = {}
    /\ work = [m \in Migs |-> [j \in JobIds |-> NoWork]]
    /\ keeping = [m \in Migs |-> {}]
    /\ deleter = [f \in Files |-> {}]
    /\ seen = [m \in Migs |-> Unseen]
    /\ budget = [mishaps |-> MaxMishaps, operations |-> MaxOperations,
                 reconciles |-> MaxReconciles, events |-> MaxEvents]

-----------------------------------------------------------------------------
(* The lifecycle lock of a file: the first copy of an item reads under it, *)
(* everything else takes it for writing.                                   *)

WriteLocked(f) ==
    \/ deleter[f] # {}
    \/ \E m \in Migs, j \in JobIds : work[m][j][f].pc \in {"final", "deleting"}
ReadLocked(f) == \E m \in Migs : work[m][Main][f].pc = "copying"
Free(f) == ~ WriteLocked(f) /\ ~ ReadLocked(f)

Held(mt, f) == {o \in Objs : store[mt][f][o] > 0}
Empty(mt, f) == Held(mt, f) = {}
Items(m) == {f \in Files : item[m][f].status # "none"}
Live(f) == file[f].row = "live"

SpendAll(kinds) ==
    /\ \A k \in kinds : budget[k] > 0
    /\ budget' = [k \in DOMAIN budget |-> IF k \in kinds THEN budget[k] - 1 ELSE budget[k]]
Spend(kind) == SpendAll({kind, "events"})

-----------------------------------------------------------------------------
(* Jobs: what the background runtime does with a job of a migration.       *)

\* CancelJob and PauseJob: a waiting job stops at once, a running one is
\* asked; a finished one refuses.
CancelJob(j) == CASE j.st \in {"queued", "paused"} -> [j EXCEPT !.st = "canceled"]
                  [] j.st = "running" -> [j EXCEPT !.stop = "cancel"]
                  [] OTHER -> j
PauseJob(j) == CASE j.st = "queued" -> [j EXCEPT !.st = "paused"]
                 [] j.st = "running" /\ j.stop = "no" -> [j EXCEPT !.stop = "pause"]
                 [] OTHER -> j

\* The storage queue runs two tasks at a time.
Claimable(m, j) ==
    /\ job[m][j] = Fresh
    /\ Cardinality({p \in Migs \X JobIds : job[p[1]][p[2]].st = "running"}) < 2

Running(m, j) == job[m][j].st = "running"
Stopped(m, j) == job[m][j].stop # "no"

\* The attempt ends and the job takes its next status.  A cancel request
\* beats success and pause; work that is to be retried stays queued with the
\* request set and is never claimed again.
Settled(m, j, st) ==
    LET stop == job[m][j].stop
    IN  [job[m] EXCEPT ![j] =
            CASE st \in {"succeeded", "paused"} /\ stop = "cancel" ->
                     [st |-> "canceled", stop |-> "no"]
              [] st = "queued" /\ stop = "pause" -> [st |-> "paused", stop |-> "no"]
              [] st = "queued" /\ stop = "cancel" -> [st |-> "queued", stop |-> "cancel"]
              [] OTHER -> [st |-> st, stop |-> "no"]]
\* What a stop request turns the job into when its handler gives up.
StopStatus(m, j) == IF job[m][j].stop = "pause" THEN "paused" ELSE "canceled"

\* EnsureStorageMigrationAbortCleanup, queueStorageMigrationAbort: one abort
\* job per cancellation; a cleanup job that still runs or waits is canceled.
HasAbort(r, js) == r.cleanup[1] = "abort" /\ js[r.cleanup].st # "none"
AbortRow(r, js) ==
    IF HasAbort(r, js) THEN r
    ELSE [r EXCEPT !.status = "canceled", !.cleanup = Abort(r.gen + 1),
                   !.canceled = TRUE, !.keep = TRUE, !.gen = r.gen + 1]
AbortJobs(r, js) ==
    IF HasAbort(r, js) THEN js
    ELSE [js EXCEPT ![Cleanup] = IF r.cleanup = Cleanup THEN CancelJob(@) ELSE @,
                    ![Abort(r.gen + 1)] = Fresh]
CanAbort(r, js) == HasAbort(r, js) \/ r.gen < MaxGen

\* scheduleStorageMigrationCleanup: the job is found again by its idempotency
\* key, in whatever state it is.
AllDeleted(m) == \A f \in Items(m) : item[m][f].status = "deleted"
ScheduleRow(m, r) ==
    IF AllDeleted(m) THEN [r EXCEPT !.status = "completed"]
    ELSE IF r.cleanup # NoJob THEN r
    ELSE [r EXCEPT !.status = "retaining", !.cleanup = Cleanup]
ScheduleJobs(m, r, js) ==
    IF AllDeleted(m) \/ r.cleanup # NoJob \/ js[Cleanup].st # "none" THEN js
    ELSE [js EXCEPT ![Cleanup] = Fresh]

-----------------------------------------------------------------------------
(* StartStorageMigration: every live file of the source pool, none of them *)
(* reserved; the unique reservation key makes the check and the insertion  *)
(* one.  When the job cannot be queued the reservations are dropped.       *)

Plan(src) == {f \in Files : Live(f) /\ file[f].at = src}
Reserved(f) == \E m \in Migs : item[m][f].reserved

StartStorageMigration(m, src, dst, queued) ==
    /\ mig[m].status = "none" /\ src # dst
    /\ Plan(src) # {} /\ \A f \in Plan(src) : ~ Reserved(f) /\ ~ WriteLocked(f)
    /\ IF queued THEN UNCHANGED budget ELSE Spend("mishaps")
    /\ item' = [item EXCEPT ![m] = [f \in Files |->
           IF f \in Plan(src)
           THEN [NoItem EXCEPT !.status = "pending", !.reserved = queued]
           ELSE NoItem]]
    /\ mig' = [mig EXCEPT ![m].status = IF queued THEN "queued" ELSE "failed",
                          ![m].src = src, ![m].dst = dst]
    /\ job' = IF queued THEN [job EXCEPT ![m][Main] = Fresh] ELSE job
    /\ UNCHANGED <<file, store, encoding, work, keeping, deleter, seen>>

-----------------------------------------------------------------------------
(* storageMigrationHandler: the migration job.                             *)

\* prepareStorageMigrationRetry, for one item.
AtDestination(m, f) == file[f].at = mig[m].dst /\ item[m][f].cutover
Conflict(m, f) == /\ item[m][f].status \notin {"none", "deleted"} /\ Live(f)
                  /\ ~ AtDestination(m, f)
                  /\ file[f].at # mig[m].src
Prepared(m, f) ==
    LET i == item[m][f]
    IN  CASE i.status \in {"none", "deleted"} -> i
          [] i.status \notin {"none", "deleted"} /\ ~ Live(f) -> [i EXCEPT !.status = "deleted"]
          [] OTHER -> [i EXCEPT
                 !.status = IF AtDestination(m, f) THEN "cleanup_pending" ELSE "pending",
                 !.reserved = TRUE,
                 !.owned = @ /\ (i.status # "canceled" \/ AtDestination(m, f))]
ReservedElsewhere(m, f) == /\ Prepared(m, f).reserved
                           /\ \E n \in Migs \ {m} : item[n][f].reserved

\* The migration waits while the cleanup of its own cancellation runs.
AbortPending(m) == /\ mig[m].canceled /\ mig[m].cleanup # NoJob
                   /\ job[m][mig[m].cleanup].st \notin Terminal \cup {"none"}
CopyFinished(m) == mig[m].status \in {"retaining", "completed", "retained"}

MainWaits(m) ==
    /\ Claimable(m, Main) /\ AbortPending(m)
    /\ \E st \in {"queued", "failed"} : job' = [job EXCEPT ![m] = Settled(m, Main, st)]
    /\ UNCHANGED <<file, store, encoding, mig, item, work, keeping, deleter, seen, budget>>

MainAlreadyDone(m) ==
    /\ Claimable(m, Main) /\ ~ AbortPending(m) /\ CopyFinished(m)
    /\ LET link == mig[m].status = "retaining" /\ mig[m].cleanup = NoJob
           js == Settled(m, Main, "succeeded")
       IN  /\ mig' = [mig EXCEPT ![m] = IF link THEN ScheduleRow(m, @) ELSE @]
           /\ job' = [job EXCEPT ![m] = IF link THEN ScheduleJobs(m, mig[m], js) ELSE js]
    /\ UNCHANGED <<file, store, encoding, item, work, keeping, deleter, seen, budget>>

MainRefused(m) ==
    /\ Claimable(m, Main) /\ ~ AbortPending(m) /\ ~ CopyFinished(m)
    /\ \E f \in Files : Conflict(m, f) \/ ReservedElsewhere(m, f)
    /\ job' = [job EXCEPT ![m] = Settled(m, Main, "failed")]
    /\ UNCHANGED <<file, store, encoding, mig, item, work, keeping, deleter, seen, budget>>

MainStart(m) ==
    /\ Claimable(m, Main) /\ ~ AbortPending(m) /\ ~ CopyFinished(m)
    /\ \A f \in Files : ~ Conflict(m, f) /\ ~ ReservedElsewhere(m, f)
    /\ item' = [item EXCEPT ![m] = [f \in Files |-> Prepared(m, f)]]
    /\ mig' = [mig EXCEPT ![m].status = "running", ![m].keep = FALSE,
                          ![m].cleanup = NoJob, ![m].canceled = FALSE]
    /\ job' = [job EXCEPT ![m][Main].st = "running"]
    /\ work' = [work EXCEPT ![m][Main] = [f \in Files |->
           IF item'[m][f].status \in {"none", "cleanup_pending", "cleaned", "deleted"}
           THEN Idle ELSE [pc |-> "todo", left |-> {}]]]
    /\ UNCHANGED <<file, store, encoding, keeping, deleter, seen, budget>>

\* runStorageMigrationItems: the first error cancels the other workers.
Giving(m) == \/ Stopped(m, Main)
             \/ \E f \in Files : work[m][Main][f].pc \in {"error", "conflict"}

At(m, j, f, p) == Running(m, j) /\ work[m][j][f].pc = p
Goto(m, j, f, p) == work' = [work EXCEPT ![m][j][f] = [pc |-> p, left |-> {}]]

\* The item's file was deleted meanwhile: whatever was copied goes.
DropDestination(m, f, wrote) ==
    IF item[m][f].owned \/ wrote
    THEN /\ store' = [store EXCEPT ![mig[m].dst][f] = NoObjects]
         /\ item' = [item EXCEPT ![m][f].status = "deleted", ![m][f].owned = FALSE]
    ELSE /\ item' = [item EXCEPT ![m][f].status = "deleted"]
         /\ UNCHANGED store

\* copyStorageMigrationPrefix before the first object: a destination that is
\* not the item's own has to be empty, and is claimed before anything is
\* written.  p is the phase (read-locked "copying", write-locked "final").
BeginCopy(m, f, p, status) ==
    LET mine == item[m][f].owned \/ Empty(mig[m].dst, f)
        sound == /\ file[f].at = mig[m].src /\ mine /\ ~ Empty(mig[m].src, f)
    IN  /\ item' = [item EXCEPT
               ![m][f].status = IF sound THEN status ELSE "failed",
               ![m][f].owned = @ \/ (file[f].at = mig[m].src /\ mine)]
        /\ work' = [work EXCEPT ![m][Main][f] =
               IF sound THEN [pc |-> p, left |-> Held(mig[m].src, f)]
               ELSE [pc |-> IF file[f].at = mig[m].src /\ mine THEN "error" ELSE "conflict",
                     left |-> {}]]
        /\ UNCHANGED store

ItemStart(m, f) ==
    /\ At(m, Main, f, "todo") /\ ~ Giving(m) /\ ~ WriteLocked(f)
    /\ \/ /\ item[m][f].status = "deleted"
          /\ Goto(m, Main, f, "done") /\ UNCHANGED <<item, store>>
       \/ /\ item[m][f].status # "deleted" /\ ~ Live(f)
          /\ DropDestination(m, f, FALSE) /\ Goto(m, Main, f, "done")
       \/ /\ item[m][f].status # "deleted" /\ Live(f)
          /\ BeginCopy(m, f, "copying", "copying")
    /\ UNCHANGED <<file, encoding, mig, job, keeping, deleter, seen, budget>>

\* copyStorageMigrationObject: the object as the source holds it now.  A
\* checkpoint that still matches spares the copy of equal bytes.
CopyObject(m, f, o) ==
    /\ Running(m, Main) /\ work[m][Main][f].pc \in {"copying", "final"}
    /\ ~ Giving(m) /\ o \in work[m][Main][f].left
    /\ store' = [store EXCEPT ![mig[m].dst][f][o] = store[mig[m].src][f][o]]
    /\ work' = [work EXCEPT ![m][Main][f].left = @ \ {o}]
    /\ UNCHANGED <<file, encoding, mig, item, job, keeping, deleter, seen, budget>>

CopyDone(m, f) ==
    /\ At(m, Main, f, "copying") /\ work[m][Main][f].left = {}
    /\ Goto(m, Main, f, "copied")
    /\ UNCHANGED <<file, store, encoding, mig, item, job, keeping, deleter, seen, budget>>

FinalStart(m, f) ==
    /\ At(m, Main, f, "copied") /\ ~ Giving(m) /\ Free(f)
    /\ \/ /\ item[m][f].status = "deleted" \/ ~ Live(f)
          /\ DropDestination(m, f, TRUE) /\ Goto(m, Main, f, "done")
       \/ /\ item[m][f].status # "deleted" /\ Live(f)
          /\ BeginCopy(m, f, "final", "verifying")
    /\ UNCHANGED <<file, encoding, mig, job, keeping, deleter, seen, budget>>

\* The end of the final copy (objects the source no longer has are removed),
\* the cache invalidation and the transaction that moves the file.
Cutover(m, f) ==
    /\ At(m, Main, f, "final") /\ work[m][Main][f].left = {} /\ ~ Giving(m)
    /\ store' = [store EXCEPT ![mig[m].dst][f] = [o \in Objs |->
           IF o \in Held(mig[m].src, f) THEN @[o] ELSE 0]]
    /\ file' = [file EXCEPT ![f].at = mig[m].dst]
    /\ item' = [item EXCEPT ![m][f].status = "cleanup_pending", ![m][f].cutover = TRUE]
    /\ Goto(m, Main, f, "done")
    /\ UNCHANGED <<encoding, mig, job, keeping, deleter, seen, budget>>

\* A copy that failed five times, a failed inventory, a failed invalidation.
ItemFault(m, f) ==
    /\ Running(m, Main) /\ work[m][Main][f].pc \in {"copying", "final"}
    /\ Spend("mishaps")
    /\ item' = [item EXCEPT ![m][f].status = "failed"]
    /\ Goto(m, Main, f, "error")
    /\ UNCHANGED <<file, store, encoding, mig, job, keeping, deleter, seen>>

ItemStop(m, f) ==
    /\ Running(m, Main) /\ work[m][Main][f].pc \in {"copying", "copied", "final"}
    /\ Giving(m)
    /\ item' = [item EXCEPT ![m][f].status = IF @ = "deleted" THEN @ ELSE "pending"]
    /\ Goto(m, Main, f, "stopped")
    /\ UNCHANGED <<file, store, encoding, mig, job, keeping, deleter, seen, budget>>

WorkersIdle(m) ==
    /\ Running(m, Main)
    /\ \A f \in Files : work[m][Main][f].pc \notin {"copying", "copied", "final"}

\* The context was canceled: the migration pauses, or is canceled and its
\* abort queued (queueing may fail; the reconciler makes up for it).
MainStopped(m, aborted) ==
    /\ WorkersIdle(m) /\ Stopped(m, Main)
    /\ LET js == Settled(m, Main, StopStatus(m, Main))
           r == [mig[m] EXCEPT !.status = "canceled", !.canceled = TRUE]
       IN  IF StopStatus(m, Main) = "paused"
           THEN /\ aborted
                /\ mig' = [mig EXCEPT ![m].status = "paused"]
                /\ job' = [job EXCEPT ![m] = js]
                /\ UNCHANGED budget
           ELSE IF aborted
           THEN /\ CanAbort(r, js)
                /\ mig' = [mig EXCEPT ![m] = AbortRow(r, js)]
                /\ job' = [job EXCEPT ![m] = AbortJobs(r, js)]
                /\ UNCHANGED budget
           ELSE /\ Spend("mishaps")
                /\ mig' = [mig EXCEPT ![m] = r]
                /\ job' = [job EXCEPT ![m] = js]
    /\ work' = [work EXCEPT ![m][Main] = NoWork]
    /\ UNCHANGED <<file, store, encoding, item, keeping, deleter, seen>>

MainFailed(m) ==
    /\ WorkersIdle(m) /\ ~ Stopped(m, Main) /\ Giving(m)
    /\ \E st \in {"queued", "failed"} :
          /\ (\E f \in Files : work[m][Main][f].pc = "conflict") => st = "failed"
          /\ mig' = [mig EXCEPT ![m].status = IF st = "failed" THEN "failed" ELSE "running"]
          /\ job' = [job EXCEPT ![m] = Settled(m, Main, st)]
    /\ work' = [work EXCEPT ![m][Main] = NoWork]
    /\ UNCHANGED <<file, store, encoding, item, keeping, deleter, seen, budget>>

\* Every item is through: the cleanup job is enqueued ...
MainEnqueue(m) ==
    /\ WorkersIdle(m) /\ ~ Giving(m)
    /\ \A f \in Files : work[m][Main][f].pc \in {"off", "done"}
    /\ job' = [job EXCEPT ![m] = ScheduleJobs(m, mig[m], @)]
    /\ work' = [work EXCEPT ![m][Main] = [f \in Files |-> [pc |-> "link", left |-> {}]]]
    /\ UNCHANGED <<file, store, encoding, mig, item, keeping, deleter, seen, budget>>

\* ... and then linked to the migration's row, and the attempt succeeds.
MainLink(m) ==
    /\ Running(m, Main) /\ \A f \in Files : work[m][Main][f].pc = "link"
    /\ mig' = [mig EXCEPT ![m] = ScheduleRow(m, @)]
    /\ job' = [job EXCEPT ![m] = Settled(m, Main, "succeeded")]
    /\ work' = [work EXCEPT ![m][Main] = NoWork]
    /\ UNCHANGED <<file, store, encoding, item, keeping, deleter, seen, budget>>

-----------------------------------------------------------------------------
(* storageMigrationCleanupHandler: the originals go, one file at a time.   *)

\* The job is due a day after it was enqueued, or when the administrator
\* says so, whether or not the attempt that enqueued it has returned.
CleanupStart(m) ==
    /\ Claimable(m, Cleanup)
    /\ IF mig[m].keep \/ mig[m].status = "retained"
       THEN /\ job' = [job EXCEPT ![m] = Settled(m, Cleanup, "succeeded")]
            /\ UNCHANGED <<mig, work>>
       ELSE /\ mig' = [mig EXCEPT ![m].status = "cleaning"]
            /\ job' = [job EXCEPT ![m][Cleanup].st = "running"]
            /\ work' = [work EXCEPT ![m][Cleanup] = [f \in Files |->
                   IF item[m][f].status \in {"none", "cleaned", "deleted"}
                   THEN Idle ELSE [pc |-> "todo", left |-> {}]]]
    /\ UNCHANGED <<file, store, encoding, item, keeping, deleter, seen, budget>>

Quiet(m, j) == \A f \in Files : work[m][j][f].pc \notin {"deleting", "error", "wait"}
Untouchable == {"cleaned", "original_kept", "original_partial", "deleted"}

\* cleanupStorageMigrationItem up to the first deletion: the file has to be
\* at its destination (or its row gone), and nothing of it being encoded.
CleanupItem(m, f) ==
    /\ At(m, Cleanup, f, "todo") /\ Quiet(m, Cleanup) /\ ~ Stopped(m, Cleanup) /\ Free(f)
    /\ \/ /\ item[m][f].status \in Untouchable
          /\ Goto(m, Cleanup, f, "done") /\ UNCHANGED item
       \/ /\ item[m][f].status \notin Untouchable
          /\ file[f].row # "gone" /\ file[f].at # mig[m].dst
          /\ Goto(m, Cleanup, f, "error") /\ UNCHANGED item
       \/ /\ item[m][f].status \notin Untouchable
          /\ file[f].row # "gone" /\ file[f].at = mig[m].dst /\ f \in encoding
          /\ item' = [item EXCEPT ![m][f].status = "cleanup_pending"]
          /\ Goto(m, Cleanup, f, "wait")
       \/ /\ item[m][f].status \notin Untouchable
          /\ file[f].row = "gone" \/ (file[f].at = mig[m].dst /\ f \notin encoding)
          /\ item' = [item EXCEPT ![m][f].status = "cleaning"]
          /\ work' = [work EXCEPT ![m][Cleanup][f] =
                 [pc |-> "deleting", left |-> Held(mig[m].src, f)]]
    /\ UNCHANGED <<file, store, encoding, mig, job, keeping, deleter, seen, budget>>

\* storage.DeletePrefix of a cleanup or an abort, object by object; neither a
\* pause nor a cancel interrupts it, a storage error does.
DeleteObject(m, j, f, o) ==
    /\ j # Main /\ At(m, j, f, "deleting") /\ o \in work[m][j][f].left
    /\ LET mt == IF j = Cleanup THEN mig[m].src ELSE mig[m].dst
       IN  store' = [store EXCEPT ![mt][f][o] = 0]
    /\ work' = [work EXCEPT ![m][j][f].left = @ \ {o}]
    /\ UNCHANGED <<file, encoding, mig, item, job, keeping, deleter, seen, budget>>

DeleteFault(m, j, f) ==
    /\ j # Main /\ At(m, j, f, "deleting") /\ Spend("mishaps")
    /\ Goto(m, j, f, "error")
    /\ UNCHANGED <<file, store, encoding, mig, item, job, keeping, deleter, seen>>

CleanupItemDone(m, f) ==
    /\ At(m, Cleanup, f, "deleting") /\ work[m][Cleanup][f].left = {}
    /\ item' = [item EXCEPT ![m][f].status = "cleaned", ![m][f].cleaned = TRUE,
                            ![m][f].reserved = FALSE]
    /\ Goto(m, Cleanup, f, "done")
    /\ UNCHANGED <<file, store, encoding, mig, job, keeping, deleter, seen, budget>>

\* Between two items the handler honours a stop; keeping the originals is the
\* stop that writes no status of its own.
CleanupEnd(m) ==
    /\ Running(m, Cleanup) /\ \A f \in Files : work[m][Cleanup][f].pc # "deleting"
    /\ \/ /\ Quiet(m, Cleanup) /\ Stopped(m, Cleanup)
          /\ job' = [job EXCEPT ![m] = Settled(m, Cleanup, StopStatus(m, Cleanup))]
          /\ mig' = [mig EXCEPT ![m].status =
                 IF mig[m].keep /\ \E f \in Files : work[m][Cleanup][f].pc = "todo"
                 THEN @ ELSE StopStatus(m, Cleanup)]
       \/ /\ \E f \in Files : work[m][Cleanup][f].pc = "wait"
          /\ job' = [job EXCEPT ![m] = Settled(m, Cleanup, "queued")]
          /\ mig' = [mig EXCEPT ![m].status = "cleaning"]
       \/ /\ \E f \in Files : work[m][Cleanup][f].pc = "error"
          /\ \/ /\ Stopped(m, Cleanup)
                /\ job' = [job EXCEPT ![m] = Settled(m, Cleanup, StopStatus(m, Cleanup))]
                /\ mig' = [mig EXCEPT ![m].status = IF mig[m].keep THEN @
                                                    ELSE StopStatus(m, Cleanup)]
             \/ /\ ~ Stopped(m, Cleanup) /\ UNCHANGED mig
                /\ \E st \in {"queued", "failed"} :
                      job' = [job EXCEPT ![m] = Settled(m, Cleanup, st)]
       \/ /\ \A f \in Files : work[m][Cleanup][f].pc \in {"off", "done"}
          /\ ~ Stopped(m, Cleanup)
          /\ job' = [job EXCEPT ![m] = Settled(m, Cleanup, "succeeded")]
          /\ mig' = [mig EXCEPT ![m].status = IF mig[m].keep THEN @ ELSE "completed"]
    /\ work' = [work EXCEPT ![m][Cleanup] = NoWork]
    /\ UNCHANGED <<file, store, encoding, item, keeping, deleter, seen, budget>>

-----------------------------------------------------------------------------
(* storageMigrationAbortHandler: incomplete destinations go, files that    *)
(* were cut over stay where they are.                                      *)

AbortStart(m, g) ==
    /\ Claimable(m, Abort(g))
    /\ IF job[m][Main].st \in Terminal \cup {"none"}
       THEN /\ job' = [job EXCEPT ![m][Abort(g)].st = "running"]
            /\ work' = [work EXCEPT ![m][Abort(g)] = [f \in Files |->
                   IF f \in Items(m) THEN [pc |-> "todo", left |-> {}] ELSE Idle]]
       ELSE /\ \E st \in {"queued", "failed"} :
                  job' = [job EXCEPT ![m] = Settled(m, Abort(g), st)]
            /\ UNCHANGED work
    /\ UNCHANGED <<file, store, encoding, mig, item, keeping, deleter, seen, budget>>

\* Mutant: the item of an aborted copy stays reserved.
CanceledReserved(i) == [i EXCEPT !.status = "canceled", !.owned = FALSE]

Canceled(i) == [i EXCEPT !.status = "canceled", !.reserved = FALSE, !.owned = FALSE]

AbortItem(m, g, f) ==
    /\ At(m, Abort(g), f, "todo") /\ Quiet(m, Abort(g)) /\ ~ Stopped(m, Abort(g)) /\ Free(f)
    /\ LET i == item[m][f]
           kept == Live(f) /\ file[f].at = mig[m].dst /\ i.cutover
           strayed == Live(f) /\ ~ kept /\ file[f].at # mig[m].src
       IN  \/ /\ i.status = "deleted"
              /\ Goto(m, Abort(g), f, "done") /\ UNCHANGED item
           \/ /\ i.status # "deleted" /\ kept
              /\ item' = [item EXCEPT ![m][f].status = "original_kept",
                                      ![m][f].reserved = FALSE]
              /\ Goto(m, Abort(g), f, "done")
           \/ /\ i.status # "deleted" /\ strayed
              /\ Goto(m, Abort(g), f, "error") /\ UNCHANGED item
           \/ /\ i.status # "deleted" /\ ~ kept /\ ~ strayed /\ i.owned
              /\ work' = [work EXCEPT ![m][Abort(g)][f] =
                     [pc |-> "deleting", left |-> Held(mig[m].dst, f)]]
              /\ UNCHANGED item
           \/ /\ i.status # "deleted" /\ ~ kept /\ ~ strayed /\ ~ i.owned
              /\ item' = [item EXCEPT ![m][f] = Canceled(i)]
              /\ Goto(m, Abort(g), f, "done")
    /\ UNCHANGED <<file, store, encoding, mig, job, keeping, deleter, seen, budget>>

AbortItemDone(m, g, f) ==
    /\ At(m, Abort(g), f, "deleting") /\ work[m][Abort(g)][f].left = {}
    /\ item' = [item EXCEPT ![m][f] = IF @.status = "deleted" THEN @ ELSE Canceled(@)]
    /\ Goto(m, Abort(g), f, "done")
    /\ UNCHANGED <<file, store, encoding, mig, job, keeping, deleter, seen, budget>>

AbortEnd(m, g) ==
    LET a == Abort(g)
    IN  /\ Running(m, a) /\ \A f \in Files : work[m][a][f].pc # "deleting"
        /\ \/ /\ Stopped(m, a) /\ UNCHANGED mig
              /\ job' = [job EXCEPT ![m] = Settled(m, a, StopStatus(m, a))]
           \/ /\ ~ Stopped(m, a) /\ ~ Quiet(m, a) /\ UNCHANGED mig
              /\ \E st \in {"queued", "failed"} : job' = [job EXCEPT ![m] = Settled(m, a, st)]
           \/ /\ ~ Stopped(m, a)
              /\ \A f \in Files : work[m][a][f].pc \in {"off", "done"}
              /\ job' = [job EXCEPT ![m] = Settled(m, a, "succeeded")]
              /\ mig' = [mig EXCEPT ![m].status = "canceled"]
        /\ work' = [work EXCEPT ![m][a] = NoWork]
        /\ UNCHANGED <<file, store, encoding, item, keeping, deleter, seen, budget>>

-----------------------------------------------------------------------------
(* What an administrator does to a migration and its jobs.                 *)

\* KeepStorageMigrationOriginals: the cleanup is told to stop, then every item
\* that is not cleaned keeps its original, each under its file's write lock.
CanKeep(m, r) ==
    /\ keeping[m] = {}
    /\ r.status \in {"retaining", "cleaning"} \/ (r.status = "paused" /\ r.cleanup # NoJob)
    /\ r.cleanup # NoJob => job[m][r.cleanup].st # "succeeded"
KeepRow(r) == [r EXCEPT !.keep = TRUE]
KeepJobs(r, js) == IF r.cleanup = NoJob THEN js
                   ELSE [js EXCEPT ![r.cleanup] = CancelJob(@)]

KeepOriginals(m) ==
    /\ CanKeep(m, mig[m]) /\ Spend("operations")
    /\ mig' = [mig EXCEPT ![m] = KeepRow(@)]
    /\ job' = [job EXCEPT ![m] = KeepJobs(mig[m], @)]
    /\ keeping' = [keeping EXCEPT ![m] = Items(m)]
    /\ UNCHANGED <<file, store, encoding, item, work, deleter, seen>>

Kept(i) == IF i.status \in {"cleaned", "deleted"} THEN i
           ELSE [i EXCEPT !.status = IF i.status = "cleaning" THEN "original_partial"
                                     ELSE "original_kept",
                          !.reserved = FALSE]
\* The last item's transaction is followed by the one that closes the row.
KeepItem(m, f) ==
    /\ f \in keeping[m] /\ Free(f)
    /\ item' = [item EXCEPT ![m][f] = Kept(@)]
    /\ keeping' = [keeping EXCEPT ![m] = @ \ {f}]
    /\ mig' = IF keeping[m] = {f} THEN [mig EXCEPT ![m].status = "retained", ![m].keep = TRUE]
              ELSE mig
    /\ UNCHANGED <<file, store, encoding, job, work, deleter, seen, budget>>

\* Pause, resume, cancel and retry of a job, and ReflectStorageMigrationJobControl
\* after it, which a crash between the two loses.
Reflected(reflect) == IF reflect THEN Spend("operations")
                      ELSE SpendAll({"operations", "mishaps", "events"})

Pause(m, j, reflect) ==
    /\ job[m][j].st = "queued" \/ (Running(m, j) /\ ~ Stopped(m, j))
    /\ Reflected(reflect)
    /\ job' = [job EXCEPT ![m][j] = PauseJob(@)]
    /\ mig' = IF reflect
              THEN [mig EXCEPT ![m].status = IF j[1] = "abort" THEN "canceled" ELSE "paused"]
              ELSE mig
    /\ UNCHANGED <<file, store, encoding, item, work, keeping, deleter, seen>>

Resume(m, j, reflect) ==
    /\ job[m][j].st = "paused" /\ Reflected(reflect)
    /\ job' = [job EXCEPT ![m][j] = Fresh]
    /\ \E due \in BOOLEAN :
          mig' = IF reflect
                 THEN [mig EXCEPT ![m].status = CASE j = Main -> "running"
                                                  [] j = Cleanup /\ due -> "cleaning"
                                                  [] j = Cleanup /\ ~ due -> "retaining"
                                                  [] OTHER -> "canceled"]
                 ELSE mig
    /\ UNCHANGED <<file, store, encoding, item, work, keeping, deleter, seen>>

CancelMain(m, reflect) ==
    /\ job[m][Main].st \in {"queued", "running", "paused"} /\ Reflected(reflect)
    /\ LET js == [job[m] EXCEPT ![Main] = CancelJob(@)]
       IN  /\ reflect => CanAbort(mig[m], js)
           /\ job' = [job EXCEPT ![m] = IF reflect THEN AbortJobs(mig[m], js) ELSE js]
           /\ mig' = IF reflect THEN [mig EXCEPT ![m] = AbortRow(@, js)] ELSE mig
    /\ UNCHANGED <<file, store, encoding, item, work, keeping, deleter, seen>>

\* Canceling the cleanup keeps the originals; canceling an abort only stops it.
CancelOther(m, j, reflect) ==
    /\ j # Main /\ job[m][j].st \in {"queued", "running", "paused"} /\ Reflected(reflect)
    /\ LET js == [job[m] EXCEPT ![j] = CancelJob(@)]
           keep == reflect /\ j = Cleanup /\ CanKeep(m, mig[m])
       IN  /\ job' = [job EXCEPT ![m] = IF keep THEN KeepJobs(mig[m], js) ELSE js]
           /\ mig' = IF keep THEN [mig EXCEPT ![m] = KeepRow(@)] ELSE mig
           /\ keeping' = IF keep THEN [keeping EXCEPT ![m] = Items(m)] ELSE keeping
    /\ UNCHANGED <<file, store, encoding, item, work, deleter, seen>>

Retry(m, j, reflect) ==
    /\ job[m][j].st \in {"failed", "canceled"} /\ Reflected(reflect)
    /\ job' = [job EXCEPT ![m][j] = Fresh]
    /\ mig' = [mig EXCEPT ![m] =
           CASE reflect /\ j = Main -> [@ EXCEPT !.status = "queued", !.cleanup = NoJob,
                                                 !.canceled = FALSE, !.keep = FALSE]
             [] reflect /\ j[1] = "abort" -> [@ EXCEPT !.status = "canceled"]
             [] OTHER -> @]
    /\ UNCHANGED <<file, store, encoding, item, work, keeping, deleter, seen>>

CancelFailed(m) ==
    /\ mig[m].status = "failed" /\ job[m][Main].st \in {"failed", "none"}
    /\ CanAbort(mig[m], job[m]) /\ Spend("operations")
    /\ mig' = [mig EXCEPT ![m] = AbortRow(@, job[m])]
    /\ job' = [job EXCEPT ![m] = AbortJobs(mig[m], @)]
    /\ UNCHANGED <<file, store, encoding, item, work, keeping, deleter, seen>>

-----------------------------------------------------------------------------
(* storageMigrationReconcileHandler: the rows are loaded first and applied *)
(* one by one against the jobs as they are by then.                        *)

Reconciled == {"queued", "running", "paused", "canceled", "retaining", "cleaning"}

ReconcileLoad ==
    /\ \A m \in Migs : seen[m] = Unseen
    /\ \E m \in Migs : mig[m].status \in Reconciled
    /\ Spend("reconciles")
    /\ seen' = [m \in Migs |-> IF mig[m].status \in Reconciled
                              THEN [status |-> mig[m].status, cleanup |-> mig[m].cleanup]
                              ELSE Unseen]
    /\ UNCHANGED <<file, store, encoding, mig, item, job, work, keeping, deleter>>

\* The row follows its cleanup or abort job.
ReconcileCleanup(m) ==
    LET r == seen[m]
        c == job[m][r.cleanup].st
        row == mig[m]
    IN  /\ r.cleanup # NoJob
        /\ \/ /\ c = "none" /\ r.status = "canceled" /\ CanAbort(row, job[m])
              /\ mig' = [mig EXCEPT ![m] = AbortRow(row, job[m])]
              /\ job' = [job EXCEPT ![m] = AbortJobs(row, @)] /\ UNCHANGED keeping
           \/ /\ c = "none" /\ r.status # "canceled"
              /\ LET unlinked == [row EXCEPT !.cleanup = NoJob]
                     js == ScheduleJobs(m, unlinked, job[m])
                 IN  /\ mig' = [mig EXCEPT ![m] =
                            IF r.status = "paused" THEN [ScheduleRow(m, unlinked) EXCEPT !.status = "paused"]
                            ELSE ScheduleRow(m, unlinked)]
                     /\ job' = [job EXCEPT ![m] =
                            IF r.status = "paused" THEN [js EXCEPT ![Cleanup] = PauseJob(@)]
                            ELSE js]
              /\ UNCHANGED keeping
           \/ /\ r.cleanup = Cleanup /\ c = "canceled"
              /\ IF CanKeep(m, row)
                 THEN /\ mig' = [mig EXCEPT ![m] = KeepRow(@)]
                      /\ job' = [job EXCEPT ![m] = KeepJobs(row, @)]
                      /\ keeping' = [keeping EXCEPT ![m] = Items(m)]
                 ELSE UNCHANGED <<mig, job, keeping>>
           \/ /\ r.cleanup = Cleanup /\ c \notin {"none", "canceled"}
              /\ \E due \in BOOLEAN :
                    mig' = [mig EXCEPT ![m].status =
                        IF c = "paused" \/ job[m][Cleanup].stop = "pause" THEN "paused"
                        ELSE IF c = "succeeded" THEN "completed"
                        ELSE IF job[m][Cleanup].stop = "no" /\ c = "queued" /\ ~ due THEN "retaining"
                        ELSE IF job[m][Cleanup].stop = "no" /\ c \in {"queued", "running"} THEN "cleaning"
                        ELSE @]
              /\ UNCHANGED <<job, keeping>>
           \/ /\ r.cleanup[1] = "abort" /\ c # "none"
              /\ mig' = [mig EXCEPT ![m].status = "canceled"] /\ UNCHANGED <<job, keeping>>

\* Without one: the abort or the cleanup is queued, or the row follows the
\* migration job, which is created again if it is missing.
ReconcileMain(m) ==
    LET r == seen[m]
        fresh == [job[m] EXCEPT ![Main] = IF @.st # "none" THEN @
                                          ELSE IF r.status = "paused" THEN [Fresh EXCEPT !.st = "paused"]
                                          ELSE Fresh]
        js == IF r.status \in {"canceled", "retaining", "cleaning"} THEN job[m] ELSE fresh
        main == js[Main]
        abort == r.status = "canceled" \/ (r.status \in {"queued", "running", "paused"} /\ main.st = "canceled")
        schedule == \/ r.status \in {"retaining", "cleaning"}
                    \/ r.status \in {"queued", "running", "paused"} /\ main.st = "succeeded"
    IN  /\ r.cleanup = NoJob
        /\ abort => CanAbort(mig[m], js)
        /\ mig' = [mig EXCEPT ![m] =
               IF abort THEN AbortRow(@, js)
               ELSE IF schedule THEN ScheduleRow(m, @)
               ELSE IF main.st = "paused" \/ main.stop = "pause" THEN [@ EXCEPT !.status = "paused"]
               ELSE IF main.st \in {"queued", "running", "failed"} /\ main.stop = "no"
               THEN [@ EXCEPT !.status = main.st]
               ELSE @]
        /\ job' = [job EXCEPT ![m] = IF abort THEN AbortJobs(mig[m], js)
                                     ELSE IF schedule THEN ScheduleJobs(m, mig[m], js)
                                     ELSE js]
        /\ UNCHANGED keeping

Reconcile(m) ==
    /\ seen[m] # Unseen
    /\ ReconcileCleanup(m) \/ ReconcileMain(m)
    /\ seen' = [seen EXCEPT ![m] = Unseen]
    /\ UNCHANGED <<file, store, encoding, item, work, deleter, budget>>

\* Retention of the background history removes finished jobs.
Purge(m, j) ==
    /\ job[m][j].st \in Terminal /\ Spend("mishaps")
    /\ job' = [job EXCEPT ![m][j] = Unborn]
    /\ UNCHANGED <<file, store, encoding, mig, item, work, keeping, deleter, seen>>

-----------------------------------------------------------------------------
(* The others that touch a file's objects.                                 *)

\* An output is being encoded, and then published to the mount the file is on
\* under the read lock of the file.
EncodeBegin(f) ==
    /\ Live(f) /\ f \notin encoding
    /\ \E o \in Objs : store[file[f].at][f][o] < MaxVersion
    /\ encoding' = encoding \cup {f}
    /\ UNCHANGED <<file, store, mig, item, job, work, keeping, deleter, seen, budget>>

\* Mutant: the output is published without the read lock of the file.
EncodePublishUnlocked(f, o) ==
    /\ f \in encoding /\ Live(f)
    /\ o # SourceObj /\ store[file[f].at][f][o] < MaxVersion
    /\ store' = [store EXCEPT ![file[f].at][f][o] = @ + 1]
    /\ encoding' = encoding \ {f}
    /\ UNCHANGED <<file, mig, item, job, work, keeping, deleter, seen, budget>>

EncodePublish(f, o) ==
    /\ f \in encoding /\ Live(f) /\ ~ WriteLocked(f)
    /\ o # SourceObj /\ store[file[f].at][f][o] < MaxVersion
    /\ store' = [store EXCEPT ![file[f].at][f][o] = @ + 1]
    /\ encoding' = encoding \ {f}
    /\ UNCHANGED <<file, mig, item, job, work, keeping, deleter, seen, budget>>

EncodeFail(f) ==
    /\ f \in encoding
    /\ encoding' = encoding \ {f}
    /\ UNCHANGED <<file, store, mig, item, job, work, keeping, deleter, seen, budget>>

\* runEncoderCleanup: with every output ready the uploaded source goes.
EncoderCleanup(f) ==
    /\ Live(f) /\ f \notin encoding /\ Free(f)
    /\ \A o \in Objs : store[file[f].at][f][o] > 0
    /\ store' = [store EXCEPT ![file[f].at][f][SourceObj] = 0]
    /\ UNCHANGED <<file, encoding, mig, item, job, work, keeping, deleter, seen, budget>>

\* Mutant: destinations of unfinished copies are overlooked.
CopiesAtSources(f) ==
    {file[f].at} \cup {mig[m].src : m \in {n \in Migs : f \in Items(n) /\ ~ item[n][f].cleaned}}

\* runDeleter for one file without links: the row is marked, the items of
\* every migration are closed, and unless something is still being encoded
\* every mount that may hold a copy is emptied.
Copies(f) ==
    {file[f].at}
    \cup {mig[m].src : m \in {n \in Migs : f \in Items(n) /\ ~ item[n][f].cleaned}}
    \cup {mig[m].dst : m \in {n \in Migs : f \in Items(n) /\ item[n][f].owned}}

DeleterMark(f) ==
    /\ file[f].row # "gone" /\ Free(f)
    /\ IF Live(f) THEN Spend("operations") ELSE UNCHANGED budget
    /\ file' = [file EXCEPT ![f].row = "deleted"]
    /\ item' = [m \in Migs |-> [g \in Files |->
           IF g = f /\ f \in Items(m) THEN [item[m][f] EXCEPT !.status = "deleted"]
           ELSE item[m][g]]]
    /\ deleter' = IF f \in encoding THEN deleter ELSE [deleter EXCEPT ![f] = Copies(f)]
    /\ UNCHANGED <<store, encoding, mig, job, work, keeping, seen>>

\* deleteStoredFileCopies: one prefix.  The last one is followed by the
\* transaction that removes the rows.
DeleterPrefix(f, mt) ==
    /\ mt \in deleter[f]
    /\ store' = [store EXCEPT ![mt][f] = NoObjects]
    /\ deleter' = [deleter EXCEPT ![f] = @ \ {mt}]
    /\ IF deleter[f] = {mt}
       THEN /\ file' = [file EXCEPT ![f].row = "gone"]
            /\ item' = [m \in Migs |-> [g \in Files |->
                   IF g = f /\ f \in Items(m)
                   THEN [item[m][f] EXCEPT !.reserved = FALSE, !.owned = FALSE]
                   ELSE item[m][g]]]
       ELSE UNCHANGED <<file, item>>
    /\ UNCHANGED <<encoding, mig, job, work, keeping, seen, budget>>

DeleterFault(f) ==
    /\ deleter[f] # {} /\ Spend("mishaps")
    /\ deleter' = [deleter EXCEPT ![f] = {}]
    /\ UNCHANGED <<file, store, encoding, mig, item, job, work, keeping, seen>>

\* The process ends and starts again: handlers, locks and request threads are
\* gone, the runtime's recovery settles what was running.
Crash ==
    /\ Spend("mishaps")
    /\ job' = [m \in Migs |-> [j \in JobIds |->
           CASE ~ Running(m, j) -> job[m][j]
             [] Running(m, j) /\ Stopped(m, j) -> [st |-> StopStatus(m, j), stop |-> "no"]
             [] OTHER -> Fresh]]
    /\ work' = [m \in Migs |-> [j \in JobIds |-> NoWork]]
    /\ keeping' = [m \in Migs |-> {}]
    /\ deleter' = [f \in Files |-> {}]
    /\ seen' = [m \in Migs |-> Unseen]
    /\ UNCHANGED <<file, store, encoding, mig, item>>

-----------------------------------------------------------------------------
MainStep(m) ==
    \/ MainWaits(m) \/ MainAlreadyDone(m) \/ MainRefused(m) \/ MainStart(m)
    \/ \E f \in Files : \/ ItemStart(m, f) \/ CopyDone(m, f) \/ FinalStart(m, f)
                        \/ Cutover(m, f) \/ ItemFault(m, f) \/ ItemStop(m, f)
                        \/ \E o \in Objs : CopyObject(m, f, o)
    \/ \E aborted \in BOOLEAN : MainStopped(m, aborted)
    \/ MainFailed(m) \/ MainEnqueue(m) \/ MainLink(m)

CleanupStep(m) ==
    \/ CleanupStart(m) \/ CleanupEnd(m)
    \/ \E f \in Files : CleanupItem(m, f) \/ CleanupItemDone(m, f)

AbortStep(m) ==
    \E g \in 1..MaxGen :
        \/ AbortStart(m, g) \/ AbortEnd(m, g)
        \/ \E f \in Files : AbortItem(m, g, f) \/ AbortItemDone(m, g, f)

DeleteStep(m) ==
    \E j \in JobIds, f \in Files : \/ DeleteFault(m, j, f)
                                   \/ \E o \in Objs : DeleteObject(m, j, f, o)

Administer(m) ==
    \/ \E src, dst \in Mounts, queued \in BOOLEAN : StartStorageMigration(m, src, dst, queued)
    \/ KeepOriginals(m) \/ CancelFailed(m)
    \/ \E reflect \in BOOLEAN : CancelMain(m, reflect)
    \/ \E j \in JobIds, reflect \in BOOLEAN :
          Pause(m, j, reflect) \/ Resume(m, j, reflect) \/ Retry(m, j, reflect) \/ CancelOther(m, j, reflect)

Repair(m) == \/ Reconcile(m)
             \/ \E f \in Files : KeepItem(m, f)
             \/ \E j \in JobIds : Purge(m, j)

FileStep(f) ==
    \/ EncodeBegin(f) \/ EncodeFail(f) \/ EncoderCleanup(f)
    \/ \E o \in Objs : EncodePublish(f, o)
    \/ DeleterMark(f) \/ DeleterFault(f)
    \/ \E mt \in Mounts : DeleterPrefix(f, mt)

MigNext ==
    \/ \E m \in Migs : \/ MainStep(m) \/ CleanupStep(m) \/ AbortStep(m) \/ DeleteStep(m)
                       \/ Administer(m) \/ Repair(m)
    \/ \E f \in Files : FileStep(f)
    \/ ReconcileLoad
    \/ Crash

MigSpec == MigInit /\ [][MigNext]_migVars

-----------------------------------------------------------------------------
\* The types of the rows and of the handlers' positions.
MigTypeOK ==
    /\ file \in [Files -> [row : {"live", "deleted", "gone"}, at : Mounts]]
    /\ store \in [Mounts -> [Files -> [Objs -> 0..MaxVersion]]]
    /\ encoding \subseteq Files
    /\ mig \in [Migs -> [status : MigStatuses, src : Mounts, dst : Mounts,
                         cleanup : JobIds \cup {NoJob}, keep : BOOLEAN,
                         canceled : BOOLEAN, gen : 0..MaxGen]]
    /\ item \in [Migs -> [Files -> [status : ItemStatuses, owned : BOOLEAN,
                         cutover : BOOLEAN, cleaned : BOOLEAN, reserved : BOOLEAN]]]
    /\ job \in [Migs -> [JobIds -> [st : JobStatuses, stop : {"no", "cancel", "pause"}]]]
    /\ \A m \in Migs, j \in JobIds, f \in Files : work[m][j][f].left \subseteq Objs
    /\ keeping \in [Migs -> SUBSET Files]
    /\ deleter \in [Files -> SUBSET Mounts]

\* Readers of a file: the objects at the mount its row names.
SeenContents == [f \in Files |-> IF Live(f) THEN store[file[f].at][f] ELSE NoObjects]

Contents == INSTANCE FileContents WITH contents <- SeenContents,
                                       deleted <- {f \in Files : ~ Live(f)}

\* The migration implements FileContents: whatever is copied, cut over,
\* cleaned up, aborted, retried and interrupted by crashes, the readers of a
\* file see its objects change only by a published encoding, the removal of
\* the encoded source or the deletion of the file.
ContentsPreserved == Contents!ContentsSpec

\* Once the deleter has removed a file's rows no mount holds an object of it,
\* however its migrations, their aborts and their retained originals had
\* spread copies before.
NoOrphans == \A f \in Files : file[f].row = "gone" => \A mt \in Mounts : Empty(mt, f)

\* A migration whose abort has finished keeps no file reserved, so that the
\* next migration of the file can start, however often it was retried and
\* canceled again; files being deleted stay reserved until the deleter is done.
Holds(m) == \E f \in Files : item[m][f].reserved /\ item[m][f].status # "deleted"
Aborted(m) == /\ mig[m].cleanup[1] = "abort"
              /\ job[m][mig[m].cleanup].st = "succeeded"
OverReleases == \A m \in Migs : Aborted(m) => ~ Holds(m)
=============================================================================
