----------------------------- MODULE StorageAdmin -----------------------------
(***************************************************************************)
(* The administration of storage mounts and pools, and what must stay true *)
(* of the files while mounts come and go: uploads that publish to a mount  *)
(* and record their file, the reconnect scans, migrations that hold mounts *)
(* and restarts of the program.  The built-in local mount never changes    *)
(* and is left out; its pool takes over as the default one.                *)
(*                                                                         *)
(* A mount's row gives the place (bucket and prefix, host and directory)   *)
(* its configuration names; runtimeStore is the registry of open stores,   *)
(* by the place each one opens.  objects[f] are the places that hold the   *)
(* objects of file f.                                                      *)
(*                                                                         *)
(* An operation that holds a mount's WriteLock from its first check to its *)
(* last write is one step when nothing else can see it half done, and two  *)
(* steps where it changes the registry and the database one after the      *)
(* other.                                                                  *)
(***************************************************************************)
EXTENDS Naturals, FiniteSets, FiniteSetsExt

CONSTANTS AdminMounts, AdminFiles, AdminPools, Places, Admins,
          ReconnectBatch,    \* storageReconnectFileBatchSize
          MaxAdminOps        \* requests and restarts

ASSUME StorageAdminAssumption ==
    /\ AdminFiles \subseteq Nat /\ IsFiniteSet(AdminFiles)
    /\ ReconnectBatch \in Nat \ {0} /\ MaxAdminOps \in Nat
    /\ "none" \notin Places \cup AdminMounts /\ "local" \notin AdminPools

VARIABLES
    mountRow,      \* storage_mounts
    runtimeStore,  \* the stores registered under the mounts' UUIDs
    storedFile,    \* files: storage_id and storage_state
    objects,       \* where the objects of a file are
    poolRow,       \* storage_pools and storage_pool_mounts
    admins,        \* the administrators' requests under way
    uploading,     \* the upload of a file: candidates, then the mount it holds
    moving,        \* the migration item of a file
    adminOps,
    torn,          \* mounts detached while CreateStorageMount had not registered them
    outdated       \* a pool was saved from a row that changed since it was loaded

adminVars == <<mountRow, runtimeStore, storedFile, objects, poolRow, admins, uploading, moving,
               adminOps, torn, outdated>>

Pools == AdminPools \cup {"local"}
NoMountRow == [there |-> "new", mounted |-> FALSE, error |-> FALSE, place |-> "none"]
NoAdmin == [pc |-> "idle", mount |-> "none", pool |-> "none", was |-> FALSE, own |-> FALSE,
            last |-> 0, batch |-> {}, place |-> "none"]
NoUploading == [pc |-> "idle", from |-> {}, mount |-> "none", place |-> "none"]
NotMoving == [pc |-> "no", src |-> "none", to |-> "none", pools |-> {}]

\* Mounts and pools that earlier requests have made, all of them in use.
AdminInit ==
    /\ \E where \in [AdminMounts -> Places \cup {"none"}], members \in [AdminPools -> SUBSET AdminMounts] :
         /\ \A p \in AdminPools : \A m \in members[p] : where[m] # "none"
         /\ mountRow = [m \in AdminMounts |-> IF where[m] = "none" THEN NoMountRow
                           ELSE [there |-> "yes", mounted |-> TRUE, error |-> FALSE,
                                 place |-> where[m]]]
         /\ runtimeStore = where
         /\ poolRow = [p \in Pools |-> IF p = "local" THEN [there |-> TRUE, default |-> TRUE,
                                                            members |-> {}]
                          ELSE [there |-> members[p] # {}, default |-> FALSE,
                                members |-> members[p]]]
    /\ storedFile = [f \in AdminFiles |-> [at |-> "none", state |-> "none"]]
    /\ objects = [f \in AdminFiles |-> {}]
    /\ admins = [a \in Admins |-> NoAdmin]
    /\ uploading = [f \in AdminFiles |-> NoUploading]
    /\ moving = [f \in AdminFiles |-> NotMoving]
    /\ adminOps = 0 /\ torn = {} /\ outdated = FALSE

AdminOp == adminOps < MaxAdminOps /\ adminOps' = adminOps + 1
Exists(m) == mountRow[m].there = "yes"
Registered(m) == runtimeStore[m] # "none"
UsableMount(m) == Exists(m) /\ mountRow[m].mounted /\ ~ mountRow[m].error /\ Registered(m)
OnMount(m) == {f \in AdminFiles : storedFile[f].at = m}
Unavailable(fs) == [f \in AdminFiles |-> IF f \in fs THEN [storedFile[f] EXCEPT !.state = "unavailable"]
                                                     ELSE storedFile[f]]

\* Who holds the lifecycle lock of a mount: uploads that have published and
\* scans of a batch read it, a detach or remount that is half done writes it.
Readers(m) == \/ \E f \in AdminFiles : uploading[f].pc = "published" /\ uploading[f].mount = m
              \/ \E a \in Admins : admins[a].pc = "scanning" /\ admins[a].mount = m
Writer(m) == \E a \in Admins : admins[a].pc \in {"unregister", "mount"} /\ admins[a].mount = m

\* Mutant: the writer does not wait for readers.
WriteLockOverReaders(m) == ~ Writer(m)

WriteLock(m) == ~ Readers(m) /\ ~ Writer(m)
ReadLock(m) == ~ Writer(m)

\* ensureStorageMountNotMigrating, ensureStoragePoolNotMigrating.
MountMigrating(m) == \E f \in AdminFiles : moving[f].pc # "no" /\ m \in {moving[f].to, moving[f].src}
PoolMigrating(p) == \E f \in AdminFiles : moving[f].pc # "no" /\ p \in moving[f].pools

Idle(a) == admins[a].pc = "idle"
Sets(a, r) == admins' = [admins EXCEPT ![a] = r]
Scan(m, own) == [NoAdmin EXCEPT !.pc = "begin", !.mount = m, !.own = own]

-----------------------------------------------------------------------------
\* CreateStorageMount: the row, then the store, then a scan of every
\* unavailable file.  No lock is held.
CreateStorageMount(a, m, where) ==
    /\ Idle(a) /\ mountRow[m].there = "new" /\ AdminOp
    /\ mountRow' = [mountRow EXCEPT ![m] = [there |-> "yes", mounted |-> TRUE, error |-> FALSE,
                                            place |-> where]]
    /\ Sets(a, [NoAdmin EXCEPT !.pc = "register", !.mount = m, !.place = where])
    /\ UNCHANGED <<runtimeStore, storedFile, objects, poolRow, uploading, moving, torn, outdated>>

CreateRegisters(a) ==
    /\ admins[a].pc = "register"
    /\ runtimeStore' = [runtimeStore EXCEPT ![admins[a].mount] = admins[a].place]
    /\ Sets(a, Scan(admins[a].mount, FALSE))
    /\ UNCHANGED <<mountRow, storedFile, objects, poolRow, uploading, moving, adminOps, torn,
                   outdated>>

\* UpdateStorageMount: the place may only change while the mount is detached.
UpdateStorageMount(a, m, where) ==
    /\ Idle(a) /\ Exists(m) /\ AdminOp
    /\ ~ MountMigrating(m) /\ WriteLock(m)
    /\ mountRow[m].mounted => where = mountRow[m].place
    /\ mountRow' = [mountRow EXCEPT ![m].place = where, ![m].error = FALSE]
    /\ runtimeStore' = IF mountRow[m].mounted THEN [runtimeStore EXCEPT ![m] = where]
                       ELSE runtimeStore
    /\ UNCHANGED <<storedFile, objects, poolRow, admins, uploading, moving, torn, outdated>>

\* UnmountStorageMount: the row and the files in one transaction, then the
\* registry, under the mount's WriteLock.
UnmountStorageMount(a, m) ==
    /\ Idle(a) /\ Exists(m) /\ AdminOp
    /\ ~ MountMigrating(m) /\ WriteLock(m) /\ mountRow[m].mounted
    /\ mountRow' = [mountRow EXCEPT ![m].mounted = FALSE, ![m].error = TRUE]
    /\ storedFile' = Unavailable(OnMount(m))
    /\ Sets(a, [NoAdmin EXCEPT !.pc = "unregister", !.mount = m])
    /\ torn' = torn \cup {n \in {m} : \E b \in Admins : admins[b].pc = "register" /\ admins[b].mount = n}
    /\ UNCHANGED <<runtimeStore, objects, poolRow, uploading, moving, outdated>>

UnmountUnregisters(a) ==
    /\ admins[a].pc = "unregister"
    /\ runtimeStore' = [runtimeStore EXCEPT ![admins[a].mount] = "none"]
    /\ Sets(a, NoAdmin)
    /\ UNCHANGED <<mountRow, storedFile, objects, poolRow, uploading, moving, adminOps, torn,
                   outdated>>

\* DeleteStorageMount: the files keep the mount's UUID.
DeleteStorageMount(a, m) ==
    /\ Idle(a) /\ Exists(m) /\ AdminOp
    /\ ~ MountMigrating(m) /\ WriteLock(m) /\ ~ mountRow[m].mounted
    /\ storedFile' = Unavailable(OnMount(m))
    /\ mountRow' = [mountRow EXCEPT ![m] = [NoMountRow EXCEPT !.there = "gone"]]
    /\ poolRow' = [p \in Pools |-> [poolRow[p] EXCEPT !.members = @ \ {m}]]
    /\ UNCHANGED <<runtimeStore, objects, admins, uploading, moving, torn, outdated>>

\* RemountStorageMount: the registry, then the row, which may fail, under the
\* WriteLock; then a scan of the mount's own files.
RemountStorageMount(a, m) ==
    /\ Idle(a) /\ Exists(m) /\ AdminOp
    /\ WriteLock(m) /\ ~ mountRow[m].mounted
    /\ runtimeStore' = [runtimeStore EXCEPT ![m] = mountRow[m].place]
    /\ Sets(a, [NoAdmin EXCEPT !.pc = "mount", !.mount = m])
    /\ UNCHANGED <<mountRow, storedFile, objects, poolRow, uploading, moving, torn, outdated>>

RemountRecords(a) ==
    /\ admins[a].pc = "mount"
    /\ \/ /\ mountRow' = [mountRow EXCEPT ![admins[a].mount].mounted = TRUE,
                                          ![admins[a].mount].error = FALSE]
          /\ Sets(a, Scan(admins[a].mount, TRUE)) /\ UNCHANGED runtimeStore
       \/ /\ runtimeStore' = [runtimeStore EXCEPT ![admins[a].mount] = "none"]
          /\ Sets(a, NoAdmin) /\ UNCHANGED mountRow
    /\ UNCHANGED <<storedFile, objects, poolRow, uploading, moving, adminOps, torn, outdated>>

\* CheckStorageMount records what the connection check of a store says.
CheckStorageMount(m, failed) ==
    /\ Exists(m) /\ ReadLock(m) /\ Registered(m) /\ AdminOp
    /\ mountRow' = [mountRow EXCEPT ![m].error = failed]
    /\ UNCHANGED <<runtimeStore, storedFile, objects, poolRow, admins, uploading, moving, torn,
                   outdated>>

-----------------------------------------------------------------------------
\* ReconnectStorageMountFiles: the mount is looked at under the ReadLock ...
ReconnectStorageMount(a, m) ==
    /\ Idle(a) /\ Exists(m) /\ AdminOp
    /\ Sets(a, Scan(m, FALSE))
    /\ UNCHANGED <<mountRow, runtimeStore, storedFile, objects, poolRow, uploading, moving,
                   torn, outdated>>

Attached(m) == Exists(m) /\ mountRow[m].mounted /\ Registered(m)

ReconnectBegins(a) ==
    /\ admins[a].pc = "begin" /\ ReadLock(admins[a].mount)
    /\ Sets(a, IF Attached(admins[a].mount) THEN [admins[a] EXCEPT !.pc = "load"] ELSE NoAdmin)
    /\ UNCHANGED <<mountRow, runtimeStore, storedFile, objects, poolRow, uploading, moving,
                   adminOps, torn, outdated>>

\* ... the unavailable files are loaded in batches without it ...
NextBatch(a) ==
    LET found == {f \in AdminFiles : /\ storedFile[f].state = "unavailable" /\ f > admins[a].last
                                     /\ admins[a].own => storedFile[f].at = admins[a].mount}
    IN {f \in found : Cardinality({g \in found : g < f}) < ReconnectBatch}

LoadBatch(a) ==
    /\ admins[a].pc = "load"
    /\ Sets(a, IF NextBatch(a) = {} THEN NoAdmin
               ELSE [admins[a] EXCEPT !.pc = "loaded", !.batch = NextBatch(a),
                                      !.last = Max(NextBatch(a))])
    /\ UNCHANGED <<mountRow, runtimeStore, storedFile, objects, poolRow, uploading, moving,
                   adminOps, torn, outdated>>

\* ... and each batch is scanned under it, if the mount is still there.
ScanBegins(a) ==
    /\ admins[a].pc = "loaded" /\ ReadLock(admins[a].mount)
    /\ Sets(a, IF Attached(admins[a].mount)
               THEN [admins[a] EXCEPT !.pc = "scanning", !.place = runtimeStore[admins[a].mount]]
               ELSE NoAdmin)
    /\ UNCHANGED <<mountRow, runtimeStore, storedFile, objects, poolRow, uploading, moving,
                   adminOps, torn, outdated>>

\* The files found are linked to the mount, unless they are available by now.
\* A scan that fails or is canceled has linked some of them.
StorageFileMatches(a) == {f \in admins[a].batch : admins[a].place \in objects[f]}
Linked(fs, m) == [f \in AdminFiles |-> IF f \in fs /\ storedFile[f].state = "unavailable"
                                       THEN [at |-> m, state |-> "available"] ELSE storedFile[f]]

ScanEnds(a) ==
    /\ admins[a].pc = "scanning"
    /\ \E found \in SUBSET StorageFileMatches(a) :
         /\ storedFile' = Linked(found, admins[a].mount)
         /\ \/ found = StorageFileMatches(a) /\ Sets(a, [admins[a] EXCEPT !.pc = "load",
                                                         !.batch = {}, !.place = "none"])
            \/ Sets(a, NoAdmin)
    /\ UNCHANGED <<mountRow, runtimeStore, objects, poolRow, uploading, moving, adminOps, torn,
                   outdated>>

-----------------------------------------------------------------------------
\* uploadStoreCandidates: the usable primary mounts of the user's pool, or of
\* the default one.
UploadStoreCandidates(f, p) ==
    /\ uploading[f].pc = "idle" /\ storedFile[f].state = "none" /\ poolRow[p].there
    /\ {m \in poolRow[p].members : UsableMount(m)} # {}
    /\ uploading' = [uploading EXCEPT ![f] = [NoUploading EXCEPT !.pc = "picked",
                                                              !.from = {m \in poolRow[p].members : UsableMount(m)}]]
    /\ UNCHANGED <<mountRow, runtimeStore, storedFile, objects, poolRow, admins, moving,
                   adminOps, torn, outdated>>

\* publishUploadSource: the first candidate that takes the source; the lock of
\* that mount stays with the caller.
PublishUploadSource(f, m) ==
    /\ uploading[f].pc = "picked" /\ m \in uploading[f].from /\ ReadLock(m)
    /\ \/ /\ Registered(m)
          /\ objects' = [objects EXCEPT ![f] = @ \cup {runtimeStore[m]}]
          /\ uploading' = [uploading EXCEPT ![f] = [pc |-> "published", from |-> {}, mount |-> m,
                                                    place |-> runtimeStore[m]]]
       \/ /\ uploading' = [uploading EXCEPT ![f] = IF @.from = {m} THEN NoUploading
                                                   ELSE [uploading[f] EXCEPT !.from = @ \ {m}]]
          /\ UNCHANGED objects
    /\ UNCHANGED <<mountRow, runtimeStore, storedFile, poolRow, admins, moving, adminOps, torn,
                   outdated>>

\* CreateFile commits the record, or deletes the source, and releases.
CommitUpload(f) ==
    /\ uploading[f].pc = "published"
    /\ \/ /\ storedFile' = [storedFile EXCEPT ![f] = [at |-> uploading[f].mount, state |-> "available"]]
          /\ UNCHANGED objects
       \/ objects' = [objects EXCEPT ![f] = @ \ {uploading[f].place}] /\ UNCHANGED storedFile
    /\ uploading' = [uploading EXCEPT ![f] = NoUploading]
    /\ UNCHANGED <<mountRow, runtimeStore, poolRow, admins, moving, adminOps, torn, outdated>>

-----------------------------------------------------------------------------
\* A migration reserves the mounts of its items, under their ReadLocks.  The
\* switch to the destination needs both stores and the file as it was.
StartMigration(f, p, q, d) ==
    LET s == storedFile[f].at
    IN /\ p # q /\ poolRow[p].there /\ poolRow[q].there /\ AdminOp
       /\ storedFile[f].state = "available" /\ moving[f].pc = "no"
       /\ s \in poolRow[p].members /\ d \in poolRow[q].members
       /\ poolRow[p].members \cap poolRow[q].members = {}
       /\ \A m \in poolRow[p].members \cup poolRow[q].members : UsableMount(m) /\ ReadLock(m)
       /\ \A g \in AdminFiles : storedFile[g].at \in poolRow[p].members => storedFile[g].state # "unavailable"
       /\ moving' = [moving EXCEPT ![f] = [pc |-> "copy", src |-> s, to |-> d, pools |-> {p, q}]]
       /\ UNCHANGED <<mountRow, runtimeStore, storedFile, objects, poolRow, admins, uploading,
                      torn, outdated>>

MigrationCutover(f) ==
    LET s == moving[f].src d == moving[f].to
    IN /\ moving[f].pc = "copy" /\ ReadLock(s) /\ ReadLock(d) /\ Registered(s) /\ Registered(d)
       /\ storedFile[f] = [at |-> s, state |-> "available"]
       /\ objects' = [objects EXCEPT ![f] = @ \cup {runtimeStore[d]}]
       /\ storedFile' = [storedFile EXCEPT ![f].at = d]
       /\ moving' = [moving EXCEPT ![f].pc = "moved"]
       /\ UNCHANGED <<mountRow, runtimeStore, poolRow, admins, uploading, adminOps, torn, outdated>>

\* The item is released: originals kept, or the migration canceled.  The
\* cleanup of the originals, which no row names any more, is in
\* StorageMigration.
MigrationEnds(f) ==
    /\ moving[f].pc # "no"
    /\ moving' = [moving EXCEPT ![f] = NotMoving]
    /\ UNCHANGED <<mountRow, runtimeStore, storedFile, objects, poolRow, admins, uploading,
                   adminOps, torn, outdated>>

-----------------------------------------------------------------------------

\* Mutant: the default flag that is taken away goes nowhere.
SavedPoolsDropDefault(p, members, default, was) ==
    [q \in Pools |-> IF q = p THEN [there |-> TRUE, default |-> default, members |-> members]
                     ELSE [poolRow[q] EXCEPT !.default = ~ default /\ @]]

\* The pools.  saveStoragePool makes one pool the default one, or gives the
\* flag back to the local pool if the row it was given had it.
SavedPools(p, members, default, was) ==
    [q \in Pools |-> IF q = p THEN [there |-> TRUE, default |-> default, members |-> members]
                     ELSE [poolRow[q] EXCEPT !.default = IF default THEN FALSE
                                                         ELSE @ \/ (was /\ q = "local")]]
Known(members) == members # {} /\ \A m \in members : Exists(m)

CreateStoragePool(p, members, default) ==
    /\ p \in AdminPools /\ ~ poolRow[p].there /\ Known(members) /\ AdminOp
    /\ \A a \in Admins : admins[a].pool # p
    /\ poolRow' = SavedPools(p, members, default, default)
    /\ UNCHANGED <<mountRow, runtimeStore, storedFile, objects, admins, uploading, moving,
                   torn, outdated>>

\* UpdateStoragePool loads the row before it waits for the pool's lock.
UpdateStoragePool(a, p) ==
    /\ Idle(a) /\ p \in AdminPools /\ poolRow[p].there /\ AdminOp
    /\ Sets(a, [NoAdmin EXCEPT !.pc = "pool", !.pool = p, !.was = poolRow[p].default])
    /\ UNCHANGED <<mountRow, runtimeStore, storedFile, objects, poolRow, uploading, moving,
                   torn, outdated>>

SaveStoragePool(a, members, default) ==
    LET p == admins[a].pool
    IN /\ admins[a].pc = "pool" /\ ~ PoolMigrating(p) /\ Known(members)
       /\ poolRow' = SavedPools(p, members, default, admins[a].was)
       /\ outdated' = (outdated \/ poolRow[p].default # admins[a].was)
       /\ Sets(a, NoAdmin)
       /\ UNCHANGED <<mountRow, runtimeStore, storedFile, objects, uploading, moving, adminOps,
                      torn>>

SaveRefused(a) ==
    /\ admins[a].pc = "pool"
    /\ Sets(a, NoAdmin)
    /\ UNCHANGED <<mountRow, runtimeStore, storedFile, objects, poolRow, uploading, moving,
                   adminOps, torn, outdated>>

SetDefaultStoragePool(p) ==
    /\ poolRow[p].there /\ AdminOp
    /\ poolRow' = [q \in Pools |-> [poolRow[q] EXCEPT !.default = q = p]]
    /\ UNCHANGED <<mountRow, runtimeStore, storedFile, objects, admins, uploading, moving,
                   torn, outdated>>

DeleteStoragePool(p) ==
    /\ p \in AdminPools /\ poolRow[p].there /\ ~ PoolMigrating(p) /\ AdminOp
    /\ poolRow' = [q \in Pools |->
                     IF q = p THEN [there |-> FALSE, default |-> FALSE, members |-> {}]
                     ELSE [poolRow[q] EXCEPT !.default = @ \/ (q = "local" /\ poolRow[p].default)]]
    /\ UNCHANGED <<mountRow, runtimeStore, storedFile, objects, admins, uploading, moving,
                   torn, outdated>>

-----------------------------------------------------------------------------
\* A restart: the stores of the mounted mounts are opened and their own files
\* scanned for; a mount that cannot be opened makes its files unavailable.
\* The local pool becomes the default one if there is none.
Restart ==
    /\ AdminOp
    /\ \E opened \in SUBSET {m \in AdminMounts : mountRow[m].mounted} :
       \E scanFails \in SUBSET opened :
       LET back == {f \in AdminFiles : /\ storedFile[f].at \in opened \ scanFails
                                       /\ storedFile[f].state = "unavailable"
                                       /\ mountRow[storedFile[f].at].place \in objects[f]}
       IN /\ runtimeStore' = [m \in AdminMounts |-> IF m \in opened THEN mountRow[m].place
                                                    ELSE "none"]
          /\ mountRow' = [m \in AdminMounts |-> IF mountRow[m].mounted
                            THEN [mountRow[m] EXCEPT !.error = m \notin opened \ scanFails]
                            ELSE mountRow[m]]
          /\ storedFile' = [f \in AdminFiles |->
                              IF f \in back THEN [storedFile[f] EXCEPT !.state = "available"]
                              ELSE IF \E m \in AdminMounts : mountRow[m].mounted /\ m \notin opened /\ storedFile[f].at = m
                              THEN [storedFile[f] EXCEPT !.state = "unavailable"]
                              ELSE storedFile[f]]
    /\ poolRow' = IF \E p \in Pools : poolRow[p].default THEN poolRow
                  ELSE [poolRow EXCEPT !["local"].default = TRUE]
    /\ admins' = [a \in Admins |-> NoAdmin] /\ uploading' = [f \in AdminFiles |-> NoUploading]
    /\ UNCHANGED <<objects, moving, torn, outdated>>

AdminNext ==
    \/ \E a \in Admins :
         \/ \E m \in AdminMounts :
              \/ \E where \in Places : CreateStorageMount(a, m, where) \/ UpdateStorageMount(a, m, where)
              \/ UnmountStorageMount(a, m) \/ DeleteStorageMount(a, m) \/ RemountStorageMount(a, m)
              \/ ReconnectStorageMount(a, m)
         \/ CreateRegisters(a) \/ UnmountUnregisters(a) \/ RemountRecords(a)
         \/ ReconnectBegins(a) \/ LoadBatch(a) \/ ScanBegins(a) \/ ScanEnds(a)
         \/ \E p \in AdminPools : UpdateStoragePool(a, p)
         \/ \E members \in SUBSET AdminMounts, d \in BOOLEAN : SaveStoragePool(a, members, d)
         \/ SaveRefused(a)
    \/ \E m \in AdminMounts, failed \in BOOLEAN : CheckStorageMount(m, failed)
    \/ \E f \in AdminFiles :
         \/ \E p \in Pools : UploadStoreCandidates(f, p)
         \/ \E m \in AdminMounts : PublishUploadSource(f, m)
         \/ CommitUpload(f) \/ MigrationCutover(f) \/ MigrationEnds(f)
         \/ \E p, q \in Pools, d \in AdminMounts : StartMigration(f, p, q, d)
    \/ \E p \in AdminPools, members \in SUBSET AdminMounts, d \in BOOLEAN : CreateStoragePool(p, members, d)
    \/ \E p \in Pools : SetDefaultStoragePool(p) \/ DeleteStoragePool(p)
    \/ Restart

AdminSpec == AdminInit /\ [][AdminNext]_adminVars

-----------------------------------------------------------------------------
(* The types of the variables. *)
AdminTypeOK ==
    /\ \A m \in AdminMounts : mountRow[m].there \in {"new", "yes", "gone"} /\ mountRow[m].place \in Places \cup {"none"}
    /\ runtimeStore \in [AdminMounts -> Places \cup {"none"}]
    /\ storedFile \in [AdminFiles -> [at : AdminMounts \cup {"none"},
                                      state : {"none", "available", "unavailable"}]]
    /\ objects \in [AdminFiles -> SUBSET Places]
    /\ \A p \in Pools : poolRow[p].members \subseteq AdminMounts /\ poolRow[p].default \in BOOLEAN
    /\ \A f \in AdminFiles : uploading[f].from \subseteq AdminMounts
    /\ adminOps \in 0 .. MaxAdminOps /\ torn \subseteq AdminMounts /\ outdated \in BOOLEAN

(* A file that the database calls available can be read: its mount exists,  *)
(* is mounted and has an open store, and that store opens a place that      *)
(* holds the file's objects.  A detach (with an upload that has published   *)
(* but not yet recorded its file, a scan or a migration under way), a new   *)
(* location, a remount or a restart never leaves the record behind.  Mounts *)
(* detached while CreateStorageMount had yet to register them are left out. *)
AvailableIsReadable ==
    \A f \in AdminFiles : (storedFile[f].state = "available" /\ storedFile[f].at \notin torn) =>
        /\ Exists(storedFile[f].at) /\ mountRow[storedFile[f].at].mounted
        /\ runtimeStore[storedFile[f].at] \in objects[f]

(* Uploads without a pool of their own always find exactly one default      *)
(* pool, whatever pools are made, edited, chosen and deleted, as long as no *)
(* edit is saved over a row whose default flag has changed since it was     *)
(* loaded.                                                                  *)
OneDefaultPool == ~ outdated => Cardinality({p \in Pools : poolRow[p].there /\ poolRow[p].default}) = 1

=============================================================================
