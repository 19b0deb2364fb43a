--------------------------- MODULE StorageLockUsers ---------------------------
(***************************************************************************)
(* Which lifecycle locks the operations of the application take, and in    *)
(* which order: one operator per kind of operation, returning the plan     *)
(* StorageLifecycle runs.  Keys are numbers in the order of the strings    *)
(* they stand for.                                                         *)
(***************************************************************************)
EXTENDS Naturals, Sequences, SequencesExt

Read(k) == <<[mode |-> "read", key |-> k]>>
Write(k) == <<[mode |-> "write", key |-> k]>>

(* ReadLocks takes the locks of a set of keys in the order of the keys. *)
ReadLocks(keys) ==
    LET sorted == SetToSortSeq(keys, LAMBDA x, y : x < y)
    IN [i \in 1..Len(sorted) |-> [mode |-> "read", key |-> sorted[i]]]

(* Thumbnails and encoder outputs of a file: thumbnailHandler,              *)
(* publishEncodingOutput, the link thumbnails.                              *)
PublishMedia(file, mount) == Read(file) \o Read(mount)

(* migrateStorageItem, while it copies. *)
CopyItem(file, mounts) == Read(file) \o ReadLocks(mounts)

(* migrateStorageItem, while it checks again and switches over. *)
CutoverItem(file, mounts) == Write(file) \o ReadLocks(mounts)

(* The cleanup of a migrated item's source, or of a canceled item's copy. *)
CleanupItem(file, mount) == Write(file) \o Read(mount)

(* deleteStoredFileCopies. *)
DeleteFile(file, mounts) == Write(file) \o ReadLocks(mounts)

(* Removing the source of a fully encoded file. *)
EncoderCleanup(file, mount) == Write(file) \o Read(mount)

(* KeepStorageMigrationOriginals. *)
KeepOriginal(file) == Write(file)

(* UpdateStorageMount, UnmountStorageMount, DeleteStorageMount,             *)
(* RemountStorageMount. *)
ChangeMount(mount) == Write(mount)

(* Tests of a mount, publishUploadSource and cloned uploads. *)
UseMount(mount) == Read(mount)

(* Changes and deletion of a pool. *)
ChangePool(pool) == Write(pool)

(* StartStorageMigration, while it validates its plan and stores it. *)
StartStorageMigration(pools, mounts, files) == ReadLocks(pools) \o ReadLocks(mounts) \o ReadLocks(files)

=============================================================================
