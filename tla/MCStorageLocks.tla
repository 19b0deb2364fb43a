---------------------------- MODULE MCStorageLocks ----------------------------
(* One file on one mount, and a pool: keys in the order of their strings.    *)
EXTENDS StorageLifecycle, StorageLockUsers

file == 1
pool == 2
mount == 3
LockKeys == {file, pool, mount}
ByName == [k \in LockKeys |-> k]

(* The start of a migration, and two of the other operations. *)
WithMigrationStart ==
    {EncoderCleanup(file, mount), ChangeMount(mount), StartStorageMigration({pool}, {mount}, {file})}
=============================================================================
