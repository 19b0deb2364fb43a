---------------------------- MODULE MCApplication ----------------------------
(* The operations of the application on its rows and objects: encodings,     *)
(* remote and prepared downloads, the library, the administration of mounts  *)
(* and pools, recurring schedules, and the lifecycle locks.  A behaviour is  *)
(* one of one of them.                                                       *)
(* Locks: three goroutines run every operation but the start of a migration  *)
(* on a file, a mount and a pool, keys in the order of their strings.        *)
EXTENDS Encoding, RemoteDownloads, PreparedDownloads, Library, StorageAdmin,
        Schedules, StorageLifecycle, StorageLockUsers

CONSTANTS m1, m2, x, y

VARIABLE part

file == 1
pool == 2
mount == 3
LockKeys == {file, pool, mount}
ByName == [k \in LockKeys |-> k]

FileFirst ==
    {PublishMedia(file, mount), CopyItem(file, {mount}), CutoverItem(file, {mount}),
     CleanupItem(file, mount), DeleteFile(file, {mount}), EncoderCleanup(file, mount),
     KeepOriginal(file), ChangePool(pool), ChangeMount(mount), UseMount(mount)}

(* They all take their locks in the order of the keys. *)
ASSUME FileFirstAssumption ==
    \A s \in FileFirst : \A i, j \in 1..Len(s) : i < j => ByName[s[i].key] < ByName[s[j].key]

applicationVars == <<part, encodingVars, remoteVars, preparedVars, libraryVars, adminVars,
                     scheduleVars, vars>>

ApplicationInit ==
    /\ part \in {"encoding", "remote", "prepared", "library", "admin", "schedules",
                "locks"}
    /\ EncodingInit /\ RemoteInit /\ PreparedInit /\ LibraryInit /\ AdminInit
    /\ SchedulesInit /\ Init
    /\ part = "encoding" \/ enabled
    /\ part = "schedules" \/ clock = 0
    /\ part = "admin" \/ \A m \in AdminMounts : mountRow[m] = NoMountRow

ApplicationNext ==
    /\ UNCHANGED part
    /\ \/ /\ part = "encoding" /\ EncodingNext
          /\ UNCHANGED <<remoteVars, preparedVars, libraryVars, adminVars, scheduleVars, vars>>
       \/ /\ part = "remote" /\ RemoteNext
          /\ UNCHANGED <<encodingVars, preparedVars, libraryVars, adminVars, scheduleVars, vars>>
       \/ /\ part = "prepared" /\ PreparedNext
          /\ UNCHANGED <<encodingVars, remoteVars, libraryVars, adminVars, scheduleVars, vars>>
       \/ /\ part = "library" /\ LibraryNext
          /\ UNCHANGED <<encodingVars, remoteVars, preparedVars, adminVars, scheduleVars, vars>>
       \/ /\ part = "admin" /\ AdminNext
          /\ UNCHANGED <<encodingVars, remoteVars, preparedVars, libraryVars, scheduleVars, vars>>
       \/ /\ part = "schedules" /\ SchedulesNext
          /\ UNCHANGED <<encodingVars, remoteVars, preparedVars, libraryVars, adminVars, vars>>
       \/ /\ part = "locks" /\ Next
          /\ UNCHANGED <<encodingVars, remoteVars, preparedVars, libraryVars, adminVars,
                         scheduleVars>>

ApplicationSpec == ApplicationInit /\ [][ApplicationNext]_applicationVars
=============================================================================
