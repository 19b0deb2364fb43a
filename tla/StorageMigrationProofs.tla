------------------------ MODULE StorageMigrationProofs ------------------------
(***************************************************************************)
(* Theorems about StorageMigration, for every set of files, mounts,        *)
(* objects and migrations and every bound on what the environment does: a  *)
(* deleted file leaves no object behind, and readers of a file see its     *)
(* contents change only as FileContents says.                              *)
(***************************************************************************)
EXTENDS StorageMigration, TLAPS

-----------------------------------------------------------------------------
(* The inductive invariant, file by file.  Nothing in it depends on the    *)
(* statuses of the jobs: whatever the runtime starts, stops and loses, the *)
(* locks of a file and its items decide what is written.                   *)

Versions == [Objs -> Nat]
Pcs == {"off", "todo", "copying", "copied", "final", "done", "stopped", "error", "conflict",
        "link", "deleting", "wait"}
WorkRow == [pc : Pcs, left : SUBSET Objs]
ItemRow == [status : ItemStatuses, owned : BOOLEAN, cutover : BOOLEAN, cleaned : BOOLEAN,
            reserved : BOOLEAN]
MigRow == [status : MigStatuses, src : Mounts, dst : Mounts, cleanup : JobIds \cup {NoJob},
           keep : BOOLEAN, canceled : BOOLEAN, gen : Nat]

MigShape ==
    /\ file \in [Files -> [row : {"live", "deleted", "gone"}, at : Mounts]]
    /\ store \in [Mounts -> [Files -> Versions]]
    /\ mig \in [Migs -> MigRow]
    /\ item \in [Migs -> [Files -> ItemRow]]
    /\ work \in [Migs -> [JobIds -> [Files -> WorkRow]]]
    /\ keeping \in [Migs -> SUBSET Files]
    /\ deleter \in [Files -> SUBSET Mounts]
    /\ encoding \subseteq Files

Pc(m, j, f) == work[m][j][f].pc
Touching == {"copying", "final", "deleting"}
Planned(m, f) == item[m][f].status # "none"

(* A migration that was not started has no items. *)
RowOK(m) ==
    /\ mig[m].status = "none" => \A f \in Files : ~Planned(m, f)
    /\ \A f \in keeping[m] : Planned(m, f)

(* An item that was canceled has nothing at the destination, and one that  *)
(* is closed belongs to a deleted file.                                    *)
ItemOK(m, f) ==
    /\ item[m][f].status = "canceled" => ~item[m][f].owned
    /\ item[m][f].status = "deleted" => ~Live(f)
    /\ Planned(m, f) => mig[m].src # mig[m].dst

(* What a handler may rely on while it holds the lock of the file. *)
Copied(m, f, left) ==
    \A o \in Objs \ left : store[mig[m].src][f][o] \in {0, store[mig[m].dst][f][o]}
WorkOK(m, j, f) ==
    /\ Pc(m, j, f) \notin {"off", "link"} => Planned(m, f)
    /\ Pc(m, j, f) \in {"copying", "final"} =>
           /\ j = Main /\ Live(f) /\ file[f].at = mig[m].src /\ item[m][f].owned
    /\ Pc(m, j, f) = "final" => Copied(m, f, work[m][j][f].left)
    /\ Pc(m, j, f) = "deleting" => j # Main
    /\ Pc(m, j, f) = "deleting" /\ j = Cleanup =>
           /\ Live(f) => file[f].at = mig[m].dst
           /\ Held(mig[m].src, f) \subseteq work[m][j][f].left
    /\ Pc(m, j, f) = "deleting" /\ j # Cleanup =>
           /\ Live(f) => file[f].at = mig[m].src
           /\ Held(mig[m].dst, f) \subseteq work[m][j][f].left

(* A writer of the file is alone. *)
LockOK(f) ==
    /\ deleter[f] # {} => \A m \in Migs, j \in JobIds : Pc(m, j, f) \notin Touching
    /\ \A m, n \in Migs, j, k \in JobIds :
           Pc(m, j, f) \in {"final", "deleting"} /\ Pc(n, k, f) \in Touching => m = n /\ j = k

(* The deleter empties the mounts it took down one by one. *)
DeleterOK(f) ==
    deleter[f] # {} => /\ file[f].row = "deleted"
                       /\ \A mt \in Mounts \ deleter[f] : Empty(mt, f)

(* Every mount that holds an object of the file is one the deleter will    *)
(* look at.                                                                *)
Covered(f) == \A mt \in Mounts : ~Empty(mt, f) => file[f].row # "gone" /\ mt \in Copies(f)

(* A file that came back to a mount which a migration had cleaned was      *)
(* brought there by another one, whose destination it is: the deleter will *)
(* look at the mount even when the file leaves it once more.               *)
Owned(f) == {mig[m].dst : m \in {n \in Migs : f \in Items(n) /\ item[n][f].owned}}
Returned(f) ==
    \A m \in Migs : Planned(m, f) /\ item[m][f].cleaned /\ Live(f) /\ file[f].at = mig[m].src
                        => file[f].at \in Owned(f)

Sound(f) ==
    /\ \A m \in Migs : ItemOK(m, f)
    /\ \A m \in Migs, j \in JobIds : WorkOK(m, j, f)
    /\ LockOK(f) /\ DeleterOK(f) /\ Covered(f) /\ Returned(f)

MigInv == MigShape /\ (\A m \in Migs : RowOK(m)) /\ (\A f \in Files : Sound(f))
-----------------------------------------------------------------------------
(* Steps that leave a file alone.                                          *)

QuietItem(m, g) ==
    /\ Planned(m, g) => /\ Planned(m, g)'
                        /\ mig'[m].src = mig[m].src /\ mig'[m].dst = mig[m].dst
                        /\ item'[m][g].owned = item[m][g].owned
                        /\ item'[m][g].cleaned = item[m][g].cleaned
    /\ ~Planned(m, g) /\ Planned(m, g)' => ~item'[m][g].cleaned
    /\ ItemOK(m, g)'

QuietWork(m, j, g) ==
    \/ work'[m][j][g] = work[m][j][g]
    \/ /\ Pc(m, j, g)' \notin Touching
       /\ Pc(m, j, g)' \notin {"off", "link"} => Planned(m, g)'

QuietAt(g) ==
    /\ file'[g] = file[g] /\ \A mt \in Mounts : store'[mt][g] = store[mt][g]
    /\ deleter'[g] \in {deleter[g], {}}
    /\ \A m \in Migs : QuietItem(m, g)
    /\ \A m \in Migs, j \in JobIds : QuietWork(m, j, g)

LEMMA SameMount ==
    ASSUME NEW g \in Files, NEW mt \in Mounts, store'[mt][g] = store[mt][g]
    PROVE  Held(mt, g)' = Held(mt, g) /\ (Empty(mt, g)' <=> Empty(mt, g))
BY DEF Held, Empty

LEMMA CopiesGrow ==
    ASSUME NEW g \in Files, file'[g] = file[g],
           \A m \in Migs : Planned(m, g) =>
               /\ Planned(m, g)'
               /\ mig'[m].src = mig[m].src /\ mig'[m].dst = mig[m].dst
               /\ item[m][g].owned => item'[m][g].owned
               /\ item'[m][g].cleaned => item[m][g].cleaned
    PROVE  Copies(g) \subseteq Copies(g)'
BY DEF Copies, Items, Planned

LEMMA OwnedGrows ==
    ASSUME NEW g \in Files,
           \A m \in Migs : Planned(m, g) =>
               /\ Planned(m, g)' /\ mig'[m].dst = mig[m].dst
               /\ item[m][g].owned => item'[m][g].owned
    PROVE  Owned(g) \subseteq Owned(g)'
BY DEF Owned, Items, Planned

LEMMA QuietWorks ==
    ASSUME MigShape, NEW g \in Files, Sound(g), QuietAt(g), NEW m \in Migs, NEW j \in JobIds
    PROVE  WorkOK(m, j, g)'
<1>0. /\ WorkOK(m, j, g) /\ QuietWork(m, j, g) /\ QuietItem(m, g)
      /\ file'[g] = file[g] /\ (Live(g)' <=> Live(g))
  BY DEF Sound, QuietAt, Live
<1>1. CASE work'[m][j][g] = work[m][j][g]
  <2>1. CASE Pc(m, j, g) \in {"off", "link"}
    BY <1>1, <2>1 DEF WorkOK, Pc
  <2>2. CASE Pc(m, j, g) \notin {"off", "link"}
    <3>1. /\ Planned(m, g) /\ Planned(m, g)'
          /\ mig'[m].src = mig[m].src /\ mig'[m].dst = mig[m].dst
          /\ item'[m][g].owned = item[m][g].owned
      BY <1>0, <2>2 DEF WorkOK, QuietItem
    <3>2. /\ mig[m].src \in Mounts /\ mig[m].dst \in Mounts
      BY DEF MigShape, MigRow
    <3>3. /\ store'[mig'[m].src][g] = store[mig[m].src][g]
          /\ store'[mig'[m].dst][g] = store[mig[m].dst][g]
      BY <3>1, <3>2 DEF QuietAt
    <3>4. /\ \A left : Copied(m, g, left)' <=> Copied(m, g, left)
          /\ Held(mig[m].src, g)' = Held(mig[m].src, g)
          /\ Held(mig[m].dst, g)' = Held(mig[m].dst, g)
      BY <3>3 DEF Copied, Held
    <3> QED
      BY <1>0, <1>1, <3>1, <3>4 DEF WorkOK, Pc
  <2> QED
    BY <2>1, <2>2
<1>2. CASE /\ Pc(m, j, g)' \notin Touching
           /\ Pc(m, j, g)' \notin {"off", "link"} => Planned(m, g)'
  BY <1>2 DEF WorkOK, Touching
<1> QED
  BY <1>0, <1>1, <1>2 DEF QuietWork

LEMMA QuietFile ==
    ASSUME MigShape, NEW g \in Files, Sound(g), QuietAt(g)
    PROVE  Sound(g)'
<1>1. \A m \in Migs : ItemOK(m, g)'
  BY DEF QuietAt, QuietItem
<1>2. \A m \in Migs, j \in JobIds : WorkOK(m, j, g)'
  BY QuietWorks
<1>3. LockOK(g)'
  <2>1. \A m \in Migs, j \in JobIds : Pc(m, j, g)' \in Touching => Pc(m, j, g)' = Pc(m, j, g)
    BY DEF QuietAt, QuietWork, Pc
  <2>2. deleter'[g] # {} => deleter[g] # {}
    BY DEF QuietAt
  <2> QED
    BY <2>1, <2>2 DEF Sound, LockOK, Touching
<1>4. DeleterOK(g)'
  <2>1. \A mt \in Mounts : Empty(mt, g) <=> Empty(mt, g)'
    BY SameMount DEF QuietAt
  <2> QED
    BY <2>1 DEF Sound, DeleterOK, QuietAt
<1>5. Covered(g)'
  <2>1. \A mt \in Mounts : Empty(mt, g) <=> Empty(mt, g)'
    BY SameMount DEF QuietAt
  <2>2. Copies(g) \subseteq Copies(g)'
    BY CopiesGrow DEF QuietAt, QuietItem
  <2> QED
    BY <2>1, <2>2 DEF Sound, Covered, QuietAt
<1>6. Returned(g)'
  <2>1. Owned(g) \subseteq Owned(g)'
    BY OwnedGrows DEF QuietAt, QuietItem
  <2> QED
    BY <2>1 DEF Sound, Returned, QuietAt, QuietItem, Live
<1> QED
  BY <1>1, <1>2, <1>3, <1>4, <1>5, <1>6 DEF Sound

QuietRow(m) ==
    /\ mig'[m].status = "none" =>
           mig[m].status = "none" /\ \A f \in Files : Planned(m, f)' => Planned(m, f)
    /\ \A f \in keeping'[m] : f \in keeping[m] \/ Planned(m, f)

(* What readers see changes as FileContents says, or not at all. *)
Preserved == Contents!ContentsNext \/ UNCHANGED Contents!contentsVars

SeenSame(g) ==
    /\ Live(g)' <=> Live(g)
    /\ Live(g) => store'[file'[g].at][g] = store[file[g].at][g]

LEMMA AllSeenSame ==
    ASSUME \A g \in Files : SeenSame(g)
    PROVE  Preserved
<1>1. {g \in Files : ~Live(g)}' = {g \in Files : ~Live(g)}
  BY DEF SeenSame
<1>2. SeenContents' = SeenContents
  BY DEF SeenSame, SeenContents
<1> QED
  BY <1>1, <1>2 DEF Preserved, Contents!contentsVars

LEMMA QuietSeen ==
    ASSUME MigShape, NEW g \in Files, QuietAt(g)
    PROVE  SeenSame(g)
<1>1. file[g].at \in Mounts
  BY DEF MigShape
<1> QED
  BY <1>1 DEF QuietAt, SeenSame, Live

LEMMA RowsKept ==
    ASSUME \A m \in Migs : RowOK(m) /\ QuietRow(m),
           \A m \in Migs, f \in Files : Planned(m, f) => Planned(m, f)',
           keeping \in [Migs -> SUBSET Files], keeping' \in [Migs -> SUBSET Files]
    PROVE  \A m \in Migs : RowOK(m)'
BY DEF RowOK, QuietRow

(* A step that works on one file. *)
LEMMA OneFileStep ==
    ASSUME MigInv, MigShape', \A m \in Migs : QuietRow(m), NEW f \in Files, Sound(f)',
           \A m \in Migs : Planned(m, f) => Planned(m, f)',
           \A g \in Files : g # f => QuietAt(g)
    PROVE  MigInv' /\ (SeenSame(f) => Preserved)
<1>1. \A g \in Files : g # f => Sound(g)' /\ SeenSame(g)
  BY QuietFile, QuietSeen DEF MigInv
<1>2. \A m \in Migs, g \in Files : Planned(m, g) => Planned(m, g)'
  BY DEF QuietAt, QuietItem
<1>3. \A m \in Migs : RowOK(m)'
  BY <1>2, RowsKept DEF MigInv, MigShape
<1> QED
  BY <1>1, <1>3, AllSeenSame DEF MigInv

(* A step that leaves every file alone. *)
LEMMA QuietStep ==
    ASSUME MigInv, MigShape', \A m \in Migs : QuietRow(m), \A g \in Files : QuietAt(g)
    PROVE  MigInv' /\ Preserved
<1>1. \A g \in Files : Sound(g)' /\ SeenSame(g)
  BY QuietFile, QuietSeen DEF MigInv
<1>2. \A m \in Migs, g \in Files : Planned(m, g) => Planned(m, g)'
  BY DEF QuietAt, QuietItem
<1>3. \A m \in Migs : RowOK(m)'
  BY <1>2, RowsKept DEF MigInv, MigShape
<1> QED
  BY <1>1, <1>3, AllSeenSame DEF MigInv
-----------------------------------------------------------------------------
(* Steps of jobs and rows.                                                 *)

Works == [Migs -> [JobIds -> [Files -> WorkRow]]]

RowChange(m, r) ==
    /\ r \in MigRow /\ r.src = mig[m].src /\ r.dst = mig[m].dst
    /\ r.status = "none" => mig[m].status = "none"

LEMMA SameItems ==
    ASSUME MigInv, NEW g \in Files, UNCHANGED item, file'[g] = file[g],
           \A m \in Migs : mig'[m].src = mig[m].src /\ mig'[m].dst = mig[m].dst
    PROVE  \A m \in Migs : QuietItem(m, g)
<1> TAKE m \in Migs
<1>1. ItemOK(m, g)
  BY DEF MigInv, Sound
<1> QED
  BY <1>1 DEF QuietItem, ItemOK, Planned, Live

LEMMA RowStep ==
    ASSUME MigInv, NEW m \in Migs, NEW r, RowChange(m, r), mig' = [mig EXCEPT ![m] = r],
           UNCHANGED <<file, store, item, deleter>>, encoding' \subseteq Files,
           work' \in Works,
           \A n \in Migs, j \in JobIds, g \in Files : QuietWork(n, j, g),
           keeping' \in [Migs -> SUBSET Files],
           \A n \in Migs : \A f \in keeping'[n] : f \in keeping[n] \/ Planned(n, f)
    PROVE  MigInv' /\ Preserved
<1>1. /\ MigShape /\ mig \in [Migs -> MigRow]
  BY DEF MigInv, MigShape
<1>2. MigShape'
  BY <1>1 DEF MigShape, RowChange, Works
<1>3. \A n \in Migs : /\ mig'[n].src = mig[n].src /\ mig'[n].dst = mig[n].dst
                      /\ mig'[n].status = "none" => mig[n].status = "none"
  BY <1>1 DEF RowChange
<1>4. \A n \in Migs : QuietRow(n)
  BY <1>3 DEF QuietRow, Planned
<1>5. \A g \in Files : QuietAt(g)
  BY <1>3, SameItems DEF QuietAt
<1> QED
  BY <1>2, <1>4, <1>5, QuietStep

LEMMA RowUnchanged ==
    ASSUME MigShape, NEW m \in Migs
    PROVE  /\ RowChange(m, mig[m])
           /\ UNCHANGED mig => mig' = [mig EXCEPT ![m] = mig[m]]
BY DEF MigShape, RowChange

LEMMA RowStatus ==
    ASSUME MigShape, NEW m \in Migs, NEW x \in MigStatuses \ {"none"}
    PROVE  /\ RowChange(m, [mig[m] EXCEPT !.status = x])
           /\ mig' = [mig EXCEPT ![m].status = x] =>
                  mig' = [mig EXCEPT ![m] = [mig[m] EXCEPT !.status = x]]
<1>1. mig[m] \in MigRow
  BY DEF MigShape
<1>2. RowChange(m, [mig[m] EXCEPT !.status = x])
  BY <1>1 DEF RowChange, MigRow
<1> QED
  BY <1>2

LEMMA JobNames ==
    /\ Main \in JobIds /\ Cleanup \in JobIds /\ Main # Cleanup
    /\ \A g \in 1..MaxGen : Abort(g) \in JobIds /\ Abort(g) # Main /\ Abort(g) # Cleanup
BY DEF JobIds, Main, Cleanup, Abort

LEMMA StatusNames ==
    /\ {"none", "queued", "running", "paused", "failed", "canceled", "retaining", "cleaning",
        "completed", "retained"} \subseteq MigStatuses
    /\ {"none", "pending", "copying", "verifying", "failed", "cleanup_pending", "cleaning",
        "cleaned", "original_kept", "original_partial", "canceled", "deleted"}
       \subseteq ItemStatuses
BY DEF MigStatuses, ItemStatuses

LEMMA AbortRowChange ==
    ASSUME MigShape, NEW m \in Migs, NEW r, RowChange(m, r), NEW js, CanAbort(r, js)
    PROVE  RowChange(m, AbortRow(r, js))
<1>1. r \in MigRow /\ MaxGen \in Nat
  BY MigrationAssumption DEF RowChange
<1>2. CASE HasAbort(r, js)
  BY <1>2 DEF AbortRow
<1>3. CASE ~HasAbort(r, js)
  <2>1. r.gen + 1 \in 1..MaxGen /\ r.gen + 1 \in Nat
    BY <1>1, <1>3 DEF CanAbort, MigRow
  <2>2. Abort(r.gen + 1) \in JobIds \cup {NoJob}
    BY <2>1, JobNames
  <2> HIDE DEF JobIds
  <2>3. AbortRow(r, js) = [r EXCEPT !.status = "canceled", !.cleanup = Abort(r.gen + 1),
                                    !.canceled = TRUE, !.keep = TRUE, !.gen = r.gen + 1]
    BY <1>3 DEF AbortRow
  <2> QED
    BY <1>1, <2>1, <2>2, <2>3, StatusNames DEF RowChange, MigRow
<1> QED
  BY <1>2, <1>3

LEMMA ScheduleRowChange ==
    ASSUME MigShape, NEW m \in Migs, NEW r, RowChange(m, r)
    PROVE  RowChange(m, ScheduleRow(m, r))
<1>1. /\ ScheduleRow(m, r) \in {[r EXCEPT !.status = "completed"], r,
                                [r EXCEPT !.status = "retaining", !.cleanup = Cleanup]}
      /\ Cleanup \in JobIds
  BY JobNames DEF ScheduleRow
<1> QED
  BY <1>1, StatusNames DEF RowChange, MigRow

LEMMA KeepRowChange ==
    ASSUME MigShape, NEW m \in Migs
    PROVE  RowChange(m, KeepRow(mig[m]))
<1>1. mig[m] \in MigRow
  BY DEF MigShape
<1> QED
  BY <1>1 DEF RowChange, KeepRow, MigRow

LEMMA SameWork ==
    ASSUME MigShape, UNCHANGED work
    PROVE  work' \in Works /\ \A n \in Migs, j \in JobIds, g \in Files : QuietWork(n, j, g)
BY DEF MigShape, Works, QuietWork

LEMMA ResetWork ==
    ASSUME MigShape, NEW m \in Migs, NEW j \in JobIds, NEW w \in [Files -> WorkRow],
           work' = [work EXCEPT ![m][j] = w],
           \A g \in Files : /\ w[g].pc \notin Touching
                            /\ w[g].pc \notin {"off", "link"} => Planned(m, g)'
    PROVE  work' \in Works /\ \A n \in Migs, k \in JobIds, g \in Files : QuietWork(n, k, g)
<1>1. work \in Works
  BY DEF MigShape, Works
<1>2. work' \in Works
  BY <1>1 DEF Works
<1>3. \A n \in Migs, k \in JobIds : work'[n][k] = IF n = m /\ k = j THEN w ELSE work[n][k]
  BY <1>1 DEF Works
<1> QED
  BY <1>2, <1>3 DEF QuietWork, Pc

LEMMA IdleWork ==
    NoWork \in [Files -> WorkRow] /\ \A g \in Files : NoWork[g].pc = "off"
BY DEF NoWork, Idle, WorkRow, Pcs

(* The steps of the jobs that only write the row of their migration. *)
LEMMA MainRowSteps ==
    ASSUME MigInv, NEW m \in Migs,
           \/ MainWaits(m) \/ MainAlreadyDone(m) \/ MainRefused(m) \/ MainFailed(m)
           \/ MainEnqueue(m) \/ MainLink(m) \/ \E aborted \in BOOLEAN : MainStopped(m, aborted)
    PROVE  MigInv' /\ Preserved
<1>0. MigShape /\ Main \in JobIds
  BY JobNames DEF MigInv
<1>1. keeping \in [Migs -> SUBSET Files] /\ encoding \subseteq Files
  BY <1>0 DEF MigShape
<1>2. CASE MainWaits(m) \/ MainRefused(m)
  <2>1. UNCHANGED <<file, store, encoding, mig, item, work, keeping, deleter>>
    BY <1>2, Zenon DEF MainWaits, MainRefused
  <2> QED
    BY <1>0, <1>1, <2>1, RowUnchanged, SameWork, RowStep
<1>3. CASE MainAlreadyDone(m)
  <2>1. /\ UNCHANGED <<file, store, encoding, item, work, keeping, deleter>>
        /\ mig' = [mig EXCEPT ![m] = ScheduleRow(m, mig[m])] \/ UNCHANGED mig
    <3>1. mig \in [Migs -> MigRow]
      BY <1>0 DEF MigShape
    <3> QED
      BY <1>3, <3>1 DEF MainAlreadyDone
  <2>2. PICK r : RowChange(m, r) /\ mig' = [mig EXCEPT ![m] = r]
    BY <1>0, <2>1, RowUnchanged, ScheduleRowChange
  <2> QED
    BY <1>0, <1>1, <2>1, <2>2, SameWork, RowStep
<1>4. ASSUME work' = [work EXCEPT ![m][Main] = NoWork],
             UNCHANGED <<file, store, encoding, item, keeping, deleter>>,
             NEW r, RowChange(m, r), mig' = [mig EXCEPT ![m] = r]
      PROVE  MigInv' /\ Preserved
  BY <1>0, <1>1, <1>4, IdleWork, ResetWork, RowStep DEF Touching
<1>5. CASE MainFailed(m)
  <2>1. /\ work' = [work EXCEPT ![m][Main] = NoWork]
        /\ UNCHANGED <<file, store, encoding, item, keeping, deleter>>
    BY <1>5, Zenon DEF MainFailed
  <2>2. \E x \in MigStatuses \ {"none"} : mig' = [mig EXCEPT ![m].status = x]
    BY <1>5, StatusNames DEF MainFailed
  <2> QED
    BY <1>0, <1>4, <2>1, <2>2, RowStatus
<1>6. CASE MainLink(m)
  <2>1. /\ work' = [work EXCEPT ![m][Main] = NoWork]
        /\ UNCHANGED <<file, store, encoding, item, keeping, deleter>>
        /\ mig' = [mig EXCEPT ![m] = ScheduleRow(m, mig[m])]
    BY <1>6, Zenon DEF MainLink
  <2> QED
    BY <1>0, <1>4, <2>1, RowUnchanged, ScheduleRowChange
<1>7. CASE MainEnqueue(m)
  <2> DEFINE w == [f \in Files |-> [pc |-> "link", left |-> {}]]
  <2>1. /\ work' = [work EXCEPT ![m][Main] = w]
        /\ UNCHANGED <<file, store, encoding, mig, item, keeping, deleter>>
    BY <1>7, Zenon DEF MainEnqueue
  <2>2. w \in [Files -> WorkRow] /\ \A g \in Files : w[g].pc = "link"
    BY DEF WorkRow, Pcs
  <2> HIDE DEF w
  <2> QED
    BY <1>0, <1>1, <2>1, <2>2, RowUnchanged, ResetWork, RowStep DEF Touching
<1>8. ASSUME NEW aborted \in BOOLEAN, MainStopped(m, aborted) PROVE MigInv' /\ Preserved
  <2> DEFINE r == [mig[m] EXCEPT !.status = "canceled", !.canceled = TRUE]
             js == Settled(m, Main, StopStatus(m, Main))
  <2>1. /\ work' = [work EXCEPT ![m][Main] = NoWork]
        /\ UNCHANGED <<file, store, encoding, item, keeping, deleter>>
    BY <1>8, Zenon DEF MainStopped
  <2>2. \/ mig' = [mig EXCEPT ![m].status = "paused"]
        \/ CanAbort(r, js) /\ mig' = [mig EXCEPT ![m] = AbortRow(r, js)]
        \/ mig' = [mig EXCEPT ![m] = r]
    BY <1>8, Zenon DEF MainStopped
  <2>3. RowChange(m, r)
    <3>1. mig[m] \in MigRow
      BY <1>0 DEF MigShape
    <3> QED
      BY <3>1, StatusNames DEF RowChange, MigRow
  <2> HIDE DEF r, js
  <2>4. "paused" \in MigStatuses \ {"none"}
    BY StatusNames
  <2>5. PICK x : RowChange(m, x) /\ mig' = [mig EXCEPT ![m] = x]
    BY <1>0, <2>2, <2>3, <2>4, RowStatus, AbortRowChange
  <2> QED
    BY <1>4, <2>1, <2>5
<1> QED
  BY <1>2, <1>3, <1>5, <1>6, <1>7, <1>8

LEMMA EndedRow ==
    ASSUME MigShape, NEW m \in Migs, CleanupEnd(m)
    PROVE  \/ UNCHANGED mig
           \/ \E x \in MigStatuses \ {"none"} : mig' = [mig EXCEPT ![m].status = x]
<1> DEFINE todo == \E f \in Files : work[m][Cleanup][f].pc = "todo"
<1>1. StopStatus(m, Cleanup) \in MigStatuses \ {"none"}
  BY StatusNames DEF StopStatus
<1>2. "cleaning" \in MigStatuses \ {"none"} /\ "completed" \in MigStatuses \ {"none"}
  BY StatusNames
<1>3. mig \in [Migs -> MigRow] /\ mig = [mig EXCEPT ![m].status = mig[m].status]
  BY DEF MigShape, MigRow
<1>4. \/ \E b \in BOOLEAN :
             mig' = [mig EXCEPT ![m].status = IF b THEN @ ELSE StopStatus(m, Cleanup)]
      \/ mig' = [mig EXCEPT ![m].status = "cleaning"]
      \/ UNCHANGED mig
      \/ \E b \in BOOLEAN : mig' = [mig EXCEPT ![m].status = IF b THEN @ ELSE "completed"]
  <2>1. (mig[m].keep /\ todo) \in BOOLEAN /\ mig[m].keep \in BOOLEAN
    BY <1>3 DEF MigRow
  <2> QED
    BY <2>1, Zenon DEF CleanupEnd
<1> QED
  BY <1>1, <1>2, <1>3, <1>4

LEMMA OtherRowSteps ==
    ASSUME MigInv, NEW m \in Migs,
           \/ CleanupStart(m) \/ CleanupEnd(m)
           \/ \E g \in 1..MaxGen : AbortStart(m, g) \/ AbortEnd(m, g)
    PROVE  MigInv' /\ Preserved
<1>0. MigShape /\ Cleanup \in JobIds
  BY JobNames DEF MigInv
<1>1. keeping \in [Migs -> SUBSET Files] /\ encoding \subseteq Files
  BY <1>0 DEF MigShape
<1>2. ASSUME NEW j \in JobIds, NEW w \in [Files -> WorkRow],
             work' = [work EXCEPT ![m][j] = w],
             \A g \in Files : w[g].pc \in {"off", "todo"} /\ (w[g].pc = "todo" => Planned(m, g)),
             UNCHANGED <<file, store, encoding, item, keeping, deleter>>,
             NEW r, RowChange(m, r), mig' = [mig EXCEPT ![m] = r]
      PROVE  MigInv' /\ Preserved
  <2>1. \A g \in Files : Planned(m, g)' <=> Planned(m, g)
    BY <1>2 DEF Planned
  <2>2. \A g \in Files : /\ w[g].pc \notin Touching
                         /\ w[g].pc \notin {"off", "link"} => Planned(m, g)'
    BY <1>2, <2>1 DEF Touching
  <2> QED
    BY <1>0, <1>1, <1>2, <2>2, ResetWork, RowStep
<1>3. ASSUME NEW S \in SUBSET Files, \A g \in S : Planned(m, g)
      PROVE  LET w == [f \in Files |-> IF f \in S THEN [pc |-> "todo", left |-> {}] ELSE Idle]
             IN  /\ w \in [Files -> WorkRow]
                 /\ \A g \in Files : w[g].pc \in {"off", "todo"} /\ (w[g].pc = "todo" => Planned(m, g))
  BY <1>3 DEF Idle, WorkRow, Pcs
<1>4. CASE CleanupStart(m)
  <2>1. UNCHANGED <<file, store, encoding, item, keeping, deleter>>
    BY <1>4, Zenon DEF CleanupStart
  <2>2. CASE mig[m].keep \/ mig[m].status = "retained"
    <3>1. UNCHANGED <<mig, work>>
      BY <1>4, <2>2, Zenon DEF CleanupStart
    <3> QED
      BY <1>0, <1>1, <2>1, <3>1, RowUnchanged, SameWork, RowStep
  <2>3. CASE ~(mig[m].keep \/ mig[m].status = "retained")
    <3> DEFINE S == {f \in Files : item[m][f].status \notin {"none", "cleaned", "deleted"}}
               w == [f \in Files |-> IF f \in S THEN [pc |-> "todo", left |-> {}] ELSE Idle]
    <3>1. /\ work' = [work EXCEPT ![m][Cleanup] = [f \in Files |->
                 IF item[m][f].status \in {"none", "cleaned", "deleted"}
                 THEN Idle ELSE [pc |-> "todo", left |-> {}]]]
          /\ mig' = [mig EXCEPT ![m].status = "cleaning"]
      BY <1>4, <2>3, Zenon DEF CleanupStart
    <3>2. [f \in Files |-> IF item[m][f].status \in {"none", "cleaned", "deleted"}
                           THEN Idle ELSE [pc |-> "todo", left |-> {}]] = w
      OBVIOUS
    <3>3. work' = [work EXCEPT ![m][Cleanup] = w]
      BY <3>1, <3>2
    <3>4. S \in SUBSET Files /\ \A g \in S : Planned(m, g)
      BY DEF Planned
    <3>5. /\ w \in [Files -> WorkRow]
          /\ \A g \in Files : w[g].pc \in {"off", "todo"} /\ (w[g].pc = "todo" => Planned(m, g))
      BY <1>3, <3>4
    <3>6. RowChange(m, [mig[m] EXCEPT !.status = "cleaning"])
          /\ mig' = [mig EXCEPT ![m] = [mig[m] EXCEPT !.status = "cleaning"]]
      BY <1>0, <3>1, StatusNames, RowStatus
    <3> HIDE DEF w
    <3> QED
      BY <1>0, <1>2, <2>1, <3>3, <3>5, <3>6
  <2> QED
    BY <2>2, <2>3
<1>5. /\ NoWork \in [Files -> WorkRow]
      /\ \A g \in Files : NoWork[g].pc \in {"off", "todo"} /\ (NoWork[g].pc = "todo" => Planned(m, g))
  BY IdleWork
<1>6. CASE CleanupEnd(m)
  <2>1. /\ UNCHANGED <<file, store, encoding, item, keeping, deleter>>
        /\ work' = [work EXCEPT ![m][Cleanup] = NoWork]
    BY <1>6, Zenon DEF CleanupEnd
  <2>2. \/ UNCHANGED mig
        \/ \E x \in MigStatuses \ {"none"} : mig' = [mig EXCEPT ![m].status = x]
    BY <1>0, <1>6, EndedRow
  <2>3. PICK r : RowChange(m, r) /\ mig' = [mig EXCEPT ![m] = r]
    BY <1>0, <2>2, RowStatus, RowUnchanged
  <2> QED
    BY <1>0, <1>2, <1>5, <2>1, <2>3
<1>7. ASSUME NEW g \in 1..MaxGen, AbortStart(m, g) PROVE MigInv' /\ Preserved
  <2>0. Abort(g) \in JobIds
    BY JobNames
  <2>1. UNCHANGED <<file, store, encoding, mig, item, keeping, deleter>>
    BY <1>7, Zenon DEF AbortStart
  <2> DEFINE w == [f \in Files |-> IF f \in Items(m) THEN [pc |-> "todo", left |-> {}] ELSE Idle]
  <2>2. UNCHANGED work \/ work' = [work EXCEPT ![m][Abort(g)] = w]
    BY <1>7, Zenon DEF AbortStart
  <2>3. /\ w \in [Files -> WorkRow]
        /\ \A h \in Files : w[h].pc \in {"off", "todo"} /\ (w[h].pc = "todo" => Planned(m, h))
    <3>1. Items(m) \in SUBSET Files /\ \A h \in Items(m) : Planned(m, h)
      BY DEF Items, Planned
    <3> QED
      BY <1>3, <3>1
  <2> HIDE DEF w
  <2>4. CASE UNCHANGED work
    BY <1>0, <1>1, <2>1, <2>4, RowUnchanged, SameWork, RowStep
  <2>5. CASE work' = [work EXCEPT ![m][Abort(g)] = w]
    BY <1>0, <1>2, <2>0, <2>1, <2>3, <2>5, RowUnchanged
  <2> QED
    BY <2>2, <2>4, <2>5
<1>8. ASSUME NEW g \in 1..MaxGen, AbortEnd(m, g) PROVE MigInv' /\ Preserved
  <2>0. Abort(g) \in JobIds
    BY JobNames
  <2>1. /\ UNCHANGED <<file, store, encoding, item, keeping, deleter>>
        /\ work' = [work EXCEPT ![m][Abort(g)] = NoWork]
        /\ UNCHANGED mig \/ mig' = [mig EXCEPT ![m].status = "canceled"]
    BY <1>8, Zenon DEF AbortEnd
  <2>2. "canceled" \in MigStatuses \ {"none"}
    BY StatusNames
  <2>3. PICK r : RowChange(m, r) /\ mig' = [mig EXCEPT ![m] = r]
    BY <1>0, <2>1, <2>2, RowStatus, RowUnchanged
  <2> QED
    BY <1>0, <1>2, <1>5, <2>0, <2>1, <2>3
<1> QED
  BY <1>4, <1>6, <1>7, <1>8

LEMMA ResumedRow ==
    ASSUME NEW m \in Migs, NEW j \in JobIds, NEW reflect \in BOOLEAN, Resume(m, j, reflect)
    PROVE  UNCHANGED mig \/ \E x \in MigStatuses \ {"none"} : mig' = [mig EXCEPT ![m].status = x]
<1>1. CASE ~reflect
  BY <1>1, Zenon DEF Resume
<1>2. CASE reflect
  <2>1. PICK due \in BOOLEAN : mig' = [mig EXCEPT ![m].status =
              CASE j = Main -> "running"
                [] j = Cleanup /\ due -> "cleaning"
                [] j = Cleanup /\ ~ due -> "retaining"
                [] OTHER -> "canceled"]
    BY <1>2, Zenon DEF Resume
  <2>2. (CASE j = Main -> "running"
           [] j = Cleanup /\ due -> "cleaning"
           [] j = Cleanup /\ ~ due -> "retaining"
           [] OTHER -> "canceled") \in {"running", "cleaning", "retaining", "canceled"}
    BY JobNames
  <2>3. {"running", "cleaning", "retaining", "canceled"} \subseteq MigStatuses \ {"none"}
    BY StatusNames
  <2> QED
    BY <2>1, <2>2, <2>3, Zenon DEF Resume
<1> QED
  BY <1>1, <1>2

LEMMA AdminSteps ==
    ASSUME MigInv, NEW m \in Migs,
           \/ KeepOriginals(m) \/ CancelFailed(m)
           \/ \E reflect \in BOOLEAN : CancelMain(m, reflect)
           \/ \E j \in JobIds, reflect \in BOOLEAN :
                 Pause(m, j, reflect) \/ Resume(m, j, reflect) \/ Retry(m, j, reflect)
                   \/ CancelOther(m, j, reflect)
           \/ \E j \in JobIds : Purge(m, j)
    PROVE  MigInv' /\ Preserved
<1>0. MigShape /\ mig \in [Migs -> MigRow] /\ keeping \in [Migs -> SUBSET Files]
      /\ encoding \subseteq Files
  BY DEF MigInv, MigShape
<1>1. ASSUME NEW r, RowChange(m, r), mig' = [mig EXCEPT ![m] = r],
             UNCHANGED <<file, store, encoding, item, work, deleter>>,
             UNCHANGED keeping \/ keeping' = [keeping EXCEPT ![m] = Items(m)]
      PROVE  MigInv' /\ Preserved
  <2>1. /\ keeping' \in [Migs -> SUBSET Files]
        /\ \A n \in Migs : \A f \in keeping'[n] : f \in keeping[n] \/ Planned(n, f)
    BY <1>0, <1>1 DEF Items, Planned
  <2> QED
    BY <1>0, <1>1, <2>1, SameWork, RowStep
<1>2. ASSUME NEW x \in MigStatuses \ {"none"},
             UNCHANGED mig \/ mig' = [mig EXCEPT ![m].status = x],
             UNCHANGED <<file, store, encoding, item, work, deleter, keeping>>
      PROVE  MigInv' /\ Preserved
  <2>1. PICK r : RowChange(m, r) /\ mig' = [mig EXCEPT ![m] = r]
    BY <1>0, <1>2, RowStatus, RowUnchanged
  <2> QED
    BY <1>1, <1>2, <2>1
<1>3. CASE KeepOriginals(m)
  <2>1. /\ mig' = [mig EXCEPT ![m] = KeepRow(mig[m])]
        /\ keeping' = [keeping EXCEPT ![m] = Items(m)]
        /\ UNCHANGED <<file, store, encoding, item, work, deleter>>
    BY <1>3, Zenon DEF KeepOriginals
  <2> QED
    BY <1>0, <1>1, <2>1, KeepRowChange
<1>4. CASE CancelFailed(m)
  <2>1. /\ mig' = [mig EXCEPT ![m] = AbortRow(mig[m], job[m])] /\ CanAbort(mig[m], job[m])
        /\ UNCHANGED <<file, store, encoding, item, work, keeping, deleter>>
    BY <1>4, Zenon DEF CancelFailed
  <2> QED
    BY <1>0, <1>1, <2>1, RowUnchanged, AbortRowChange
<1>5. ASSUME NEW reflect \in BOOLEAN, CancelMain(m, reflect) PROVE MigInv' /\ Preserved
  <2> DEFINE js == [job[m] EXCEPT ![Main] = CancelJob(job[m][Main])]
  <2>1. /\ UNCHANGED <<file, store, encoding, item, work, keeping, deleter>>
        /\ reflect => CanAbort(mig[m], js)
        /\ mig' = IF reflect THEN [mig EXCEPT ![m] = AbortRow(mig[m], js)] ELSE mig
    BY <1>5, Zenon DEF CancelMain
  <2> HIDE DEF js
  <2>2. PICK r : RowChange(m, r) /\ mig' = [mig EXCEPT ![m] = r]
    BY <1>0, <2>1, RowUnchanged, AbortRowChange
  <2> QED
    BY <1>1, <2>1, <2>2
<1>6. ASSUME NEW j \in JobIds, NEW reflect \in BOOLEAN, Pause(m, j, reflect)
      PROVE  MigInv' /\ Preserved
  <2>1. /\ UNCHANGED <<file, store, encoding, item, work, keeping, deleter>>
        /\ \/ UNCHANGED mig
           \/ mig' = [mig EXCEPT ![m].status = "canceled"]
           \/ mig' = [mig EXCEPT ![m].status = "paused"]
    <3>1. CASE j[1] = "abort"
      BY <1>6, <3>1 DEF Pause
    <3>2. CASE j[1] # "abort"
      BY <1>6, <3>2 DEF Pause
    <3> QED
      BY <3>1, <3>2
  <2> QED
    BY <1>2, <2>1, StatusNames
<1>7. ASSUME NEW j \in JobIds, NEW reflect \in BOOLEAN, Resume(m, j, reflect)
      PROVE  MigInv' /\ Preserved
  <2>1. UNCHANGED <<file, store, encoding, item, work, keeping, deleter>>
    BY <1>7, Zenon DEF Resume
  <2>2. UNCHANGED mig \/ \E x \in MigStatuses \ {"none"} : mig' = [mig EXCEPT ![m].status = x]
    BY <1>7, ResumedRow
  <2> QED
    BY <1>2, <2>1, <2>2, StatusNames
<1>8. ASSUME NEW j \in JobIds, NEW reflect \in BOOLEAN, Retry(m, j, reflect)
      PROVE  MigInv' /\ Preserved
  <2> DEFINE r == [mig[m] EXCEPT !.status = "queued", !.cleanup = NoJob,
                                 !.canceled = FALSE, !.keep = FALSE]
             s == [mig[m] EXCEPT !.status = "canceled"]
  <2>1. UNCHANGED <<file, store, encoding, item, work, keeping, deleter>>
    BY <1>8, Zenon DEF Retry
  <2>2. mig' = [mig EXCEPT ![m] = CASE reflect /\ j = Main -> r
                                    [] reflect /\ j[1] = "abort" -> s
                                    [] OTHER -> mig[m]]
    BY <1>8, Zenon DEF Retry
  <2>3. RowChange(m, r) /\ RowChange(m, s) /\ RowChange(m, mig[m])
    <3>1. mig[m] \in MigRow
      BY <1>0
    <3> QED
      BY <3>1, StatusNames DEF RowChange, MigRow
  <2> HIDE DEF r, s
  <2>4. (CASE reflect /\ j = Main -> r
           [] reflect /\ j[1] = "abort" -> s
           [] OTHER -> mig[m]) \in {r, s, mig[m]}
    OBVIOUS
  <2>5. PICK x : RowChange(m, x) /\ mig' = [mig EXCEPT ![m] = x]
    BY <2>2, <2>3, <2>4
  <2> QED
    BY <1>1, <2>1, <2>5
<1>9. ASSUME NEW j \in JobIds, NEW reflect \in BOOLEAN, CancelOther(m, j, reflect)
      PROVE  MigInv' /\ Preserved
  <2>1. /\ UNCHANGED <<file, store, encoding, item, work, deleter>>
        /\ UNCHANGED mig \/ mig' = [mig EXCEPT ![m] = KeepRow(mig[m])]
        /\ UNCHANGED keeping \/ keeping' = [keeping EXCEPT ![m] = Items(m)]
    BY <1>9, Zenon DEF CancelOther
  <2>2. PICK r : RowChange(m, r) /\ mig' = [mig EXCEPT ![m] = r]
    BY <1>0, <2>1, RowUnchanged, KeepRowChange
  <2> QED
    BY <1>1, <2>1, <2>2
<1>10. ASSUME NEW j \in JobIds, Purge(m, j) PROVE MigInv' /\ Preserved
  <2>1. UNCHANGED <<file, store, encoding, mig, item, work, keeping, deleter>>
    BY <1>10, Zenon DEF Purge
  <2> QED
    BY <1>0, <1>1, <2>1, RowUnchanged
<1> QED
  BY <1>3, <1>4, <1>5, <1>6, <1>7, <1>8, <1>9, <1>10

LEMMA ReconcileSteps ==
    ASSUME MigInv, NEW m \in Migs, Reconcile(m)
    PROVE  MigInv' /\ Preserved
<1>0. MigShape /\ mig \in [Migs -> MigRow] /\ keeping \in [Migs -> SUBSET Files]
      /\ encoding \subseteq Files /\ mig[m] \in MigRow
  BY DEF MigInv, MigShape
<1>1. UNCHANGED <<file, store, encoding, item, work, deleter>>
  BY Zenon DEF Reconcile
<1>2. ASSUME NEW r, RowChange(m, r), mig' = [mig EXCEPT ![m] = r],
             UNCHANGED keeping \/ keeping' = [keeping EXCEPT ![m] = Items(m)]
      PROVE  MigInv' /\ Preserved
  <2>1. /\ keeping' \in [Migs -> SUBSET Files]
        /\ \A n \in Migs : \A f \in keeping'[n] : f \in keeping[n] \/ Planned(n, f)
    BY <1>0, <1>2 DEF Items, Planned
  <2> QED
    BY <1>0, <1>1, <1>2, <2>1, SameWork, RowStep
<1>3. CASE ReconcileCleanup(m)
  <2> DEFINE r == seen[m]
             c == job[m][r.cleanup].st
             unlinked == [mig[m] EXCEPT !.cleanup = NoJob]
             row == IF r.status = "paused"
                    THEN [ScheduleRow(m, unlinked) EXCEPT !.status = "paused"]
                    ELSE ScheduleRow(m, unlinked)
             status(due) == IF c = "paused" \/ job[m][Cleanup].stop = "pause" THEN "paused"
                            ELSE IF c = "succeeded" THEN "completed"
                            ELSE IF job[m][Cleanup].stop = "no" /\ c = "queued" /\ ~ due THEN "retaining"
                            ELSE IF job[m][Cleanup].stop = "no" /\ c \in {"queued", "running"} THEN "cleaning"
                            ELSE mig[m].status
  <2>1. UNCHANGED keeping \/ keeping' = [keeping EXCEPT ![m] = Items(m)]
    BY <1>3, Zenon DEF ReconcileCleanup
  <2>2. \/ CanAbort(mig[m], job[m]) /\ mig' = [mig EXCEPT ![m] = AbortRow(mig[m], job[m])]
        \/ mig' = [mig EXCEPT ![m] = row]
        \/ mig' = [mig EXCEPT ![m] = KeepRow(mig[m])]
        \/ UNCHANGED mig
        \/ \E due \in BOOLEAN : mig' = [mig EXCEPT ![m].status = status(due)]
        \/ mig' = [mig EXCEPT ![m].status = "canceled"]
    BY <1>3, Zenon DEF ReconcileCleanup
  <2>3. RowChange(m, row)
    <3>1. RowChange(m, unlinked)
      BY <1>0 DEF RowChange, MigRow
    <3> HIDE DEF unlinked
    <3>2. RowChange(m, ScheduleRow(m, unlinked))
      BY <1>0, <3>1, ScheduleRowChange
    <3>3. RowChange(m, [ScheduleRow(m, unlinked) EXCEPT !.status = "paused"])
      BY <3>2, StatusNames DEF RowChange, MigRow
    <3> QED
      BY <3>2, <3>3
  <2>4. \A due \in BOOLEAN :
           status(due) \in {"paused", "completed", "retaining", "cleaning", mig[m].status}
    OBVIOUS
  <2>5. \A x \in {"paused", "completed", "retaining", "cleaning", "canceled", mig[m].status} :
           RowChange(m, [mig[m] EXCEPT !.status = x])
    BY <1>0, StatusNames DEF RowChange, MigRow
  <2> HIDE DEF row, status
  <2>6. PICK x : RowChange(m, x) /\ mig' = [mig EXCEPT ![m] = x]
    <3>1. CASE CanAbort(mig[m], job[m]) /\ mig' = [mig EXCEPT ![m] = AbortRow(mig[m], job[m])]
      BY <1>0, <3>1, RowUnchanged, AbortRowChange
    <3>2. CASE \/ mig' = [mig EXCEPT ![m] = row] \/ UNCHANGED mig
               \/ mig' = [mig EXCEPT ![m] = KeepRow(mig[m])]
      BY <1>0, <2>3, <3>2, RowUnchanged, KeepRowChange
    <3>3. CASE \/ \E due \in BOOLEAN : mig' = [mig EXCEPT ![m].status = status(due)]
               \/ mig' = [mig EXCEPT ![m].status = "canceled"]
      BY <2>4, <2>5, <3>3
    <3> QED
      BY <2>2, <3>1, <3>2, <3>3
  <2> QED
    BY <1>2, <2>1, <2>6
<1>4. CASE ReconcileMain(m)
  <2>1. UNCHANGED keeping
    BY <1>4, Zenon DEF ReconcileMain
  <2>2. PICK x : RowChange(m, x) /\ mig' = [mig EXCEPT ![m] = x]
    <3> DEFINE r == seen[m]
               fresh == [job[m] EXCEPT ![Main] = IF @.st # "none" THEN @
                                        ELSE IF r.status = "paused" THEN [Fresh EXCEPT !.st = "paused"]
                                        ELSE Fresh]
               js == IF r.status \in {"canceled", "retaining", "cleaning"} THEN job[m] ELSE fresh
               main == js[Main]
               abort == r.status = "canceled" \/ (r.status \in {"queued", "running", "paused"} /\ main.st = "canceled")
               schedule == \/ r.status \in {"retaining", "cleaning"}
                           \/ r.status \in {"queued", "running", "paused"} /\ main.st = "succeeded"
               row == IF abort THEN AbortRow(mig[m], js)
                      ELSE IF schedule THEN ScheduleRow(m, mig[m])
                      ELSE IF main.st = "paused" \/ main.stop = "pause" THEN [mig[m] EXCEPT !.status = "paused"]
                      ELSE IF main.st \in {"queued", "running", "failed"} /\ main.stop = "no"
                      THEN [mig[m] EXCEPT !.status = main.st]
                      ELSE mig[m]
    <3>1. mig' = [mig EXCEPT ![m] = row] /\ (abort => CanAbort(mig[m], js))
      BY <1>4, Zenon DEF ReconcileMain
    <3> HIDE DEF abort, schedule, js, main
    <3>2. \/ abort /\ row = AbortRow(mig[m], js)
          \/ row = ScheduleRow(m, mig[m])
          \/ row = [mig[m] EXCEPT !.status = "paused"]
          \/ main.st \in {"queued", "running", "failed"} /\ row = [mig[m] EXCEPT !.status = main.st]
          \/ row = mig[m]
      OBVIOUS
    <3> HIDE DEF row
    <3>3. \A x \in {"queued", "running", "failed", "paused"} :
             RowChange(m, [mig[m] EXCEPT !.status = x])
      BY <1>0, StatusNames DEF RowChange, MigRow
    <3>4. RowChange(m, mig[m])
      BY <1>0, RowUnchanged
    <3>5. RowChange(m, row)
      <4>1. CASE abort /\ row = AbortRow(mig[m], js)
        BY <1>0, <3>1, <3>4, <4>1, AbortRowChange
      <4>2. CASE row = ScheduleRow(m, mig[m])
        BY <1>0, <3>4, <4>2, ScheduleRowChange
      <4>3. CASE main.st \in {"queued", "running", "failed"}
                   /\ row = [mig[m] EXCEPT !.status = main.st]
        BY <3>3, <4>3
      <4> QED
        BY <3>2, <3>3, <3>4, <4>1, <4>2, <4>3
    <3> QED
      BY <3>1, <3>5
  <2> QED
    BY <1>2, <2>1, <2>2
<1> QED
  BY <1>3, <1>4, Zenon DEF Reconcile

(* The steps that write no row of a migration. *)
LEMMA RuntimeSteps ==
    ASSUME MigInv,
           \/ ReconcileLoad \/ Crash
           \/ \E f \in Files : EncodeBegin(f) \/ EncodeFail(f) \/ DeleterFault(f)
    PROVE  MigInv' /\ Preserved
<1>0. MigShape
  BY DEF MigInv
<1>1. /\ UNCHANGED <<file, store, mig, item>>
      /\ encoding' \subseteq Files
      /\ work' \in Works /\ \A n \in Migs, j \in JobIds, g \in Files : QuietWork(n, j, g)
      /\ keeping' \in [Migs -> SUBSET Files] /\ \A n \in Migs : keeping'[n] \subseteq keeping[n]
      /\ deleter' \in [Files -> SUBSET Mounts]
      /\ \A g \in Files : deleter'[g] \in {deleter[g], {}}
  <2>0. /\ encoding \subseteq Files /\ keeping \in [Migs -> SUBSET Files]
        /\ deleter \in [Files -> SUBSET Mounts]
    BY <1>0 DEF MigShape
  <2>1. CASE ReconcileLoad
    <3>1. UNCHANGED <<file, store, encoding, mig, item, work, keeping, deleter>>
      BY <2>1, Zenon DEF ReconcileLoad
    <3> QED
      BY <1>0, <2>0, <3>1, SameWork
  <2>2. ASSUME NEW f \in Files, EncodeBegin(f) \/ EncodeFail(f) PROVE <1>1!:
    <3>1. /\ UNCHANGED <<file, store, mig, item, work, keeping, deleter>>
          /\ encoding' \in {encoding \cup {f}, encoding \ {f}}
      BY <2>2 DEF EncodeBegin, EncodeFail
    <3> QED
      BY <1>0, <2>0, <3>1, SameWork
  <2>3. ASSUME NEW f \in Files, DeleterFault(f) PROVE <1>1!:
    <3>1. /\ UNCHANGED <<file, store, encoding, mig, item, work, keeping>>
          /\ deleter' = [deleter EXCEPT ![f] = {}]
      BY <2>3, Zenon DEF DeleterFault
    <3> QED
      BY <1>0, <2>0, <3>1, SameWork
  <2>4. CASE Crash
    <3>1. /\ UNCHANGED <<file, store, encoding, mig, item>>
          /\ work' = [m \in Migs |-> [j \in JobIds |-> NoWork]]
          /\ keeping' = [m \in Migs |-> {}] /\ deleter' = [f \in Files |-> {}]
      BY <2>4, Zenon DEF Crash
    <3>2. work' \in Works
      BY <3>1, IdleWork DEF Works
    <3>3. \A n \in Migs, j \in JobIds, g \in Files : QuietWork(n, j, g)
      BY <3>1, IdleWork DEF QuietWork, Pc, Touching
    <3> QED
      BY <2>0, <3>1, <3>2, <3>3
  <2> QED
    BY <2>1, <2>2, <2>3, <2>4
<1>2. MigShape'
  BY <1>0, <1>1 DEF MigShape, Works
<1>3. \A n \in Migs : QuietRow(n)
  BY <1>1 DEF QuietRow, Planned
<1>4. \A g \in Files : QuietAt(g)
  BY <1>1, SameItems DEF QuietAt
<1> QED
  BY <1>2, <1>3, <1>4, QuietStep
-----------------------------------------------------------------------------
(* Steps that write the row of one item.                                   *)

QuietRecord(m, f, i) ==
    /\ i \in ItemRow /\ i.status # "none"
    /\ i.owned = item[m][f].owned /\ i.cleaned = item[m][f].cleaned
    /\ i.status = "canceled" => ~i.owned
    /\ i.status = "deleted" => ~Live(f)

LEMMA ItemStep ==
    ASSUME MigInv, NEW m \in Migs, NEW f \in Files, NEW i, QuietRecord(m, f, i), Planned(m, f),
           item' = [item EXCEPT ![m][f] = i],
           NEW r, RowChange(m, r), mig' = [mig EXCEPT ![m] = r],
           UNCHANGED <<file, store, encoding, deleter>>,
           work' \in Works, \A n \in Migs, j \in JobIds, g \in Files : QuietWork(n, j, g),
           keeping' \in [Migs -> SUBSET Files], \A n \in Migs : keeping'[n] \subseteq keeping[n]
    PROVE  MigInv' /\ Preserved
<1>1. /\ MigShape /\ mig \in [Migs -> MigRow] /\ item \in [Migs -> [Files -> ItemRow]]
      /\ i \in ItemRow /\ r \in MigRow
  BY DEF MigInv, MigShape, QuietRecord, RowChange
<1>2. item' \in [Migs -> [Files -> ItemRow]]
  BY <1>1
<1>3. mig' \in [Migs -> MigRow]
  BY <1>1
<1>4. MigShape'
  BY <1>1, <1>2, <1>3 DEF MigShape, Works
<1>5. \A n \in Migs : /\ mig'[n].src = mig[n].src /\ mig'[n].dst = mig[n].dst
                      /\ mig'[n].status = "none" => mig[n].status = "none"
  BY <1>1 DEF RowChange
<1>6. \A n \in Migs, g \in Files : item'[n][g] = IF n = m /\ g = f THEN i ELSE item[n][g]
  BY <1>1
<1>7. \A n \in Migs : QuietRow(n)
  BY <1>5, <1>6 DEF QuietRow, Planned
<1>8. ASSUME NEW n \in Migs, NEW g \in Files PROVE QuietItem(n, g)
  <2>1. ItemOK(n, g) /\ (Live(g)' <=> Live(g))
    BY DEF MigInv, Sound, Live
  <2>2. CASE n = m /\ g = f
    <3>1. item'[n][g] = i /\ mig[n].src # mig[n].dst
      BY <1>6, <2>1, <2>2 DEF ItemOK
    <3> QED
      BY <1>5, <2>1, <2>2, <3>1 DEF QuietItem, ItemOK, Planned, QuietRecord
  <2>3. CASE ~(n = m /\ g = f)
    <3>1. item'[n][g] = item[n][g]
      BY <1>6, <2>3
    <3> QED
      BY <1>5, <2>1, <3>1 DEF QuietItem, ItemOK, Planned
  <2> QED
    BY <2>2, <2>3
<1>9. \A g \in Files : QuietAt(g)
  BY <1>8 DEF QuietAt
<1> QED
  BY <1>4, <1>7, <1>9, QuietStep

LEMMA GotoWork ==
    ASSUME MigShape, NEW m \in Migs, NEW j \in JobIds, NEW f \in Files,
           NEW p \in Pcs \ Touching, Goto(m, j, f, p), Planned(m, f)'
    PROVE  work' \in Works /\ \A n \in Migs, k \in JobIds, g \in Files : QuietWork(n, k, g)
<1>1. work \in Works /\ [pc |-> p, left |-> {}] \in WorkRow
  BY DEF MigShape, Works, WorkRow
<1>2. work' = [work EXCEPT ![m][j][f] = [pc |-> p, left |-> {}]]
  BY DEF Goto
<1>3. \A n \in Migs, k \in JobIds, g \in Files :
         work'[n][k][g] = IF n = m /\ k = j /\ g = f THEN [pc |-> p, left |-> {}] ELSE work[n][k][g]
  BY <1>1, <1>2 DEF Works
<1>4. work' \in Works
  BY <1>1, <1>2 DEF Works
<1> QED
  BY <1>3, <1>4 DEF QuietWork, Pc

(* A handler leaves an item, which gets a new status or keeps its row. *)
LEMMA LeavesItem ==
    ASSUME MigInv, NEW m \in Migs, NEW j \in JobIds, NEW f \in Files,
           NEW p \in Pcs \ Touching, Goto(m, j, f, p), Planned(m, f),
           NEW i, QuietRecord(m, f, i), item' = [item EXCEPT ![m][f] = i],
           UNCHANGED <<file, store, encoding, mig, keeping, deleter>>
    PROVE  MigInv' /\ Preserved
<1>0. /\ MigShape /\ keeping \in [Migs -> SUBSET Files] /\ item \in [Migs -> [Files -> ItemRow]]
  BY DEF MigInv, MigShape
<1>1. Planned(m, f)'
  BY <1>0 DEF Planned, QuietRecord
<1>2. work' \in Works /\ \A n \in Migs, k \in JobIds, g \in Files : QuietWork(n, k, g)
  BY <1>0, <1>1, GotoWork
<1>3. RowChange(m, mig[m]) /\ mig' = [mig EXCEPT ![m] = mig[m]]
  BY <1>0, RowUnchanged
<1> QED
  BY <1>0, <1>2, <1>3, ItemStep

LEMMA SameRecord ==
    ASSUME MigInv, NEW m \in Migs, NEW f \in Files, Planned(m, f)
    PROVE  /\ QuietRecord(m, f, item[m][f])
           /\ UNCHANGED item => item' = [item EXCEPT ![m][f] = item[m][f]]
BY DEF MigInv, MigShape, Sound, ItemOK, QuietRecord, Planned

(* An item with another status, and one that is released as well. *)
WithStatus(m, f, x) == [item[m][f] EXCEPT !.status = x]
Released(m, f, x) == [item[m][f] EXCEPT !.status = x, !.reserved = FALSE]
OpenStatuses == ItemStatuses \ {"none", "canceled", "deleted"}

LEMMA StatusRecord ==
    ASSUME MigInv, NEW m \in Migs, NEW f \in Files, NEW x \in OpenStatuses
    PROVE  /\ QuietRecord(m, f, WithStatus(m, f, x))
           /\ item' = [item EXCEPT ![m][f].status = x] =>
                  item' = [item EXCEPT ![m][f] = WithStatus(m, f, x)]
<1>1. item[m][f] \in ItemRow /\ item \in [Migs -> [Files -> ItemRow]]
  BY DEF MigInv, MigShape
<1>2. QuietRecord(m, f, [item[m][f] EXCEPT !.status = x])
  BY <1>1 DEF QuietRecord, ItemRow, OpenStatuses
<1> QED
  BY <1>1, <1>2 DEF WithStatus

LEMMA ReleasedRecord ==
    ASSUME MigInv, NEW m \in Migs, NEW f \in Files, NEW x \in OpenStatuses
    PROVE  /\ QuietRecord(m, f, Released(m, f, x))
           /\ item' = [item EXCEPT ![m][f].status = x, ![m][f].reserved = FALSE] =>
                  item' = [item EXCEPT ![m][f] = Released(m, f, x)]
<1>1. item[m][f] \in ItemRow /\ item \in [Migs -> [Files -> ItemRow]]
  BY DEF MigInv, MigShape
<1>2. QuietRecord(m, f, [item[m][f] EXCEPT !.status = x, !.reserved = FALSE])
  BY <1>1 DEF QuietRecord, ItemRow, OpenStatuses
<1> QED
  BY <1>1, <1>2 DEF Released, ItemRow

LEMMA OpenNames ==
    {"pending", "copying", "verifying", "failed", "cleanup_pending", "cleaning", "cleaned",
     "original_kept", "original_partial"} \subseteq OpenStatuses
BY StatusNames DEF OpenStatuses

LEMMA WorkedPlanned ==
    ASSUME MigInv, NEW m \in Migs, NEW j \in JobIds, NEW f \in Files,
           work[m][j][f].pc \notin {"off", "link"}
    PROVE  Planned(m, f)
BY DEF MigInv, Sound, WorkOK, Pc

LEMMA LeavingSteps ==
    ASSUME MigInv, NEW m \in Migs, NEW f \in Files,
           CopyDone(m, f) \/ ItemFault(m, f) \/ ItemStop(m, f)
             \/ \E j \in JobIds : DeleteFault(m, j, f)
    PROVE  MigInv' /\ Preserved
<1>0. /\ Main \in JobIds /\ {"copied", "error", "stopped"} \subseteq Pcs \ Touching
  BY JobNames DEF Pcs, Touching
<1>1. CASE CopyDone(m, f)
  <2>1. /\ Goto(m, Main, f, "copied") /\ work[m][Main][f].pc = "copying"
        /\ UNCHANGED <<file, store, encoding, mig, item, keeping, deleter>>
    BY <1>1, Zenon DEF CopyDone, At
  <2>2. Planned(m, f)
    BY <1>0, <2>1, WorkedPlanned
  <2> QED
    BY <1>0, <2>1, <2>2, SameRecord, LeavesItem
<1>2. CASE ItemFault(m, f)
  <2>1. /\ Goto(m, Main, f, "error") /\ work[m][Main][f].pc \in {"copying", "final"}
        /\ item' = [item EXCEPT ![m][f].status = "failed"]
        /\ UNCHANGED <<file, store, encoding, mig, keeping, deleter>>
    BY <1>2, Zenon DEF ItemFault
  <2>2. Planned(m, f)
    BY <1>0, <2>1, WorkedPlanned
  <2> QED
    BY <1>0, <2>1, <2>2, OpenNames, StatusRecord, LeavesItem
<1>3. CASE ItemStop(m, f)
  <2>1. /\ Goto(m, Main, f, "stopped") /\ work[m][Main][f].pc \in {"copying", "copied", "final"}
        /\ item' = [item EXCEPT ![m][f].status = IF @ = "deleted" THEN @ ELSE "pending"]
        /\ UNCHANGED <<file, store, encoding, mig, keeping, deleter>>
    BY <1>3, Zenon DEF ItemStop
  <2>2. Planned(m, f)
    BY <1>0, <2>1, WorkedPlanned
  <2>3. item \in [Migs -> [Files -> ItemRow]] /\ item[m][f] \in ItemRow
    BY DEF MigInv, MigShape
  <2>4. CASE item[m][f].status = "deleted"
    <3>1. item' = [item EXCEPT ![m][f] = item[m][f]]
      BY <2>1, <2>3, <2>4 DEF ItemRow
    <3> QED
      BY <1>0, <2>1, <2>2, <3>1, SameRecord, LeavesItem
  <2>5. CASE item[m][f].status # "deleted"
    <3>1. item' = [item EXCEPT ![m][f].status = "pending"]
      BY <2>1, <2>3, <2>5
    <3> QED
      BY <1>0, <2>1, <2>2, <3>1, OpenNames, StatusRecord, LeavesItem
  <2> QED
    BY <2>4, <2>5
<1>4. ASSUME NEW j \in JobIds, DeleteFault(m, j, f) PROVE MigInv' /\ Preserved
  <2>1. /\ Goto(m, j, f, "error") /\ work[m][j][f].pc = "deleting"
        /\ UNCHANGED <<file, store, encoding, mig, item, keeping, deleter>>
    BY <1>4, Zenon DEF DeleteFault, At
  <2>2. Planned(m, f)
    BY <2>1, WorkedPlanned
  <2> QED
    BY <1>0, <2>1, <2>2, SameRecord, LeavesItem
<1> QED
  BY <1>1, <1>2, <1>3, <1>4

LEMMA KeepStep ==
    ASSUME MigInv, NEW m \in Migs, NEW f \in Files, KeepItem(m, f)
    PROVE  MigInv' /\ Preserved
<1>0. /\ MigShape /\ keeping \in [Migs -> SUBSET Files] /\ item[m][f] \in ItemRow
      /\ item \in [Migs -> [Files -> ItemRow]] /\ mig[m] \in MigRow
  BY DEF MigInv, MigShape
<1>1. /\ f \in keeping[m]
      /\ item' = [item EXCEPT ![m][f] = Kept(item[m][f])]
      /\ keeping' = [keeping EXCEPT ![m] = keeping[m] \ {f}]
      /\ UNCHANGED <<file, store, encoding, work, deleter>>
  BY Zenon DEF KeepItem
<1>2. UNCHANGED mig \/ mig' = [mig EXCEPT ![m] = [mig[m] EXCEPT !.status = "retained", !.keep = TRUE]]
  BY <1>0 DEF KeepItem, MigShape
<1>3. RowChange(m, [mig[m] EXCEPT !.status = "retained", !.keep = TRUE])
  BY <1>0, StatusNames DEF RowChange, MigRow
<1>4. PICK r : RowChange(m, r) /\ mig' = [mig EXCEPT ![m] = r]
  BY <1>0, <1>2, <1>3, RowUnchanged
<1>5. Planned(m, f)
  BY <1>1 DEF MigInv, RowOK
<1>6. QuietRecord(m, f, Kept(item[m][f]))
  <2>1. QuietRecord(m, f, item[m][f])
    BY <1>5, SameRecord
  <2>2. /\ QuietRecord(m, f, Released(m, f, "original_kept"))
        /\ QuietRecord(m, f, Released(m, f, "original_partial"))
    BY OpenNames, ReleasedRecord
  <2>3. Kept(item[m][f]) \in {item[m][f], Released(m, f, "original_partial"),
                              Released(m, f, "original_kept")}
    BY DEF Kept, Released
  <2> QED
    BY <2>1, <2>2, <2>3
<1>7. /\ keeping' \in [Migs -> SUBSET Files]
      /\ \A n \in Migs : keeping'[n] \subseteq keeping[n]
  BY <1>0, <1>1
<1> QED
  BY <1>0, <1>1, <1>4, <1>5, <1>6, <1>7, SameWork, ItemStep
-----------------------------------------------------------------------------
(* Steps that write the objects of one file, or start to.                  *)

(* Everything but one file, one item of it and one handler's position in   *)
(* it is left alone.                                                       *)
Elsewhere(m, j, f) ==
    /\ UNCHANGED <<mig, encoding, keeping>>
    /\ MigShape'
    /\ \A g \in Files : g # f => file'[g] = file[g] /\ deleter'[g] = deleter[g]
    /\ \A mt \in Mounts, g \in Files : g # f => store'[mt][g] = store[mt][g]
    /\ \A n \in Migs, g \in Files : n # m \/ g # f => item'[n][g] = item[n][g]
    /\ \A n \in Migs, k \in JobIds, g \in Files :
           n # m \/ k # j \/ g # f => work'[n][k][g] = work[n][k][g]

LEMMA ElsewhereQuiet ==
    ASSUME MigInv, NEW m \in Migs, NEW j \in JobIds, NEW f \in Files, Elsewhere(m, j, f),
           item'[m][f].status # "none", Planned(m, f)
    PROVE  /\ \A g \in Files : g # f => QuietAt(g)
           /\ \A n \in Migs : QuietRow(n) /\ (Planned(n, f) => Planned(n, f)')
<1>1. ASSUME NEW g \in Files, g # f PROVE QuietAt(g)
  <2>1. ASSUME NEW n \in Migs PROVE QuietItem(n, g)
    <3>1. ItemOK(n, g) /\ item'[n][g] = item[n][g] /\ (Live(g)' <=> Live(g))
      BY <1>1 DEF MigInv, Sound, Elsewhere, Live
    <3>2. UNCHANGED mig
      BY DEF Elsewhere
    <3> QED
      BY <3>1, <3>2 DEF QuietItem, ItemOK, Planned
  <2> QED
    BY <1>1, <2>1 DEF QuietAt, Elsewhere, QuietWork
<1>2. ASSUME NEW n \in Migs PROVE QuietRow(n) /\ (Planned(n, f) => Planned(n, f)')
  <2>1. UNCHANGED mig /\ UNCHANGED keeping
    BY DEF Elsewhere
  <2>2. \A g \in Files : Planned(n, g)' <=> Planned(n, g)
    BY DEF Elsewhere, Planned
  <2> QED
    BY <2>1, <2>2 DEF QuietRow
<1> QED
  BY <1>1, <1>2
-----------------------------------------------------------------------------
(* Steps that write all the items of a migration.                          *)

(* What becomes of one item, when some of them may be new. *)
ItemTurns(m, g, i) ==
    /\ i \in ItemRow
    /\ Planned(m, g) => QuietRecord(m, g, i)
    /\ ~Planned(m, g) => i.status \in {"none", "pending"} /\ (i.status = "pending" => ~i.cleaned)

LEMMA PreparedTurns ==
    ASSUME MigInv, NEW m \in Migs, NEW g \in Files
    PROVE  ItemTurns(m, g, Prepared(m, g)) /\ (~Planned(m, g) => Prepared(m, g).status = "none")
<1> DEFINE i == item[m][g]
           x == IF AtDestination(m, g) THEN "cleanup_pending" ELSE "pending"
           o == i.owned /\ (i.status # "canceled" \/ AtDestination(m, g))
<1>1. i \in ItemRow /\ ItemOK(m, g)
  BY DEF MigInv, MigShape, Sound
<1>2. CASE i.status \in {"none", "deleted"}
  <2>1. Prepared(m, g) = i
    BY <1>2 DEF Prepared
  <2> QED
    BY <1>1, <1>2, <2>1 DEF ItemTurns, QuietRecord, ItemOK, Planned
<1>3. CASE i.status \notin {"none", "deleted"} /\ ~Live(g)
  <2>1. Prepared(m, g) = [i EXCEPT !.status = "deleted"]
    BY <1>3 DEF Prepared
  <2>2. /\ [i EXCEPT !.status = "deleted"] \in ItemRow
        /\ [i EXCEPT !.status = "deleted"].status = "deleted"
        /\ [i EXCEPT !.status = "deleted"].owned = i.owned
        /\ [i EXCEPT !.status = "deleted"].cleaned = i.cleaned
    BY <1>1, StatusNames DEF ItemRow
  <2> QED
    BY <1>3, <2>1, <2>2 DEF ItemTurns, QuietRecord, Planned
<1>4. CASE i.status \notin {"none", "deleted"} /\ Live(g)
  <2>1. Prepared(m, g) = [i EXCEPT !.status = x, !.reserved = TRUE, !.owned = o]
    BY <1>4, Zenon DEF Prepared
  <2>2. /\ x \in ItemStatuses /\ x \notin {"none", "canceled", "deleted"}
        /\ o \in BOOLEAN /\ (o <=> i.owned)
    BY <1>1, StatusNames DEF ItemOK, ItemRow
  <2> HIDE DEF x, o
  <2>3. /\ [i EXCEPT !.status = x, !.reserved = TRUE, !.owned = o] \in ItemRow
        /\ [i EXCEPT !.status = x, !.reserved = TRUE, !.owned = o].status = x
        /\ [i EXCEPT !.status = x, !.reserved = TRUE, !.owned = o].owned = o
        /\ [i EXCEPT !.status = x, !.reserved = TRUE, !.owned = o].cleaned = i.cleaned
    BY <1>1, <2>2 DEF ItemRow
  <2>4. o = i.owned
    BY <1>1, <2>2 DEF ItemRow
  <2> QED
    BY <1>4, <2>1, <2>2, <2>3, <2>4 DEF ItemTurns, QuietRecord, Planned
<1> QED
  BY <1>2, <1>3, <1>4

LEMMA ItemsStep ==
    ASSUME MigInv, NEW m \in Migs, NEW its \in [Files -> ItemRow],
           \A g \in Files : ItemTurns(m, g, its[g]),
           item' = [item EXCEPT ![m] = its], mig' \in [Migs -> MigRow],
           \A n \in Migs : mig'[n].status = "none" =>
               mig[n].status = "none" /\ (n = m => \A g \in Files : its[g].status = "none"),
           \A n \in Migs, g \in Files : Planned(n, g) =>
               mig'[n].src = mig[n].src /\ mig'[n].dst = mig[n].dst,
           \A g \in Files : its[g].status # "none" => mig'[m].src # mig'[m].dst,
           UNCHANGED <<file, store, encoding, deleter, keeping>>,
           work' \in Works, \A n \in Migs, j \in JobIds, g \in Files : QuietWork(n, j, g)
    PROVE  MigInv' /\ Preserved
<1>1. MigShape /\ item \in [Migs -> [Files -> ItemRow]]
  BY DEF MigInv, MigShape
<1>2. /\ item' \in [Migs -> [Files -> ItemRow]]
      /\ \A n \in Migs : item'[n] = IF n = m THEN its ELSE item[n]
  BY <1>1
<1>3. MigShape'
  BY <1>1, <1>2 DEF MigShape, Works
<1>4. \A n \in Migs : QuietRow(n)
  BY <1>2 DEF QuietRow, Planned
<1>5. ASSUME NEW n \in Migs, NEW g \in Files PROVE QuietItem(n, g)
  <2>1. ItemOK(n, g) /\ (Live(g)' <=> Live(g))
    BY DEF MigInv, Sound, Live
  <2>2. CASE n = m /\ Planned(m, g)
    <3>1. item'[n][g] = its[g] /\ QuietRecord(m, g, its[g])
      BY <1>2, <2>2 DEF ItemTurns
    <3> QED
      BY <2>1, <2>2, <3>1 DEF QuietItem, ItemOK, Planned, QuietRecord
  <2>3. CASE n = m /\ ~Planned(m, g)
    <3>1. /\ item'[n][g] = its[g] /\ its[g].status \in {"none", "pending"}
          /\ its[g].status = "pending" => ~its[g].cleaned
      BY <1>2, <2>3 DEF ItemTurns
    <3> QED
      BY <2>3, <3>1 DEF QuietItem, ItemOK, Planned
  <2>4. CASE n # m
    <3>1. item'[n][g] = item[n][g]
      BY <1>2, <2>4
    <3> QED
      BY <2>1, <3>1 DEF QuietItem, ItemOK, Planned
  <2> QED
    BY <2>2, <2>3, <2>4
<1>6. \A g \in Files : QuietAt(g)
  BY <1>5 DEF QuietAt
<1> QED
  BY <1>3, <1>4, <1>6, QuietStep

LEMMA MainStarts ==
    ASSUME MigInv, NEW m \in Migs, MainStart(m)
    PROVE  MigInv' /\ Preserved
<1> DEFINE its == [f \in Files |-> Prepared(m, f)]
           w == [f \in Files |->
                    IF item'[m][f].status \in {"none", "cleanup_pending", "cleaned", "deleted"}
                    THEN Idle ELSE [pc |-> "todo", left |-> {}]]
           r == [mig[m] EXCEPT !.status = "running", !.keep = FALSE, !.cleanup = NoJob,
                               !.canceled = FALSE]
<1>1. /\ MigShape /\ Main \in JobIds /\ mig[m] \in MigRow /\ mig \in [Migs -> MigRow]
      /\ item \in [Migs -> [Files -> ItemRow]]
  BY JobNames DEF MigInv, MigShape
<1>2. /\ item' = [item EXCEPT ![m] = its]
      /\ work' = [work EXCEPT ![m][Main] = w]
      /\ UNCHANGED <<file, store, encoding, keeping, deleter>>
  BY Zenon DEF MainStart
<1>3. mig' = [mig EXCEPT ![m] = r]
  <2>1. mig' = [mig EXCEPT ![m].status = "running", ![m].keep = FALSE,
                           ![m].cleanup = NoJob, ![m].canceled = FALSE]
    BY Zenon DEF MainStart
  <2> QED
    BY <1>1, <2>1
<1>4. r \in MigRow /\ r.src = mig[m].src /\ r.dst = mig[m].dst /\ r.status # "none"
  BY <1>1, StatusNames DEF MigRow
<1> HIDE DEF r
<1>5. /\ mig' \in [Migs -> MigRow]
      /\ \A n \in Migs : /\ mig'[n].src = mig[n].src /\ mig'[n].dst = mig[n].dst
                         /\ mig'[n].status = "none" => n # m /\ mig[n].status = "none"
  BY <1>1, <1>3, <1>4
<1>6. /\ its \in [Files -> ItemRow] /\ \A g \in Files : ItemTurns(m, g, its[g])
      /\ \A g \in Files : ~Planned(m, g) => its[g].status = "none"
  BY PreparedTurns DEF ItemTurns
<1>7. /\ w \in [Files -> WorkRow]
      /\ \A g \in Files : w[g].pc \in {"off", "todo"} /\ (w[g].pc = "todo" => Planned(m, g)')
  BY DEF Idle, WorkRow, Pcs, Planned
<1> HIDE DEF its, w
<1>8. work' \in Works /\ \A n \in Migs, j \in JobIds, g \in Files : QuietWork(n, j, g)
  BY <1>1, <1>2, <1>7, ResetWork DEF Touching
<1>9. \A g \in Files : its[g].status # "none" => mig'[m].src # mig'[m].dst
  BY <1>5, <1>6 DEF MigInv, Sound, ItemOK
<1> QED
  BY <1>2, <1>5, <1>6, <1>8, <1>9, ItemsStep

LEMMA StartSteps ==
    ASSUME MigInv, NEW m \in Migs, NEW src \in Mounts, NEW dst \in Mounts, NEW queued \in BOOLEAN,
           StartStorageMigration(m, src, dst, queued)
    PROVE  MigInv' /\ Preserved
<1> DEFINE its == [f \in Files |-> IF f \in Plan(src)
                       THEN [NoItem EXCEPT !.status = "pending", !.reserved = queued]
                       ELSE NoItem]
           x == IF queued THEN "queued" ELSE "failed"
<1>1. /\ MigShape /\ mig[m] \in MigRow /\ mig \in [Migs -> MigRow]
  BY DEF MigInv, MigShape
<1>2. /\ item' = [item EXCEPT ![m] = its]
      /\ mig' = [mig EXCEPT ![m].status = x, ![m].src = src, ![m].dst = dst]
      /\ mig[m].status = "none" /\ src # dst
      /\ UNCHANGED <<file, store, encoding, work, keeping, deleter>>
  BY Zenon DEF StartStorageMigration
<1>3. x \in MigStatuses \ {"none"}
  BY StatusNames
<1>4. /\ its \in [Files -> ItemRow]
      /\ \A g \in Files : its[g].status \in {"none", "pending"} /\ ~its[g].cleaned
  BY StatusNames DEF NoItem, ItemRow
<1> HIDE DEF its, x
<1>5. mig' = [mig EXCEPT ![m] = [mig[m] EXCEPT !.status = x, !.src = src, !.dst = dst]]
  BY <1>1, <1>2
<1>6. LET r == [mig[m] EXCEPT !.status = x, !.src = src, !.dst = dst]
      IN  r \in MigRow /\ r.src = src /\ r.dst = dst /\ r.status = x
  BY <1>1, <1>3 DEF MigRow
<1>7. /\ mig' \in [Migs -> MigRow] /\ mig'[m].src # mig'[m].dst /\ mig'[m].status # "none"
      /\ \A n \in Migs : n # m => mig'[n] = mig[n]
  BY <1>1, <1>2, <1>3, <1>5, <1>6
<1>8. \A g \in Files : ~Planned(m, g)
  BY <1>2 DEF MigInv, RowOK
<1>9. \A g \in Files : ItemTurns(m, g, its[g])
  BY <1>4, <1>8 DEF ItemTurns
<1>10. \A n \in Migs, g \in Files : Planned(n, g) =>
           mig'[n].src = mig[n].src /\ mig'[n].dst = mig[n].dst
  BY <1>7, <1>8
<1>11. \A n \in Migs : mig'[n].status = "none" =>
           mig[n].status = "none" /\ (n = m => \A g \in Files : its[g].status = "none")
  BY <1>7
<1>12. work' \in Works /\ \A n \in Migs, j \in JobIds, g \in Files : QuietWork(n, j, g)
  BY <1>1, <1>2, SameWork
<1> QED
  BY <1>2, <1>4, <1>7, <1>9, <1>10, <1>11, <1>12, ItemsStep

(* A handler's position in a file, and the row of an item, are written. *)
Moves(m, j, f, w) == work' = [work EXCEPT ![m][j][f] = w]
Writes(m, f, i) == item' = [item EXCEPT ![m][f] = i]

(* What a handler that finds the lock of a file free may take. *)
LEMMA LockTaken ==
    ASSUME MigInv, NEW m \in Migs, NEW j \in JobIds, NEW f \in Files, NEW w \in WorkRow,
           Moves(m, j, f, w), deleter' = deleter,
           \/ w.pc \notin Touching
           \/ w.pc = "copying" /\ ~WriteLocked(f)
           \/ Free(f)
    PROVE  LockOK(f)'
<1>1. /\ work \in Works /\ LockOK(f) /\ \A n \in Migs, k \in JobIds : WorkOK(n, k, f)
  BY DEF MigInv, MigShape, Works, Sound
<1>2. \A n \in Migs, k \in JobIds :
          Pc(n, k, f)' = IF n = m /\ k = j THEN w.pc ELSE Pc(n, k, f)
  BY <1>1 DEF Works, Pc, Moves
<1>3. ~WriteLocked(f) => /\ deleter[f] = {}
                         /\ \A n \in Migs, k \in JobIds : Pc(n, k, f) \notin {"final", "deleting"}
  BY DEF WriteLocked, Pc
<1>4. Free(f) => /\ ~WriteLocked(f)
                 /\ \A n \in Migs, k \in JobIds : Pc(n, k, f) \notin Touching
  <2>1. ASSUME Free(f), NEW n \in Migs, NEW k \in JobIds PROVE Pc(n, k, f) # "copying"
    BY <1>1, <2>1 DEF Free, ReadLocked, WorkOK, Pc
  <2> QED
    BY <1>3, <2>1 DEF Free, Touching
<1>5. CASE w.pc \notin Touching
  BY <1>1, <1>2, <1>5 DEF LockOK, Touching
<1>6. CASE w.pc = "copying" /\ ~WriteLocked(f)
  BY <1>1, <1>2, <1>3, <1>6 DEF LockOK, Touching
<1>7. CASE Free(f)
  BY <1>2, <1>3, <1>4, <1>7 DEF LockOK
<1> QED
  BY <1>5, <1>6, <1>7

(* A handler moves within a file whose objects stay as they are. *)
LEMMA PositionStep ==
    ASSUME MigInv, NEW m \in Migs, NEW j \in JobIds, NEW f \in Files, Planned(m, f),
           NEW i \in ItemRow, i.status # "none", Writes(m, f, i),
           item[m][f].owned => i.owned, i.cleaned = item[m][f].cleaned,
           NEW w \in WorkRow, Moves(m, j, f, w),
           UNCHANGED <<file, store, encoding, mig, keeping, deleter>>,
           ItemOK(m, f)', WorkOK(m, j, f)', LockOK(f)'
    PROVE  MigInv' /\ Preserved
<1>1. /\ MigShape /\ work \in Works /\ item \in [Migs -> [Files -> ItemRow]] /\ Sound(f)
  BY DEF MigInv, MigShape, Works
<1>2. \A n \in Migs, g \in Files : item'[n][g] = IF n = m /\ g = f THEN i ELSE item[n][g]
  BY <1>1 DEF Writes
<1>3. \A n \in Migs, k \in JobIds, g \in Files :
         work'[n][k][g] = IF n = m /\ k = j /\ g = f THEN w ELSE work[n][k][g]
  BY <1>1 DEF Works, Moves
<1>4. MigShape'
  <2>1. item' \in [Migs -> [Files -> ItemRow]]
    BY <1>1 DEF Writes
  <2>2. work' \in Works
    BY <1>1 DEF Works, Moves
  <2> QED
    BY <1>1, <2>1, <2>2 DEF MigShape, Works
<1>5. Elsewhere(m, j, f)
  BY <1>2, <1>3, <1>4 DEF Elsewhere
<1>6. \A n \in Migs : ItemOK(n, f)'
  <2>1. ASSUME NEW n \in Migs, n # m PROVE ItemOK(n, f)'
    <3>1. ItemOK(n, f) /\ item'[n][f] = item[n][f]
      BY <1>1, <1>2, <2>1 DEF Sound
    <3> QED
      BY <3>1 DEF ItemOK, Planned, Live
  <2> QED
    BY <2>1
<1>7. \A n \in Migs, k \in JobIds : WorkOK(n, k, f)'
  <2>1. ASSUME NEW n \in Migs, NEW k \in JobIds, n # m \/ k # j PROVE WorkOK(n, k, f)'
    <3>1. /\ WorkOK(n, k, f) /\ work'[n][k][f] = work[n][k][f]
          /\ item[n][f].owned => item'[n][f].owned
          /\ Planned(n, f) => Planned(n, f)'
      BY <1>1, <1>2, <1>3, <2>1 DEF Sound, Planned
    <3>2. /\ \A left : Copied(n, f, left)' <=> Copied(n, f, left)
          /\ Held(mig[n].src, f)' = Held(mig[n].src, f)
          /\ Held(mig[n].dst, f)' = Held(mig[n].dst, f)
      BY DEF Copied, Held
    <3>3. item[n][f].owned \in BOOLEAN /\ item'[n][f].owned \in BOOLEAN
      BY <1>1, <1>4 DEF MigShape, ItemRow
    <3> QED
      BY <3>1, <3>2, <3>3 DEF WorkOK, Pc, Live
  <2> QED
    BY <2>1
<1>8. DeleterOK(f)' /\ Covered(f)' /\ Returned(f)'
  <2>1. \A n \in Migs : Planned(n, f) => /\ Planned(n, f)'
                                         /\ item[n][f].owned => item'[n][f].owned
                                         /\ item'[n][f].cleaned => item[n][f].cleaned
    BY <1>2 DEF Planned
  <2>2. Copies(f) \subseteq Copies(f)' /\ Owned(f) \subseteq Owned(f)'
    BY <2>1, CopiesGrow, OwnedGrows
  <2>3. \A mt \in Mounts : Empty(mt, f)' <=> Empty(mt, f)
    BY SameMount
  <2>4. \A n \in Migs : Planned(n, f)' => Planned(n, f) /\ (item'[n][f].cleaned <=> item[n][f].cleaned)
    BY <1>2 DEF Planned
  <2>5. DeleterOK(f)' /\ Covered(f)'
    BY <1>1, <2>2, <2>3 DEF Sound, DeleterOK, Covered
  <2>6. Returned(f)'
    BY <1>1, <2>2, <2>4 DEF Sound, Returned, Live
  <2> QED
    BY <2>5, <2>6
<1>9. Sound(f)'
  BY <1>6, <1>7, <1>8 DEF Sound
<1>10. SeenSame(f)
  BY DEF SeenSame, Live
<1> QED
  BY <1>2, <1>4, <1>5, <1>9, <1>10, ElsewhereQuiet, OneFileStep

(* A cleanup or an abort takes the lock to delete what it finds. *)
LEMMA DeleteBegins ==
    ASSUME MigInv, NEW m \in Migs, NEW j \in JobIds \ {Main}, NEW f \in Files,
           Planned(m, f), Free(f), NEW i, QuietRecord(m, f, i), Writes(m, f, i),
           NEW mt, NEW at, Live(f) => file[f].at = at,
           \/ j = Cleanup /\ mt = mig[m].src /\ at = mig[m].dst
           \/ j # Cleanup /\ mt = mig[m].dst /\ at = mig[m].src,
           Moves(m, j, f, [pc |-> "deleting", left |-> Held(mt, f)]),
           UNCHANGED <<file, store, encoding, mig, keeping, deleter>>
    PROVE  MigInv' /\ Preserved
<1> DEFINE w == [pc |-> "deleting", left |-> Held(mt, f)]
<1>1. /\ work \in Works /\ item \in [Migs -> [Files -> ItemRow]] /\ ItemOK(m, f)
  BY DEF MigInv, MigShape, Works, Sound
<1>2. w \in WorkRow /\ w.pc = "deleting" /\ w.left = Held(mt, f)
  BY DEF WorkRow, Pcs, Held
<1> HIDE DEF w
<1>3. Moves(m, j, f, w)
  BY DEF w
<1>4. work'[m][j][f] = w /\ item'[m][f] = i /\ Held(mt, f)' = Held(mt, f)
  BY <1>1, <1>3 DEF Works, Held, Moves, Writes
<1>5. ItemOK(m, f)' /\ Planned(m, f)'
  BY <1>1, <1>4 DEF ItemOK, Planned, QuietRecord, Live
<1>6. WorkOK(m, j, f)'
  BY <1>2, <1>4, <1>5 DEF WorkOK, Pc, Live, Touching
<1>7. LockOK(f)'
  <2>1. j \in JobIds /\ deleter' = deleter /\ w \in WorkRow
    BY <1>2
  <2> QED
    BY <1>3, <2>1, LockTaken, Zenon
<1>8. /\ i \in ItemRow /\ i.status # "none" /\ i.cleaned = item[m][f].cleaned
      /\ item[m][f].owned => i.owned
  BY DEF QuietRecord
<1> QED
  BY <1>2, <1>3, <1>5, <1>6, <1>7, <1>8, PositionStep

LEMMA CleanupItems ==
    ASSUME MigInv, NEW m \in Migs, NEW f \in Files, CleanupItem(m, f)
    PROVE  MigInv' /\ Preserved
<1> DEFINE i == item[m][f]
<1>0. /\ Cleanup \in JobIds \ {Main} /\ {"done", "error", "wait"} \subseteq Pcs \ Touching
  BY JobNames DEF Pcs, Touching
<1>1. /\ work[m][Cleanup][f].pc = "todo" /\ Free(f)
      /\ UNCHANGED <<file, store, encoding, mig, keeping, deleter>>
  BY Zenon DEF CleanupItem, At
<1>2. Planned(m, f)
  BY <1>0, <1>1, WorkedPlanned
<1>3. QuietRecord(m, f, item[m][f]) /\ (UNCHANGED item => item' = [item EXCEPT ![m][f] = item[m][f]])
  BY <1>2, SameRecord
<1>4. CASE \/ i.status \in Untouchable
           \/ file[f].row # "gone" /\ file[f].at # mig[m].dst
  <2>1. UNCHANGED item /\ (Goto(m, Cleanup, f, "done") \/ Goto(m, Cleanup, f, "error"))
    BY <1>4, Zenon DEF CleanupItem
  <2> QED
    BY <1>0, <1>1, <1>2, <1>3, <2>1, LeavesItem
<1>5. CASE /\ i.status \notin Untouchable
           /\ file[f].row # "gone" /\ file[f].at = mig[m].dst /\ f \in encoding
  <2>1. /\ item' = [item EXCEPT ![m][f].status = "cleanup_pending"]
        /\ Goto(m, Cleanup, f, "wait")
    BY <1>5, Zenon DEF CleanupItem
  <2> QED
    BY <1>0, <1>1, <1>2, <2>1, OpenNames, StatusRecord, LeavesItem
<1>6. CASE /\ i.status \notin Untouchable
           /\ file[f].row = "gone" \/ (file[f].at = mig[m].dst /\ f \notin encoding)
  <2>1. /\ item' = [item EXCEPT ![m][f].status = "cleaning"]
        /\ work' = [work EXCEPT ![m][Cleanup][f] =
                       [pc |-> "deleting", left |-> Held(mig[m].src, f)]]
    BY <1>6, Zenon DEF CleanupItem
  <2>2. Live(f) => file[f].at = mig[m].dst
    BY <1>6 DEF Live
  <2>3. QuietRecord(m, f, WithStatus(m, f, "cleaning"))
        /\ Writes(m, f, WithStatus(m, f, "cleaning"))
    <3>1. QuietRecord(m, f, WithStatus(m, f, "cleaning"))
      BY OpenNames, StatusRecord
    <3>2. Writes(m, f, WithStatus(m, f, "cleaning"))
      BY <2>1, Zenon DEF Writes, WithStatus
    <3> QED
      BY <3>1, <3>2
  <2>4. Moves(m, Cleanup, f, [pc |-> "deleting", left |-> Held(mig[m].src, f)])
    BY <2>1, Zenon DEF Moves
  <2> QED
    BY <1>0, <1>1, <1>2, <2>2, <2>3, <2>4, DeleteBegins
<1> QED
  BY <1>4, <1>5, <1>6

LEMMA AbortItems ==
    ASSUME MigInv, NEW m \in Migs, NEW g \in 1..MaxGen, NEW f \in Files, AbortItem(m, g, f)
    PROVE  MigInv' /\ Preserved
<1> DEFINE i == item[m][f]
           kept == Live(f) /\ file[f].at = mig[m].dst /\ i.cutover
           strayed == Live(f) /\ ~kept /\ file[f].at # mig[m].src
<1>0. /\ Abort(g) \in JobIds \ {Main} /\ Abort(g) # Cleanup
      /\ {"done", "error"} \subseteq Pcs \ Touching
      /\ i \in ItemRow
  BY JobNames DEF Pcs, Touching, MigInv, MigShape
<1>1. /\ work[m][Abort(g)][f].pc = "todo" /\ Free(f)
      /\ UNCHANGED <<file, store, encoding, mig, keeping, deleter>>
  BY Zenon DEF AbortItem, At
<1>2. Planned(m, f)
  BY <1>0, <1>1, WorkedPlanned
<1>3. QuietRecord(m, f, item[m][f]) /\ (UNCHANGED item => item' = [item EXCEPT ![m][f] = item[m][f]])
  BY <1>2, SameRecord
<1>4. \/ /\ i.status = "deleted"
         /\ Goto(m, Abort(g), f, "done") /\ UNCHANGED item
      \/ /\ item' = [item EXCEPT ![m][f].status = "original_kept", ![m][f].reserved = FALSE]
         /\ Goto(m, Abort(g), f, "done")
      \/ Goto(m, Abort(g), f, "error") /\ UNCHANGED item
      \/ /\ ~kept /\ ~strayed
         /\ work' = [work EXCEPT ![m][Abort(g)][f] =
                        [pc |-> "deleting", left |-> Held(mig[m].dst, f)]]
         /\ UNCHANGED item
      \/ /\ ~i.owned /\ item' = [item EXCEPT ![m][f] = Canceled(i)]
         /\ Goto(m, Abort(g), f, "done")
  BY Zenon DEF AbortItem
<1>5. CASE UNCHANGED item /\ (Goto(m, Abort(g), f, "done") \/ Goto(m, Abort(g), f, "error"))
  BY <1>0, <1>1, <1>2, <1>3, <1>5, LeavesItem
<1>6. CASE /\ item' = [item EXCEPT ![m][f].status = "original_kept", ![m][f].reserved = FALSE]
           /\ Goto(m, Abort(g), f, "done")
  <2>1. /\ QuietRecord(m, f, Released(m, f, "original_kept"))
        /\ item' = [item EXCEPT ![m][f] = Released(m, f, "original_kept")]
    <3>1. QuietRecord(m, f, Released(m, f, "original_kept"))
      BY OpenNames, ReleasedRecord
    <3>2. item \in [Migs -> [Files -> ItemRow]] /\ item[m][f] \in ItemRow
      BY DEF MigInv, MigShape
    <3>3. item' = [item EXCEPT ![m][f].status = "original_kept", ![m][f].reserved = FALSE]
      BY <1>6, Zenon
    <3>4. item' = [item EXCEPT ![m][f] = Released(m, f, "original_kept")]
      BY <3>2, <3>3 DEF Released, ItemRow
    <3> QED
      BY <3>1, <3>4, Zenon
  <2> QED
    BY <1>0, <1>1, <1>2, <1>6, <2>1, LeavesItem
<1>7. CASE /\ ~kept /\ ~strayed
           /\ work' = [work EXCEPT ![m][Abort(g)][f] =
                          [pc |-> "deleting", left |-> Held(mig[m].dst, f)]]
           /\ UNCHANGED item
  <2>1. Live(f) => file[f].at = mig[m].src
    BY <1>7
  <2>2. Moves(m, Abort(g), f, [pc |-> "deleting", left |-> Held(mig[m].dst, f)])
    BY <1>7, Zenon DEF Moves
  <2>3. Writes(m, f, item[m][f])
    BY <1>3, <1>7 DEF Writes
  <2>4. Abort(g) \in JobIds \ {Main} /\ Abort(g) # Cleanup /\ QuietRecord(m, f, item[m][f])
    BY <1>0, <1>3
  <2> HIDE DEF kept, strayed, i
  <2> QED
    BY <1>1, <1>2, <2>1, <2>2, <2>3, <2>4, DeleteBegins
<1>8. CASE /\ ~i.owned /\ item' = [item EXCEPT ![m][f] = Canceled(i)]
           /\ Goto(m, Abort(g), f, "done")
  <2>1. QuietRecord(m, f, Canceled(i))
    BY <1>0, <1>8, StatusNames DEF QuietRecord, Canceled, ItemRow
  <2> QED
    BY <1>0, <1>1, <1>2, <1>8, <2>1, LeavesItem
<1> HIDE DEF kept, strayed
<1> QED
  BY <1>4, <1>5, <1>6, <1>7, <1>8
-----------------------------------------------------------------------------
(* Steps that write the objects of a file, or end such a phase.            *)

Puts(mt, f, s) == store' = [store EXCEPT ![mt][f] = s]
Lies(f, a) == file' = [file EXCEPT ![f].at = a]

LEMMA Unmoved ==
    ASSUME MigShape, NEW f \in Files
    PROVE  /\ UNCHANGED file => Lies(f, file[f].at)
           /\ UNCHANGED store => \A mt \in Mounts : Puts(mt, f, store[mt][f])
           /\ UNCHANGED item => \A m \in Migs : Writes(m, f, item[m][f])
           /\ file[f].at \in Mounts /\ \A mt \in Mounts : store[mt][f] \in Versions
BY DEF MigShape, Lies, Puts, Writes

(* One handler's step in a file, written out for that file. *)
LEMMA Written ==
    ASSUME MigShape, NEW m \in Migs, NEW j \in JobIds, NEW f \in Files,
           NEW i, Writes(m, f, i), NEW w, Moves(m, j, f, w),
           NEW mt \in Mounts, NEW s, Puts(mt, f, s), NEW a, Lies(f, a), UNCHANGED mig
    PROVE  /\ \A n \in Migs, g \in Files : item'[n][g] = IF n = m /\ g = f THEN i ELSE item[n][g]
           /\ \A n \in Migs, k \in JobIds, g \in Files :
                  work'[n][k][g] = IF n = m /\ k = j /\ g = f THEN w ELSE work[n][k][g]
           /\ \A n \in Mounts, g \in Files :
                  store'[n][g] = IF n = mt /\ g = f THEN s ELSE store[n][g]
           /\ \A g \in Files : g # f => file'[g] = file[g]
           /\ file'[f].at = a /\ file'[f].row = file[f].row /\ (Live(f)' <=> Live(f))
<1>1. item \in [Migs -> [Files -> ItemRow]] /\ work \in Works
      /\ store \in [Mounts -> [Files -> Versions]]
      /\ file \in [Files -> [row : {"live", "deleted", "gone"}, at : Mounts]]
  BY DEF MigShape, Works
<1>2. \A n \in Migs, g \in Files : item'[n][g] = IF n = m /\ g = f THEN i ELSE item[n][g]
  BY <1>1 DEF Writes
<1>3. \A n \in Migs, k \in JobIds, g \in Files :
          work'[n][k][g] = IF n = m /\ k = j /\ g = f THEN w ELSE work[n][k][g]
  BY <1>1 DEF Moves, Works
<1>4. \A n \in Mounts, g \in Files : store'[n][g] = IF n = mt /\ g = f THEN s ELSE store[n][g]
  BY <1>1 DEF Puts
<1>5. /\ \A g \in Files : g # f => file'[g] = file[g]
      /\ file'[f].at = a /\ file'[f].row = file[f].row
  BY <1>1 DEF Lies
<1> QED
  BY <1>2, <1>3, <1>4, <1>5 DEF Live

LEMMA WrittenShape ==
    ASSUME MigShape, NEW m \in Migs, NEW j \in JobIds, NEW f \in Files,
           NEW i \in ItemRow, Writes(m, f, i), NEW w \in WorkRow, Moves(m, j, f, w),
           NEW mt \in Mounts, NEW s \in Versions, Puts(mt, f, s), NEW a \in Mounts, Lies(f, a),
           UNCHANGED <<encoding, mig, keeping, deleter>>
    PROVE  MigShape'
<1>1. item' \in [Migs -> [Files -> ItemRow]]
  BY DEF MigShape, Writes
<1>2. work' \in Works
  BY DEF MigShape, Works, Moves
<1>3. store' \in [Mounts -> [Files -> Versions]]
  BY DEF MigShape, Puts
<1>4. file' \in [Files -> [row : {"live", "deleted", "gone"}, at : Mounts]]
  <2>1. /\ file \in [Files -> [row : {"live", "deleted", "gone"}, at : Mounts]]
        /\ file[f] \in [row : {"live", "deleted", "gone"}, at : Mounts]
    BY DEF MigShape
  <2>3. [file[f] EXCEPT !.at = a] \in [row : {"live", "deleted", "gone"}, at : Mounts]
    BY <2>1
  <2>2. file' = [file EXCEPT ![f] = [file[f] EXCEPT !.at = a]]
    BY Zenon DEF Lies
  <2> QED
    BY <2>1, <2>2, <2>3
<1> QED
  BY <1>1, <1>2, <1>3, <1>4 DEF MigShape, Works

(* Nobody else works on the file, or they only read and nothing they rely  *)
(* on is written.                                                          *)
Alone(m, j, f) ==
    /\ deleter[f] = {}
    /\ \A n \in Migs, k \in JobIds : n # m \/ k # j =>
           \/ Pc(n, k, f) \notin Touching
           \/ Pc(n, k, f) = "copying" /\ UNCHANGED <<file, item>>

LEMMA AloneStep ==
    ASSUME MigInv, NEW m \in Migs, NEW j \in JobIds, NEW f \in Files, Planned(m, f),
           NEW i \in ItemRow, i.status # "none", Writes(m, f, i),
           NEW w \in WorkRow, Moves(m, j, f, w), w.pc = Pc(m, j, f) \/ w.pc \notin Touching,
           NEW mt \in Mounts, NEW s \in Versions, Puts(mt, f, s), NEW a \in Mounts, Lies(f, a),
           UNCHANGED <<encoding, mig, keeping, deleter>>, Alone(m, j, f),
           ItemOK(m, f)', WorkOK(m, j, f)', Covered(f)', Returned(f)'
    PROVE  MigInv' /\ (SeenSame(f) => Preserved)
<1>1. MigShape /\ Sound(f)
  BY DEF MigInv
<1>2. UNCHANGED mig /\ UNCHANGED encoding /\ UNCHANGED keeping /\ UNCHANGED deleter
  OBVIOUS
<1>3. MigShape'
  BY <1>1, WrittenShape
<1>4. /\ \A n \in Migs, g \in Files : item'[n][g] = IF n = m /\ g = f THEN i ELSE item[n][g]
      /\ \A n \in Migs, k \in JobIds, g \in Files :
             work'[n][k][g] = IF n = m /\ k = j /\ g = f THEN w ELSE work[n][k][g]
      /\ \A n \in Mounts, g \in Files :
             store'[n][g] = IF n = mt /\ g = f THEN s ELSE store[n][g]
      /\ \A g \in Files : g # f => file'[g] = file[g]
      /\ file'[f].at = a /\ file'[f].row = file[f].row /\ (Live(f)' <=> Live(f))
  BY <1>1, <1>2, Written
<1>5. Elsewhere(m, j, f)
  BY <1>2, <1>3, <1>4 DEF Elsewhere
<1>6. \A n \in Migs : ItemOK(n, f)'
  <2>1. ASSUME NEW n \in Migs, n # m PROVE ItemOK(n, f)'
    <3>1. ItemOK(n, f) /\ item'[n][f] = item[n][f]
      BY <1>1, <1>4, <2>1 DEF Sound
    <3> QED
      BY <1>2, <1>4, <3>1 DEF ItemOK, Planned
  <2> QED
    BY <2>1
<1>7. \A n \in Migs, k \in JobIds : WorkOK(n, k, f)'
  <2>1. ASSUME NEW n \in Migs, NEW k \in JobIds, n # m \/ k # j PROVE WorkOK(n, k, f)'
    <3>1. /\ WorkOK(n, k, f) /\ Pc(n, k, f)' = Pc(n, k, f)
          /\ Planned(n, f) => Planned(n, f)'
      BY <1>1, <1>4, <2>1 DEF Sound, Planned, Pc
    <3>2. CASE Pc(n, k, f) \notin Touching
      BY <3>1, <3>2 DEF WorkOK, Touching
    <3>3. CASE Pc(n, k, f) = "copying" /\ UNCHANGED <<file, item>>
      BY <1>2, <1>4, <3>1, <3>3 DEF WorkOK
    <3> QED
      BY <2>1, <3>2, <3>3 DEF Alone
  <2> QED
    BY <2>1
<1>8. LockOK(f)'
  <2>1. /\ deleter'[f] = {}
        /\ \A n \in Migs, k \in JobIds :
               Pc(n, k, f)' = Pc(n, k, f) \/ Pc(n, k, f)' \notin Touching
    BY <1>2, <1>4 DEF Alone, Pc
  <2> QED
    BY <1>1, <2>1 DEF Sound, LockOK, Touching
<1>9. DeleterOK(f)'
  BY <1>2 DEF Alone, DeleterOK
<1>10. Sound(f)'
  BY <1>6, <1>7, <1>8, <1>9 DEF Sound
<1>11. item'[m][f].status # "none"
  BY <1>4
<1> QED
  BY <1>3, <1>5, <1>10, <1>11, ElsewhereQuiet, OneFileStep

(* A writer is alone, and so is everyone while the lock is free. *)
LEMMA WriterAlone ==
    ASSUME MigInv, NEW m \in Migs, NEW j \in JobIds, NEW f \in Files
    PROVE  /\ Pc(m, j, f) \in {"final", "deleting"} => Alone(m, j, f)
           /\ ~WriteLocked(f) /\ ~Live(f) => Alone(m, j, f)
           /\ Pc(m, j, f) = "copying" /\ UNCHANGED <<file, item>> => Alone(m, j, f)
<1>1. LockOK(f) /\ \A n \in Migs, k \in JobIds : WorkOK(n, k, f)
  BY DEF MigInv, Sound
<1>2. Pc(m, j, f) \in {"final", "deleting"} => Alone(m, j, f)
  BY <1>1 DEF LockOK, Alone, Touching
<1>3. ~WriteLocked(f) /\ ~Live(f) => Alone(m, j, f)
  BY <1>1 DEF WorkOK, Alone, Touching, WriteLocked, Pc
<1>4. Pc(m, j, f) = "copying" /\ UNCHANGED <<file, item>> => Alone(m, j, f)
  BY <1>1 DEF LockOK, Alone, Touching
<1> QED
  BY <1>2, <1>3, <1>4

LEMMA CopiesHold ==
    ASSUME NEW f \in Files, NEW m \in Migs, Planned(m, f)
    PROVE  /\ item[m][f].owned => mig[m].dst \in Copies(f) /\ mig[m].dst \in Owned(f)
           /\ ~item[m][f].cleaned => mig[m].src \in Copies(f)
           /\ Owned(f) \subseteq Copies(f) /\ file[f].at \in Copies(f)
BY DEF Copies, Owned, Items, Planned

LEMMA CopyObjects ==
    ASSUME MigInv, NEW m \in Migs, NEW f \in Files, NEW o \in Objs, CopyObject(m, f, o)
    PROVE  MigInv' /\ Preserved
<1> DEFINE src == mig[m].src
           dst == mig[m].dst
           w == [work[m][Main][f] EXCEPT !.left = @ \ {o}]
           s == [store[dst][f] EXCEPT ![o] = store[src][f][o]]
<1>1. /\ MigShape /\ Sound(f) /\ Main \in JobIds /\ work[m][Main][f] \in WorkRow
      /\ src \in Mounts /\ dst \in Mounts
      /\ store \in [Mounts -> [Files -> Versions]] /\ item[m][f] \in ItemRow
  BY JobNames DEF MigInv, MigShape, MigRow
<1>2. /\ Pc(m, Main, f) \in {"copying", "final"} /\ o \in work[m][Main][f].left
      /\ store' = [store EXCEPT ![dst][f][o] = store[src][f][o]]
      /\ work' = [work EXCEPT ![m][Main][f].left = @ \ {o}]
      /\ UNCHANGED <<file, encoding, mig, item, keeping, deleter>>
  BY Zenon DEF CopyObject, Pc
<1>3. /\ Planned(m, f) /\ Live(f) /\ file[f].at = src /\ item[m][f].owned /\ src # dst
      /\ Pc(m, Main, f) = "final" => Copied(m, f, work[m][Main][f].left)
  BY <1>1, <1>2 DEF Sound, WorkOK, ItemOK
<1>4. /\ w \in WorkRow /\ w.pc = Pc(m, Main, f) /\ w.left = work[m][Main][f].left \ {o}
      /\ Moves(m, Main, f, w)
  BY <1>1, <1>2 DEF WorkRow, Pc, Moves
<1>5. /\ s \in Versions /\ s[o] = store[src][f][o]
      /\ \A p \in Objs : p # o => s[p] = store[dst][f][p]
  BY <1>1 DEF Versions
<1>6. Puts(dst, f, s)
  BY <1>2, Zenon DEF Puts
<1> HIDE DEF s, w
<1>7. Writes(m, f, item[m][f]) /\ Lies(f, src) /\ UNCHANGED mig
  BY <1>1, <1>2, <1>3, Unmoved
<1>8. /\ \A n \in Migs, k \in JobIds, g \in Files :
             work'[n][k][g] = IF n = m /\ k = Main /\ g = f THEN w ELSE work[n][k][g]
      /\ \A n \in Mounts, g \in Files :
             store'[n][g] = IF n = dst /\ g = f THEN s ELSE store[n][g]
  <2>1. \A n \in Migs, k \in JobIds, g \in Files :
            work'[n][k][g] = IF n = m /\ k = Main /\ g = f THEN w ELSE work[n][k][g]
    BY <1>1, <1>4 DEF Moves, MigShape
  <2>2. \A n \in Mounts, g \in Files :
            store'[n][g] = IF n = dst /\ g = f THEN s ELSE store[n][g]
    BY <1>1, <1>6 DEF Puts
  <2> QED
    BY <2>1, <2>2
<1>9. UNCHANGED <<file, item, mig>>
  BY <1>2
<1>10. Alone(m, Main, f)
  BY <1>1, <1>2, <1>9, WriterAlone
<1>11. ItemOK(m, f)'
  BY <1>1, <1>9 DEF Sound, ItemOK, Planned, Live
<1>12. WorkOK(m, Main, f)'
  <2>1. Planned(m, f)' /\ (Live(f)' <=> Live(f)) /\ Pc(m, Main, f)' = Pc(m, Main, f)
        /\ work'[m][Main][f] = w
    BY <1>1, <1>4, <1>8, <1>9, <1>3 DEF Planned, Live, Pc
  <2>2. Pc(m, Main, f) = "final" => Copied(m, f, work[m][Main][f].left)'
    <3>1. store'[src][f] = store[src][f] /\ store'[dst][f] = s
      BY <1>1, <1>3, <1>8
    <3>2. Pc(m, Main, f) = "final" =>
              \A p \in Objs \ w.left : store[src][f][p] \in {0, s[p]}
      BY <1>3, <1>4, <1>5 DEF Copied
    <3> QED
      BY <1>9, <2>1, <3>1, <3>2 DEF Copied
  <2> QED
    BY <1>2, <1>3, <1>9, <2>1, <2>2 DEF WorkOK
<1>13. Covered(f)' /\ Returned(f)'
  <2>1. Copies(f)' = Copies(f) /\ Owned(f)' = Owned(f)
    BY <1>9 DEF Copies, Owned, Items
  <2>2. \A n \in Mounts : n # dst => Held(n, f)' = Held(n, f)
    BY <1>8 DEF Held
  <2>3. dst \in Copies(f)
    BY <1>3, CopiesHold
  <2>4. Covered(f)'
    BY <1>1, <1>3, <1>9, <2>1, <2>2, <2>3 DEF Sound, Covered, Empty, Live
  <2>5. Returned(f)'
    BY <1>1, <1>9, <2>1 DEF Sound, Returned, Planned, Live
  <2> QED
    BY <2>4, <2>5
<1>14. SeenSame(f)
  BY <1>1, <1>3, <1>8, <1>9 DEF SeenSame, Live
<1>15. item[m][f].status # "none" /\ UNCHANGED <<encoding, mig, keeping, deleter>>
  BY <1>2, <1>3 DEF Planned
<1> HIDE DEF src, dst
<1> QED
  BY <1>1, <1>3, <1>4, <1>5, <1>6, <1>7, <1>10, <1>11, <1>12, <1>13, <1>14, <1>15, AloneStep

LEMMA CopyBegins ==
    ASSUME MigInv, NEW m \in Migs, NEW f \in Files, NEW p \in {"copying", "final"},
           NEW x \in {"copying", "verifying"}, BeginCopy(m, f, p, x), Planned(m, f), Live(f),
           Free(f) \/ (p = "copying" /\ ~WriteLocked(f)),
           UNCHANGED <<file, encoding, mig, keeping, deleter>>
    PROVE  MigInv' /\ Preserved
<1> DEFINE mine == item[m][f].owned \/ Empty(mig[m].dst, f)
           sound == /\ file[f].at = mig[m].src /\ mine /\ ~Empty(mig[m].src, f)
           y == IF sound THEN x ELSE "failed"
           b == item[m][f].owned \/ (file[f].at = mig[m].src /\ mine)
           i == [item[m][f] EXCEPT !.status = y, !.owned = b]
           w == IF sound THEN [pc |-> p, left |-> Held(mig[m].src, f)]
                ELSE [pc |-> IF file[f].at = mig[m].src /\ mine THEN "error" ELSE "conflict",
                      left |-> {}]
<1>1. /\ MigShape /\ Main \in JobIds /\ ItemOK(m, f) /\ item[m][f] \in ItemRow
      /\ item \in [Migs -> [Files -> ItemRow]] /\ work \in Works
      /\ store \in [Mounts -> [Files -> Versions]] /\ mig[m].src \in Mounts
  BY JobNames DEF MigInv, MigShape, Sound, Works, MigRow
<1>2. /\ item' = [item EXCEPT ![m][f].status = y, ![m][f].owned = b]
      /\ work' = [work EXCEPT ![m][Main][f] = w]
      /\ UNCHANGED store
  <2>1. /\ item' = [item EXCEPT ![m][f].status = y,
                                ![m][f].owned = @ \/ (file[f].at = mig[m].src /\ mine)]
        /\ work' = [work EXCEPT ![m][Main][f] = w]
        /\ UNCHANGED store
    BY Zenon DEF BeginCopy
  <2> HIDE DEF mine, y, w
  <2> QED
    BY <1>1, <2>1 DEF ItemRow
<1>3. y \in OpenStatuses /\ b \in BOOLEAN
  BY <1>1, OpenNames DEF ItemRow
<1>4. w \in WorkRow /\ (sound => w.pc = p /\ w.left = Held(mig[m].src, f))
      /\ (~sound => w.pc \in {"error", "conflict"})
  BY DEF WorkRow, Pcs, Held
<1>5. item[m][f].owned => b
  OBVIOUS
<1>6. sound => b /\ file[f].at = mig[m].src
  OBVIOUS
<1> HIDE DEF mine, sound, y, b, w
<1>7. /\ i \in ItemRow /\ i.status = y /\ i.owned = b /\ i.cleaned = item[m][f].cleaned
      /\ i.status \notin {"none", "canceled", "deleted"}
  BY <1>1, <1>3 DEF ItemRow, OpenStatuses
<1>8. Writes(m, f, i)
  BY <1>1, <1>2, <1>3 DEF Writes, ItemRow
<1>9. Moves(m, Main, f, w)
  BY <1>2, Zenon DEF Moves
<1> HIDE DEF i
<1>10. item'[m][f] = i /\ work'[m][Main][f] = w
  BY <1>1, <1>8, <1>9 DEF Writes, Moves, Works
<1>11. ItemOK(m, f)' /\ Planned(m, f)'
  BY <1>1, <1>7, <1>10 DEF ItemOK, Planned
<1>12. WorkOK(m, Main, f)'
  <2>1. CASE sound
    <3>1. /\ Pc(m, Main, f)' = p /\ work'[m][Main][f].left = Held(mig[m].src, f)
          /\ Live(f)' /\ file'[f].at = mig'[m].src /\ item'[m][f].owned
      BY <1>4, <1>6, <1>7, <1>10, <2>1 DEF Pc, Live
    <3>2. Copied(m, f, work[m][Main][f].left)'
      <4>1. \A o \in Objs \ Held(mig[m].src, f) : store[mig[m].src][f][o] = 0
        BY <1>1 DEF Held, Versions
      <4> QED
        BY <1>2, <3>1, <4>1 DEF Copied
    <3> QED
      BY <1>11, <3>1, <3>2 DEF WorkOK
  <2>2. CASE ~sound
    <3>1. Pc(m, Main, f)' \in {"error", "conflict"}
      BY <1>4, <1>10, <2>2 DEF Pc
    <3> QED
      BY <1>11, <3>1 DEF WorkOK
  <2> QED
    BY <2>1, <2>2
<1>13. LockOK(f)'
  <2>1. \/ w.pc \notin Touching
        \/ w.pc = "copying" /\ ~WriteLocked(f)
        \/ Free(f)
    BY <1>4 DEF Touching
  <2>2. deleter' = deleter
    OBVIOUS
  <2> QED
    BY <1>1, <1>4, <1>9, <2>1, <2>2, LockTaken, Zenon
<1> QED
  BY <1>1, <1>2, <1>4, <1>5, <1>7, <1>8, <1>9, <1>11, <1>12, <1>13, PositionStep

LEMMA DestinationDropped ==
    ASSUME MigInv, NEW m \in Migs, NEW f \in Files, NEW wrote \in BOOLEAN,
           DropDestination(m, f, wrote), Goto(m, Main, f, "done"), Planned(m, f),
           ~Live(f), ~WriteLocked(f), UNCHANGED <<file, encoding, mig, keeping, deleter>>
    PROVE  MigInv' /\ Preserved
<1>1. /\ MigShape /\ Sound(f) /\ Main \in JobIds /\ item[m][f] \in ItemRow
      /\ item \in [Migs -> [Files -> ItemRow]] /\ mig[m].dst \in Mounts /\ work \in Works
      /\ store \in [Mounts -> [Files -> Versions]] /\ "done" \in Pcs \ Touching
  BY JobNames DEF MigInv, MigShape, MigRow, Works, Pcs, Touching
<1>2. CASE ~(item[m][f].owned \/ wrote)
  <2>1. UNCHANGED store /\ item' = [item EXCEPT ![m][f].status = "deleted"]
    BY <1>2, Zenon DEF DropDestination
  <2>2. item' = [item EXCEPT ![m][f] = WithStatus(m, f, "deleted")]
    BY <2>1, Zenon DEF WithStatus
  <2>3. QuietRecord(m, f, WithStatus(m, f, "deleted"))
    BY <1>1, StatusNames DEF QuietRecord, WithStatus, ItemRow
  <2> QED
    BY <1>1, <2>1, <2>2, <2>3, LeavesItem
<1>3. CASE item[m][f].owned \/ wrote
  <2> DEFINE i == [item[m][f] EXCEPT !.status = "deleted", !.owned = FALSE]
             w == [pc |-> "done", left |-> {}]
             dst == mig[m].dst
  <2>1. /\ store' = [store EXCEPT ![dst][f] = NoObjects]
        /\ item' = [item EXCEPT ![m][f].status = "deleted", ![m][f].owned = FALSE]
        /\ work' = [work EXCEPT ![m][Main][f] = w]
    BY <1>3, Zenon DEF DropDestination, Goto
  <2>2. /\ i \in ItemRow /\ i.status = "deleted" /\ ~i.owned /\ i.cleaned = item[m][f].cleaned
    BY <1>1, StatusNames DEF ItemRow
  <2>3. Writes(m, f, i) /\ Moves(m, Main, f, w) /\ Puts(dst, f, NoObjects)
    BY <1>1, <2>1 DEF Writes, Moves, Puts, ItemRow
  <2>4. Lies(f, file[f].at) /\ file[f].at \in Mounts
    BY <1>1, Unmoved
  <2>5. w \in WorkRow /\ w.pc = "done" /\ NoObjects \in Versions
    BY DEF WorkRow, Pcs, NoObjects, Versions
  <2> HIDE DEF i, w
  <2>6. /\ item'[m][f] = i /\ work'[m][Main][f] = w
        /\ \A n \in Migs : n # m => item'[n][f] = item[n][f]
        /\ \A mt \in Mounts : store'[mt][f] = IF mt = dst THEN NoObjects ELSE store[mt][f]
    BY <1>1, <2>3 DEF Writes, Moves, Puts, Works
  <2>7. Alone(m, Main, f)
    BY <1>1, WriterAlone
  <2>8. ItemOK(m, f)' /\ Planned(m, f)'
    BY <1>1, <2>2, <2>6 DEF Sound, ItemOK, Planned, Live
  <2>9. WorkOK(m, Main, f)'
    BY <2>5, <2>6, <2>8 DEF WorkOK, Pc
  <2>10. Covered(f)'
    <3>1. \A mt \in Mounts : ~Empty(mt, f)' => mt # dst /\ ~Empty(mt, f)
      BY <2>6 DEF Empty, Held, NoObjects
    <3>2. \A mt \in Mounts : mt \in Copies(f) /\ mt # dst => mt \in Copies(f)'
      BY <2>2, <2>6, <2>8 DEF Copies, Items, Planned
    <3> QED
      BY <1>1, <3>1, <3>2 DEF Sound, Covered
  <2>11. Returned(f)'
    BY DEF Returned, Live
  <2>12. SeenSame(f)
    BY DEF SeenSame, Live
  <2> HIDE DEF dst
  <2>13. dst \in Mounts /\ i.status # "none" /\ w.pc \notin Touching
    BY <1>1, <2>2, <2>5 DEF Touching, dst
  <2> QED
    BY <1>1, <2>2, <2>3, <2>4, <2>5, <2>7, <2>8, <2>9, <2>10, <2>11, <2>12, <2>13, AloneStep
<1> QED
  BY <1>2, <1>3

LEMMA CopyStarts ==
    ASSUME MigInv, NEW m \in Migs, NEW f \in Files, ItemStart(m, f) \/ FinalStart(m, f)
    PROVE  MigInv' /\ Preserved
<1>1. Main \in JobIds /\ "done" \in Pcs \ Touching
  BY JobNames DEF Pcs, Touching
<1>2. /\ work[m][Main][f].pc \notin {"off", "link"}
      /\ UNCHANGED <<file, encoding, mig, keeping, deleter>>
  BY DEF ItemStart, FinalStart, At
<1>3. Planned(m, f)
  BY <1>1, <1>2, WorkedPlanned
<1>4. item[m][f].status = "deleted" => ~Live(f)
  BY DEF MigInv, Sound, ItemOK
<1>5. CASE ItemStart(m, f)
  <2>1. /\ ~WriteLocked(f)
        /\ \/ Goto(m, Main, f, "done") /\ UNCHANGED <<item, store>>
           \/ /\ ~Live(f) /\ DropDestination(m, f, FALSE) /\ Goto(m, Main, f, "done")
           \/ Live(f) /\ BeginCopy(m, f, "copying", "copying")
    BY <1>5, Zenon DEF ItemStart
  <2>2. CASE Goto(m, Main, f, "done") /\ UNCHANGED <<item, store>>
    BY <1>1, <1>2, <1>3, <2>2, SameRecord, LeavesItem
  <2>3. CASE ~Live(f) /\ DropDestination(m, f, FALSE) /\ Goto(m, Main, f, "done")
    BY <1>2, <1>3, <2>1, <2>3, DestinationDropped
  <2>4. CASE Live(f) /\ BeginCopy(m, f, "copying", "copying")
    BY <1>2, <1>3, <2>1, <2>4, CopyBegins
  <2> QED
    BY <2>1, <2>2, <2>3, <2>4
<1>6. CASE FinalStart(m, f)
  <2>1. /\ Free(f)
        /\ \/ /\ item[m][f].status = "deleted" \/ ~Live(f)
              /\ DropDestination(m, f, TRUE) /\ Goto(m, Main, f, "done")
           \/ Live(f) /\ BeginCopy(m, f, "final", "verifying")
    BY <1>6, Zenon DEF FinalStart
  <2>2. CASE ~Live(f) /\ DropDestination(m, f, TRUE) /\ Goto(m, Main, f, "done")
    <3>1. ~WriteLocked(f)
      BY <2>1 DEF Free
    <3> QED
      BY <1>2, <1>3, <2>2, <3>1, DestinationDropped
  <2>3. CASE Live(f) /\ BeginCopy(m, f, "final", "verifying")
    BY <1>2, <1>3, <2>1, <2>3, CopyBegins
  <2> QED
    BY <1>4, <2>1, <2>2, <2>3
<1> QED
  BY <1>5, <1>6

LEMMA CutoverStep ==
    ASSUME MigInv, NEW m \in Migs, NEW f \in Files, Cutover(m, f)
    PROVE  MigInv' /\ Preserved
<1> DEFINE src == mig[m].src
           dst == mig[m].dst
           s == [o \in Objs |-> IF o \in Held(src, f) THEN store[dst][f][o] ELSE 0]
           i == [item[m][f] EXCEPT !.status = "cleanup_pending", !.cutover = TRUE]
           w == [pc |-> "done", left |-> {}]
<1>1. /\ MigShape /\ Sound(f) /\ Main \in JobIds /\ item[m][f] \in ItemRow
      /\ item \in [Migs -> [Files -> ItemRow]] /\ src \in Mounts /\ dst \in Mounts
      /\ work \in Works /\ store \in [Mounts -> [Files -> Versions]]
      /\ file \in [Files -> [row : {"live", "deleted", "gone"}, at : Mounts]]
  BY JobNames DEF MigInv, MigShape, MigRow, Works
<1>2. /\ Pc(m, Main, f) = "final" /\ work[m][Main][f].left = {}
      /\ store' = [store EXCEPT ![dst][f] =
                      [o \in Objs |-> IF o \in Held(src, f) THEN @[o] ELSE 0]]
      /\ file' = [file EXCEPT ![f].at = dst]
      /\ item' = [item EXCEPT ![m][f].status = "cleanup_pending", ![m][f].cutover = TRUE]
      /\ work' = [work EXCEPT ![m][Main][f] = w]
      /\ UNCHANGED <<encoding, mig, keeping, deleter>>
  BY Zenon DEF Cutover, At, Goto, Pc
<1>3. /\ Planned(m, f) /\ Live(f) /\ file[f].at = src /\ item[m][f].owned /\ src # dst
      /\ Copied(m, f, {})
  <2>1. /\ WorkOK(m, Main, f) /\ ItemOK(m, f) /\ work[m][Main][f].left = {}
        /\ Pc(m, Main, f) = "final"
    BY <1>1, <1>2 DEF Sound
  <2>2. /\ Planned(m, f) /\ Live(f) /\ file[f].at = mig[m].src /\ item[m][f].owned
        /\ Copied(m, f, work[m][Main][f].left)
    BY <2>1 DEF WorkOK
  <2>3. src # dst
    BY <2>1, <2>2 DEF ItemOK
  <2> QED
    BY <2>1, <2>2, <2>3
<1>4. s \in Versions /\ s = store[src][f]
  <2>1. store[src][f] \in [Objs -> Nat] /\ store[dst][f] \in [Objs -> Nat]
    BY <1>1 DEF Versions
  <2>2. ASSUME NEW o \in Objs PROVE s[o] = store[src][f][o]
    <3>1. store[src][f][o] \in {0, store[dst][f][o]} /\ store[src][f][o] \in Nat
      BY <1>3, <2>1 DEF Copied
    <3>2. o \in Held(src, f) <=> store[src][f][o] > 0
      BY DEF Held
    <3> HIDE DEF src, dst
    <3> QED
      BY <3>1, <3>2
  <2>3. s = [o \in Objs |-> s[o]]
    OBVIOUS
  <2> HIDE DEF s, src, dst
  <2> QED
    BY <2>1, <2>2, <2>3 DEF Versions
<1>5. /\ i \in ItemRow /\ i.status = "cleanup_pending" /\ i.owned
      /\ i.cleaned = item[m][f].cleaned
  <2>1. item[m][f] \in ItemRow /\ item[m][f].owned /\ "cleanup_pending" \in ItemStatuses
    BY <1>1, <1>3, StatusNames
  <2> QED
    BY <2>1 DEF ItemRow
<1>6. /\ Writes(m, f, i) /\ Moves(m, Main, f, w) /\ Puts(dst, f, s) /\ Lies(f, dst)
  <2>1. Writes(m, f, i)
    BY <1>1, <1>2 DEF Writes, ItemRow
  <2>2. Moves(m, Main, f, w) /\ Puts(dst, f, s) /\ Lies(f, dst)
    BY <1>2, Zenon DEF Moves, Puts, Lies
  <2> QED
    BY <2>1, <2>2
<1>7. w \in WorkRow /\ w.pc = "done" /\ w.pc \notin Touching
  BY DEF WorkRow, Pcs, Touching
<1> HIDE DEF i, w, s, src, dst
<1>8. /\ item'[m][f] = i /\ work'[m][Main][f] = w
      /\ \A n \in Migs : n # m => item'[n][f] = item[n][f]
      /\ file'[f].at = dst /\ file'[f].row = file[f].row
  BY <1>1, <1>6 DEF Writes, Moves, Lies, Works
<1>9. \A mt \in Mounts : store'[mt][f] = IF mt = dst THEN s ELSE store[mt][f]
  BY <1>1, <1>6 DEF Puts
<1>10. Alone(m, Main, f)
  BY <1>1, <1>2, WriterAlone
<1>11. /\ mig'[m].src = src /\ mig'[m].dst = dst /\ UNCHANGED mig
  BY <1>2 DEF src, dst
<1>12. ItemOK(m, f)' /\ Planned(m, f)'
  BY <1>3, <1>5, <1>8, <1>11 DEF ItemOK, Planned
<1>13. WorkOK(m, Main, f)'
  BY <1>7, <1>8, <1>12 DEF WorkOK, Pc
<1>14. /\ Owned(f) \subseteq Owned(f)' /\ dst \in Owned(f)' /\ Owned(f)' \subseteq Copies(f)'
       /\ dst \in Copies(f)'
  <2>1. Owned(f) \subseteq Owned(f)'
    BY <1>5, <1>8, <1>11, <1>12 DEF Owned, Items, Planned
  <2>2. dst \in Owned(f)'
    BY <1>5, <1>8, <1>11, <1>12 DEF Owned, Items, Planned
  <2>3. Owned(f)' \subseteq Copies(f)'
    BY DEF Owned, Copies
  <2> QED
    BY <2>1, <2>2, <2>3
<1>15. src \in Copies(f)'
  <2>1. CASE item[m][f].cleaned
    BY <1>1, <1>3, <1>14, <2>1 DEF Sound, Returned, src
  <2>2. CASE ~item[m][f].cleaned
    BY <1>5, <1>8, <1>11, <1>12, <2>2 DEF Copies, Items, Planned
  <2> QED
    BY <2>1, <2>2
<1>16. Covered(f)'
  <2>1. \A mt \in Mounts : mt # dst => (Empty(mt, f)' <=> Empty(mt, f))
    BY <1>9 DEF Empty, Held
  <2>2. \A mt \in Mounts : mt \in Copies(f) /\ mt # src => mt \in Copies(f)'
    BY <1>3, <1>5, <1>8, <1>11, <1>12 DEF Copies, Items, Planned, src
  <2>3. file'[f].row # "gone"
    BY <1>3, <1>8 DEF Live
  <2> QED
    BY <1>1, <1>14, <1>15, <2>1, <2>2, <2>3 DEF Sound, Covered
<1>17. Returned(f)'
  BY <1>8, <1>14 DEF Returned
<1>18. SeenSame(f)
  BY <1>1, <1>3, <1>4, <1>8, <1>9 DEF SeenSame, Live
<1>19. i.status # "none" /\ UNCHANGED <<encoding, mig, keeping, deleter>>
  BY <1>2, <1>5
<1> QED
  BY <1>1, <1>3, <1>4, <1>5, <1>6, <1>7, <1>10, <1>12, <1>13, <1>16, <1>17, <1>18, <1>19, AloneStep

LEMMA DeleteObjects ==
    ASSUME MigInv, NEW m \in Migs, NEW j \in JobIds, NEW f \in Files, NEW o \in Objs,
           DeleteObject(m, j, f, o)
    PROVE  MigInv' /\ Preserved
<1> DEFINE mt == IF j = Cleanup THEN mig[m].src ELSE mig[m].dst
           at == IF j = Cleanup THEN mig[m].dst ELSE mig[m].src
           s == [store[mt][f] EXCEPT ![o] = 0]
           w == [work[m][j][f] EXCEPT !.left = @ \ {o}]
<1>1. /\ MigShape /\ Sound(f) /\ work[m][j][f] \in WorkRow /\ item[m][f] \in ItemRow
      /\ work \in Works /\ store \in [Mounts -> [Files -> Versions]]
      /\ mt \in Mounts
  BY DEF MigInv, MigShape, MigRow, Works
<1>2. /\ j # Main /\ Pc(m, j, f) = "deleting"
      /\ store' = [store EXCEPT ![mt][f][o] = 0]
      /\ work' = [work EXCEPT ![m][j][f].left = @ \ {o}]
      /\ UNCHANGED <<file, encoding, mig, item, keeping, deleter>>
  BY Zenon DEF DeleteObject, At, Pc
<1>3. /\ Planned(m, f) /\ mig[m].src # mig[m].dst /\ (Live(f) => file[f].at = at)
      /\ Held(mt, f) \subseteq work[m][j][f].left
  BY <1>1, <1>2 DEF Sound, WorkOK, ItemOK
<1>4. mt # at
  BY <1>3
<1>5. /\ w \in WorkRow /\ w.pc = "deleting" /\ w.left = work[m][j][f].left \ {o}
      /\ s \in Versions /\ s[o] = 0 /\ \A p \in Objs : p # o => s[p] = store[mt][f][p]
  <2>1. work[m][j][f] \in WorkRow /\ work[m][j][f].pc = "deleting"
    BY <1>1, <1>2 DEF Pc
  <2>2. w \in WorkRow /\ w.pc = "deleting" /\ w.left = work[m][j][f].left \ {o}
    BY <2>1 DEF WorkRow
  <2>3. store[mt][f] \in [Objs -> Nat]
    BY <1>1 DEF Versions
  <2>4. s \in [Objs -> Nat] /\ s[o] = 0 /\ \A p \in Objs : p # o => s[p] = store[mt][f][p]
    <3> HIDE DEF mt
    <3> QED
      BY <2>3
  <2> QED
    BY <2>2, <2>4 DEF Versions
<1>6. Moves(m, j, f, w) /\ Puts(mt, f, s)
  BY <1>2, Zenon DEF Moves, Puts
<1>7. Writes(m, f, item[m][f]) /\ Lies(f, file[f].at) /\ file[f].at \in Mounts
  BY <1>1, <1>2, Unmoved
<1>8. /\ j = Cleanup => mt = mig[m].src /\ at = mig[m].dst
      /\ j # Cleanup => mt = mig[m].dst /\ at = mig[m].src
  OBVIOUS
<1> HIDE DEF mt, at, s, w
<1>9. work'[m][j][f] = w /\ \A n \in Mounts : store'[n][f] = IF n = mt THEN s ELSE store[n][f]
  BY <1>1, <1>6 DEF Moves, Puts, Works
<1>10. UNCHANGED <<file, mig, item>>
  BY <1>2
<1>11. Alone(m, j, f)
  BY <1>1, <1>2, WriterAlone
<1>12. ItemOK(m, f)' /\ Planned(m, f)' /\ (Live(f)' <=> Live(f))
  BY <1>1, <1>3, <1>10 DEF Sound, ItemOK, Planned, Live
<1>13. WorkOK(m, j, f)'
  <2>1. {p \in Objs : store'[mt][f][p] > 0} \subseteq w.left
    BY <1>1, <1>3, <1>5, <1>9 DEF Held
  <2>2. CASE j = Cleanup
    <3>1. Held(mig[m].src, f)' \subseteq w.left
      BY <1>8, <1>10, <2>1, <2>2 DEF Held
    <3> QED
      BY <1>2, <1>3, <1>5, <1>8, <1>9, <1>10, <1>12, <2>2, <3>1 DEF WorkOK, Pc
  <2>3. CASE j # Cleanup
    <3>1. Held(mig[m].dst, f)' \subseteq w.left
      BY <1>8, <1>10, <2>1, <2>3 DEF Held
    <3> QED
      BY <1>2, <1>3, <1>5, <1>8, <1>9, <1>10, <1>12, <2>3, <3>1 DEF WorkOK, Pc
  <2> QED
    BY <2>2, <2>3
<1>14. Covered(f)' /\ Returned(f)'
  <2>1. Copies(f)' = Copies(f) /\ Owned(f)' = Owned(f)
    BY <1>10 DEF Copies, Owned, Items
  <2>2. \A n \in Mounts : ~Empty(n, f)' => ~Empty(n, f)
    BY <1>1, <1>5, <1>9 DEF Empty, Held
  <2>3. Covered(f)'
    BY <1>1, <1>10, <2>1, <2>2 DEF Sound, Covered
  <2>4. Returned(f)'
    BY <1>1, <1>10, <2>1 DEF Sound, Returned, Planned, Live
  <2> QED
    BY <2>3, <2>4
<1>15. SeenSame(f)
  BY <1>3, <1>4, <1>7, <1>9, <1>10, <1>12 DEF SeenSame
<1>16. item[m][f].status # "none" /\ w.pc = Pc(m, j, f)
       /\ UNCHANGED <<encoding, mig, keeping, deleter>>
  BY <1>2, <1>3, <1>5 DEF Planned
<1> QED
  BY <1>1, <1>3, <1>5, <1>6, <1>7, <1>11, <1>12, <1>13, <1>14, <1>15, <1>16, AloneStep

LEMMA DeletesDone ==
    ASSUME MigInv, NEW m \in Migs, NEW f \in Files,
           CleanupItemDone(m, f) \/ \E g \in 1..MaxGen : AbortItemDone(m, g, f)
    PROVE  MigInv' /\ Preserved
<1> DEFINE w == [pc |-> "done", left |-> {}]
<1>1. /\ MigShape /\ Sound(f) /\ item[m][f] \in ItemRow
      /\ item \in [Migs -> [Files -> ItemRow]] /\ Cleanup \in JobIds
      /\ work \in Works /\ store \in [Mounts -> [Files -> Versions]]
      /\ mig[m].src \in Mounts /\ mig[m].dst \in Mounts
      /\ w \in WorkRow /\ w.pc = "done" /\ w.pc \notin Touching
  BY JobNames DEF MigInv, MigShape, MigRow, Works, WorkRow, Pcs, Touching
<1> HIDE DEF w
(* What the two have in common: the mount is empty, and the deleter may    *)
(* forget that this item made it hold something.                           *)
<1>2. ASSUME NEW j \in JobIds, Pc(m, j, f) = "deleting", Planned(m, f), Moves(m, j, f, w),
             NEW i \in ItemRow, i.status \notin {"none", "deleted"}, Writes(m, f, i),
             i.status = "canceled" => ~i.owned,
             UNCHANGED <<file, store, encoding, mig, keeping, deleter>>,
             NEW mt \in Mounts, NEW at \in Mounts, mt # at, Held(mt, f) = {},
             Live(f) => file[f].at = at,
             \/ mt = mig[m].src /\ at = mig[m].dst /\ i.owned = item[m][f].owned
             \/ mt = mig[m].dst /\ at = mig[m].src /\ i.cleaned = item[m][f].cleaned
      PROVE  MigInv' /\ Preserved
  <2>1. /\ item'[m][f] = i /\ work'[m][j][f] = w
        /\ \A n \in Migs : n # m => item'[n][f] = item[n][f]
    BY <1>1, <1>2 DEF Writes, Moves, Works
  <2>2. UNCHANGED file /\ UNCHANGED store /\ UNCHANGED mig /\ UNCHANGED encoding
        /\ UNCHANGED <<encoding, mig, keeping, deleter>>
    BY <1>2
  <2>3. /\ Puts(mt, f, store[mt][f]) /\ Lies(f, file[f].at)
        /\ file[f].at \in Mounts /\ store[mt][f] \in Versions
    BY <1>1, <1>2, <2>2, Unmoved
  <2>4. Alone(m, j, f)
    BY <1>1, <1>2, WriterAlone
  <2>5. ItemOK(m, f)' /\ Planned(m, f)'
    BY <1>1, <1>2, <2>1, <2>2 DEF Sound, ItemOK, Planned
  <2>6. WorkOK(m, j, f)'
    BY <1>1, <2>1, <2>5 DEF WorkOK, Pc
  <2>7. Covered(f)'
    <3>1. \A n \in Mounts : Empty(n, f)' <=> Empty(n, f)
      BY <2>2 DEF Empty, Held
    <3>2. \A n \in Mounts : n \in Copies(f) /\ n # mt => n \in Copies(f)'
      BY <1>2, <2>1, <2>2, <2>5 DEF Copies, Items, Planned
    <3>3. Empty(mt, f)
      BY <1>2 DEF Empty
    <3> QED
      BY <1>1, <2>2, <3>1, <3>2, <3>3 DEF Sound, Covered
  <2>8. Returned(f)'
    <3>1. \A n \in Mounts : n \in Owned(f) /\ n # mt => n \in Owned(f)'
      BY <1>2, <2>1, <2>2, <2>5 DEF Owned, Items, Planned
    <3>2. ASSUME NEW n \in Migs, Planned(n, f)', item'[n][f].cleaned, Live(f)',
                 file'[f].at = mig'[n].src
          PROVE  file'[f].at \in Owned(f)'
      <4>1. Live(f) /\ file[f].at = at /\ file[f].at = mig[n].src
        BY <1>2, <2>2, <3>2 DEF Live
      <4>2. Planned(n, f) /\ item[n][f].cleaned
        BY <1>2, <2>1, <3>2, <4>1 DEF Planned
      <4> QED
        BY <1>1, <1>2, <2>2, <3>1, <4>1, <4>2 DEF Sound, Returned
    <3> QED
      BY <3>2 DEF Returned
  <2>9. SeenSame(f)
    BY <2>2 DEF SeenSame, Live
  <2>10. i.status # "none"
    BY <1>2
  <2> QED
    BY <1>1, <1>2, <2>2, <2>3, <2>4, <2>5, <2>6, <2>7, <2>8, <2>9, <2>10, AloneStep
<1>3. CASE CleanupItemDone(m, f)
  <2> DEFINE i == [item[m][f] EXCEPT !.status = "cleaned", !.cleaned = TRUE, !.reserved = FALSE]
  <2>1. /\ Pc(m, Cleanup, f) = "deleting" /\ work[m][Cleanup][f].left = {}
        /\ item' = [item EXCEPT ![m][f].status = "cleaned", ![m][f].cleaned = TRUE,
                                ![m][f].reserved = FALSE]
        /\ Goto(m, Cleanup, f, "done")
        /\ UNCHANGED <<file, store, encoding, mig, keeping, deleter>>
    BY <1>3, Zenon DEF CleanupItemDone, At, Pc
  <2>2. /\ Planned(m, f) /\ mig[m].src # mig[m].dst
        /\ Live(f) => file[f].at = mig[m].dst
        /\ Held(mig[m].src, f) = {}
    <3>1. WorkOK(m, Cleanup, f) /\ ItemOK(m, f)
      BY <1>1 DEF Sound
    <3> QED
      BY <2>1, <3>1 DEF WorkOK, ItemOK
  <2>3. i \in ItemRow /\ i.status = "cleaned" /\ i.owned = item[m][f].owned
    BY <1>1, StatusNames DEF ItemRow
  <2>4. Writes(m, f, i) /\ Moves(m, Cleanup, f, w)
    BY <1>1, <2>1 DEF Writes, Moves, ItemRow, Goto, w
  <2> HIDE DEF i
  <2>5. /\ i.status \notin {"none", "deleted"} /\ (i.status = "canceled" => ~i.owned)
    BY <2>3
  <2> QED
    BY <1>1, <1>2, <2>1, <2>2, <2>3, <2>4, <2>5
<1>4. ASSUME NEW g \in 1..MaxGen, AbortItemDone(m, g, f) PROVE MigInv' /\ Preserved
  <2> DEFINE i == Canceled(item[m][f])
  <2>1. /\ Pc(m, Abort(g), f) = "deleting" /\ work[m][Abort(g)][f].left = {}
        /\ item' = [item EXCEPT ![m][f] = IF @.status = "deleted" THEN @ ELSE Canceled(@)]
        /\ Goto(m, Abort(g), f, "done")
        /\ UNCHANGED <<file, store, encoding, mig, keeping, deleter>>
    BY <1>4, Zenon DEF AbortItemDone, At, Pc
  <2>2. Abort(g) \in JobIds /\ Abort(g) # Cleanup
    BY JobNames
  <2>3. /\ Planned(m, f) /\ mig[m].src # mig[m].dst
        /\ Live(f) => file[f].at = mig[m].src
        /\ Held(mig[m].dst, f) = {}
    <3>1. WorkOK(m, Abort(g), f) /\ ItemOK(m, f)
      BY <1>1, <2>2 DEF Sound
    <3> QED
      BY <2>1, <2>2, <3>1 DEF WorkOK, ItemOK
  <2>4. CASE item[m][f].status = "deleted"
    <3>1. item' = [item EXCEPT ![m][f] = item[m][f]]
      BY <2>1, <2>4
    <3>2. "done" \in Pcs \ Touching
      BY DEF Pcs, Touching
    <3> QED
      BY <2>1, <2>2, <2>3, <3>1, <3>2, SameRecord, LeavesItem
  <2>5. CASE item[m][f].status # "deleted"
    <3>1. /\ i \in ItemRow /\ i.status = "canceled" /\ ~i.owned
          /\ i.cleaned = item[m][f].cleaned
      BY <1>1, StatusNames DEF ItemRow, Canceled
    <3>2. Writes(m, f, i) /\ Moves(m, Abort(g), f, w)
      BY <1>1, <2>1, <2>5 DEF Writes, Moves, Goto, w
    <3> HIDE DEF i
    <3>3. i.status \notin {"none", "deleted"}
      BY <3>1
    <3> QED
      BY <1>1, <1>2, <2>1, <2>2, <2>3, <3>1, <3>2, <3>3
  <2> QED
    BY <2>4, <2>5
<1> QED
  BY <1>3, <1>4
-----------------------------------------------------------------------------
(* The encoder and the deleter, which know nothing of migrations.          *)

FileOnly(f) ==
    /\ UNCHANGED <<mig, work, keeping>>
    /\ MigShape'
    /\ \A g \in Files : g # f => file'[g] = file[g] /\ deleter'[g] = deleter[g]
    /\ \A mt \in Mounts, g \in Files : g # f => store'[mt][g] = store[mt][g]
    /\ \A n \in Migs, g \in Files : g # f => item'[n][g] = item[n][g]
    /\ \A n \in Migs : Planned(n, f)' <=> Planned(n, f)

LEMMA FileOnlyStep ==
    ASSUME MigInv, NEW f \in Files, FileOnly(f), Sound(f)'
    PROVE  MigInv' /\ (SeenSame(f) => Preserved)
<1>0. UNCHANGED mig /\ UNCHANGED work /\ UNCHANGED keeping
  BY DEF FileOnly
<1>1. ASSUME NEW g \in Files, g # f PROVE QuietAt(g)
  <2>1. ASSUME NEW n \in Migs PROVE QuietItem(n, g)
    <3>1. ItemOK(n, g) /\ item'[n][g] = item[n][g] /\ (Live(g)' <=> Live(g))
      BY <1>1 DEF MigInv, Sound, FileOnly, Live
    <3> QED
      BY <1>0, <3>1 DEF QuietItem, ItemOK, Planned
  <2> QED
    BY <1>0, <1>1, <2>1 DEF QuietAt, FileOnly, QuietWork
<1>2. ASSUME NEW n \in Migs PROVE QuietRow(n) /\ (Planned(n, f) => Planned(n, f)')
  <2>1. \A g \in Files : Planned(n, g)' <=> Planned(n, g)
    BY DEF FileOnly, Planned
  <2> QED
    BY <1>0, <2>1 DEF QuietRow
<1>3. MigShape'
  BY DEF FileOnly
<1> QED
  BY <1>1, <1>2, <1>3, OneFileStep

(* A handler that does not hold the lock relies on little. *)
LEMMA UntouchedWork ==
    ASSUME NEW m \in Migs, NEW j \in JobIds, NEW f \in Files, WorkOK(m, j, f),
           UNCHANGED work, Planned(m, f)' <=> Planned(m, f), Pc(m, j, f) \notin Touching
    PROVE  WorkOK(m, j, f)'
BY DEF WorkOK, Pc, Touching

LEMMA HomeWritten ==
    ASSUME MigInv, NEW f \in Files, Live(f), ~WriteLocked(f), NEW s \in Versions,
           Puts(file[f].at, f, s), UNCHANGED <<file, mig, item, work, keeping, deleter>>,
           encoding' \subseteq Files
    PROVE  /\ MigInv'
           /\ SeenContents' = [SeenContents EXCEPT ![f] = s]
           /\ {g \in Files : ~Live(g)}' = {g \in Files : ~Live(g)}
<1> DEFINE a == file[f].at
<1>1. /\ MigShape /\ Sound(f) /\ a \in Mounts /\ store \in [Mounts -> [Files -> Versions]]
  BY DEF MigInv, MigShape
<1>2. UNCHANGED file /\ UNCHANGED mig /\ UNCHANGED item /\ UNCHANGED work /\ UNCHANGED keeping
      /\ UNCHANGED deleter
  OBVIOUS
<1>3. \A mt \in Mounts, g \in Files : store'[mt][g] = IF mt = a /\ g = f THEN s ELSE store[mt][g]
  BY <1>1 DEF Puts
<1>4. MigShape'
  <2>1. store' \in [Mounts -> [Files -> Versions]]
    BY <1>1 DEF Puts
  <2> QED
    BY <1>1, <1>2, <2>1 DEF MigShape
<1>5. FileOnly(f)
  BY <1>2, <1>3, <1>4 DEF FileOnly, Planned
<1>6. /\ deleter[f] = {}
      /\ \A m \in Migs, j \in JobIds : Pc(m, j, f) \notin {"final", "deleting"}
  BY DEF WriteLocked, Pc
<1>7. Sound(f)'
  <2>1. \A m \in Migs : ItemOK(m, f)'
    BY <1>1, <1>2 DEF Sound, ItemOK, Planned, Live
  <2>2. \A m \in Migs, j \in JobIds : WorkOK(m, j, f)'
    BY <1>1, <1>2, <1>6 DEF Sound, WorkOK, Planned, Live, Pc
  <2>3. LockOK(f)' /\ DeleterOK(f)'
    BY <1>1, <1>2, <1>6 DEF Sound, LockOK, DeleterOK, Pc
  <2>4. Copies(f)' = Copies(f) /\ Owned(f)' = Owned(f) /\ a \in Copies(f)
    BY <1>2 DEF Copies, Owned, Items
  <2>5. \A mt \in Mounts : mt # a => (Empty(mt, f)' <=> Empty(mt, f))
    BY <1>3 DEF Empty, Held
  <2>6. Covered(f)'
    BY <1>1, <1>2, <2>4, <2>5 DEF Sound, Covered, Live
  <2>7. Returned(f)'
    BY <1>1, <1>2, <2>4 DEF Sound, Returned, Planned, Live
  <2> QED
    BY <2>1, <2>2, <2>3, <2>6, <2>7 DEF Sound
<1>8. SeenContents' = [SeenContents EXCEPT ![f] = s]
  <2>1. \A g \in Files : file[g].at \in Mounts
    BY <1>1 DEF MigShape
  <2>2. \A g \in Files : SeenContents'[g] = IF g = f THEN s ELSE SeenContents[g]
    BY <1>1, <1>2, <1>3, <2>1 DEF SeenContents, Live
  <2> QED
    BY <2>2 DEF SeenContents
<1>9. {g \in Files : ~Live(g)}' = {g \in Files : ~Live(g)}
  BY <1>2 DEF Live
<1> QED
  BY <1>5, <1>7, <1>8, <1>9, FileOnlyStep

LEMMA EncoderSteps ==
    ASSUME MigInv, NEW f \in Files,
           EncoderCleanup(f) \/ \E o \in Objs : EncodePublish(f, o)
    PROVE  MigInv' /\ Preserved
<1> DEFINE a == file[f].at
<1>1. /\ MigShape /\ a \in Mounts /\ store \in [Mounts -> [Files -> Versions]]
      /\ store[a][f] \in Versions /\ encoding \subseteq Files
  BY DEF MigInv, MigShape
<1>2. Live(f) => SeenContents[f] = store[a][f]
  BY DEF SeenContents
<1>3. CASE EncoderCleanup(f)
  <2> DEFINE s == [store[a][f] EXCEPT ![SourceObj] = 0]
  <2>1. /\ Live(f) /\ ~WriteLocked(f) /\ \A o \in Objs : store[a][f][o] > 0
        /\ store' = [store EXCEPT ![a][f][SourceObj] = 0]
        /\ UNCHANGED <<file, mig, item, work, keeping, deleter>> /\ UNCHANGED encoding
    BY <1>3 DEF EncoderCleanup, Free
  <2>2. s \in Versions
    BY <1>1 DEF Versions
  <2>3. Puts(a, f, s)
    BY <2>1, Zenon DEF Puts
  <2> HIDE DEF s
  <2>4. /\ MigInv' /\ SeenContents' = [SeenContents EXCEPT ![f] = s]
        /\ {g \in Files : ~Live(g)}' = {g \in Files : ~Live(g)}
    BY <1>1, <2>1, <2>2, <2>3, HomeWritten
  <2>5. SeenContents' = [SeenContents EXCEPT ![f][SourceObj] = 0]
    BY <1>2, <2>1, <2>4 DEF s
  <2>6. Contents!DropSource(f)
    BY <1>2, <2>1, <2>4, <2>5, MigrationAssumption DEF Contents!DropSource
  <2> QED
    BY <2>4, <2>6 DEF Preserved, Contents!ContentsNext
<1>4. ASSUME NEW o \in Objs, EncodePublish(f, o) PROVE MigInv' /\ Preserved
  <2> DEFINE s == [store[a][f] EXCEPT ![o] = store[a][f][o] + 1]
  <2>1. /\ Live(f) /\ ~WriteLocked(f) /\ store[a][f][o] < MaxVersion
        /\ store' = [store EXCEPT ![a][f][o] = store[a][f][o] + 1]
        /\ encoding' = encoding \ {f}
        /\ UNCHANGED <<file, mig, item, work, keeping, deleter>>
    BY <1>4 DEF EncodePublish
  <2>2. s \in Versions
    BY <1>1 DEF Versions
  <2>3. Puts(a, f, s)
    BY <2>1, Zenon DEF Puts
  <2> HIDE DEF s
  <2>4. /\ MigInv' /\ SeenContents' = [SeenContents EXCEPT ![f] = s]
        /\ {g \in Files : ~Live(g)}' = {g \in Files : ~Live(g)}
    BY <1>1, <2>1, <2>2, <2>3, HomeWritten
  <2>5. SeenContents' = [SeenContents EXCEPT ![f][o] = SeenContents[f][o] + 1]
    BY <1>2, <2>1, <2>4 DEF s
  <2>6. Contents!Replace(f, o)
    BY <1>2, <2>1, <2>4, <2>5 DEF Contents!Replace
  <2> QED
    BY <2>4, <2>6 DEF Preserved, Contents!ContentsNext
<1> QED
  BY <1>3, <1>4

(* Nobody works on a file whose lock is free or that the deleter has. *)
LEMMA Unworked ==
    ASSUME MigInv, NEW f \in Files, Free(f) \/ deleter[f] # {}
    PROVE  \A m \in Migs, j \in JobIds : Pc(m, j, f) \notin Touching
<1>1. LockOK(f) /\ \A m \in Migs, j \in JobIds : WorkOK(m, j, f)
  BY DEF MigInv, Sound
<1>2. CASE Free(f)
  BY <1>1, <1>2 DEF Free, WriteLocked, ReadLocked, WorkOK, Touching, Pc
<1>3. CASE deleter[f] # {}
  BY <1>1, <1>3 DEF LockOK
<1> QED
  BY <1>2, <1>3

LEMMA UnworkedSound ==
    ASSUME MigInv, NEW f \in Files, Free(f) \/ deleter[f] # {}, UNCHANGED work,
           \A n \in Migs : Planned(n, f)' <=> Planned(n, f)
    PROVE  (\A m \in Migs, j \in JobIds : WorkOK(m, j, f)') /\ LockOK(f)'
<1>1. \A m \in Migs, j \in JobIds : WorkOK(m, j, f) /\ Pc(m, j, f) \notin Touching
  BY Unworked DEF MigInv, Sound
<1>2. \A m \in Migs, j \in JobIds : WorkOK(m, j, f)'
  BY <1>1, UntouchedWork
<1>3. LockOK(f)'
  BY <1>1 DEF LockOK, Pc, Touching
<1> QED
  BY <1>2, <1>3

(* What the deleter makes of an item. *)
Closed(m, f) == [item[m][f] EXCEPT !.status = "deleted"]
Freed(m, f) == [item[m][f] EXCEPT !.reserved = FALSE, !.owned = FALSE]

LEMMA DeletersItems ==
    ASSUME MigShape, NEW m \in Migs, NEW f \in Files
    PROVE  /\ Closed(m, f) \in ItemRow /\ Closed(m, f).status = "deleted"
           /\ Closed(m, f).owned = item[m][f].owned
           /\ Closed(m, f).cleaned = item[m][f].cleaned
           /\ Freed(m, f) \in ItemRow /\ Freed(m, f).status = item[m][f].status
           /\ ~Freed(m, f).owned
<1>1. item[m][f] \in ItemRow /\ "deleted" \in ItemStatuses
  BY StatusNames DEF MigShape
<1>2. /\ Closed(m, f) \in ItemRow /\ Closed(m, f).status = "deleted"
      /\ Closed(m, f).owned = item[m][f].owned
      /\ Closed(m, f).cleaned = item[m][f].cleaned
  BY <1>1 DEF Closed, ItemRow
<1>3. Freed(m, f) \in ItemRow /\ Freed(m, f).status = item[m][f].status /\ ~Freed(m, f).owned
  BY <1>1 DEF Freed, ItemRow
<1> QED
  BY <1>2, <1>3

LEMMA MarkStep ==
    ASSUME MigInv, NEW f \in Files, DeleterMark(f)
    PROVE  MigInv' /\ Preserved
<1>1. /\ MigShape /\ Sound(f) /\ item \in [Migs -> [Files -> ItemRow]]
      /\ file \in [Files -> [row : {"live", "deleted", "gone"}, at : Mounts]]
      /\ deleter \in [Files -> SUBSET Mounts] /\ mig \in [Migs -> MigRow]
      /\ \A mt \in Mounts, m \in Migs : mig[m].src \in Mounts /\ mig[m].dst \in Mounts
      /\ file[f].at \in Mounts
  BY DEF MigInv, MigShape, MigRow
<1>2. /\ file[f].row # "gone" /\ Free(f)
      /\ file' = [file EXCEPT ![f].row = "deleted"]
      /\ item' = [m \in Migs |-> [g \in Files |->
             IF g = f /\ f \in Items(m) THEN [item[m][f] EXCEPT !.status = "deleted"]
             ELSE item[m][g]]]
      /\ deleter' = IF f \in encoding THEN deleter ELSE [deleter EXCEPT ![f] = Copies(f)]
      /\ UNCHANGED <<store, encoding, mig, work, keeping>>
  BY Zenon DEF DeleterMark
<1>3. UNCHANGED store /\ UNCHANGED mig /\ UNCHANGED work
  BY <1>2
<1>4. /\ \A g \in Files : g # f => file'[g] = file[g]
      /\ file'[f].row = "deleted" /\ file'[f].at = file[f].at /\ ~Live(f)'
      /\ file' \in [Files -> [row : {"live", "deleted", "gone"}, at : Mounts]]
  <2>1. file[f] \in [row : {"live", "deleted", "gone"}, at : Mounts]
    BY <1>1
  <2>2. LET r == [file[f] EXCEPT !.row = "deleted"]
        IN  /\ r \in [row : {"live", "deleted", "gone"}, at : Mounts]
            /\ r.row = "deleted" /\ r.at = file[f].at
    BY <2>1
  <2> QED
    BY <1>1, <1>2, <2>2 DEF Live
<1>5. \A m \in Migs : /\ Closed(m, f) \in ItemRow /\ Closed(m, f).status = "deleted"
                      /\ Closed(m, f).owned = item[m][f].owned /\ Closed(m, f).cleaned = item[m][f].cleaned
  BY <1>1, DeletersItems
<1>6. \A m \in Migs, g \in Files :
          item'[m][g] = IF g = f /\ Planned(m, f) THEN Closed(m, f) ELSE item[m][g]
  BY <1>2 DEF Items, Planned, Closed
<1>7. \A m \in Migs : /\ Planned(m, f)' <=> Planned(m, f)
                      /\ Planned(m, f) => /\ item'[m][f].status = "deleted"
                                          /\ item'[m][f].owned = item[m][f].owned
                                          /\ item'[m][f].cleaned = item[m][f].cleaned
  BY <1>5, <1>6 DEF Planned
<1>8. Copies(f)' = Copies(f) /\ Copies(f) \subseteq Mounts
  <2>1. \A m \in Migs : f \in Items(m) <=> Planned(m, f)
    BY DEF Items, Planned
  <2>2. \A m \in Migs : f \in Items(m)' <=> Planned(m, f)'
    BY DEF Items, Planned
  <2>3. {n \in Migs : f \in Items(n) /\ ~item[n][f].cleaned}' = {n \in Migs : f \in Items(n) /\ ~item[n][f].cleaned}
    BY <1>7, <2>1, <2>2
  <2>4. {n \in Migs : f \in Items(n) /\ item[n][f].owned}' = {n \in Migs : f \in Items(n) /\ item[n][f].owned}
    BY <1>7, <2>1, <2>2
  <2>5. Copies(f)' = Copies(f)
    BY <1>3, <1>4, <2>3, <2>4 DEF Copies
  <2>6. Copies(f) \subseteq Mounts
    BY <1>1 DEF Copies
  <2> QED
    BY <2>5, <2>6
<1>9. MigShape'
  <2>1. item' \in [Migs -> [Files -> ItemRow]]
    <3>1. \A m \in Migs, g \in Files : item'[m][g] \in ItemRow
      BY <1>1, <1>5, <1>6
    <3> QED
      BY <1>2, <3>1
  <2>2. deleter' \in [Files -> SUBSET Mounts]
    BY <1>1, <1>2, <1>8
  <2> QED
    BY <1>1, <1>2, <1>4, <2>1, <2>2 DEF MigShape
<1>10. FileOnly(f)
  BY <1>1, <1>2, <1>3, <1>4, <1>6, <1>7, <1>9 DEF FileOnly
<1>11. Sound(f)'
  <2>1. \A m \in Migs : ItemOK(m, f)'
    BY <1>1, <1>3, <1>4, <1>7 DEF Sound, ItemOK, Planned
  <2>2. (\A m \in Migs, j \in JobIds : WorkOK(m, j, f)') /\ LockOK(f)'
    BY <1>2, <1>3, <1>7, UnworkedSound
  <2>3. \A mt \in Mounts : Empty(mt, f)' <=> Empty(mt, f)
    BY <1>3 DEF Empty, Held
  <2>4. deleter[f] = {} /\ deleter'[f] \in {{}, Copies(f)}
    BY <1>1, <1>2 DEF Free, WriteLocked
  <2>5. DeleterOK(f)'
    BY <1>1, <1>4, <2>3, <2>4 DEF DeleterOK, Sound, Covered
  <2>6. Covered(f)'
    BY <1>1, <1>4, <1>8, <2>3 DEF Sound, Covered
  <2>7. Returned(f)'
    BY <1>4 DEF Returned
  <2> QED
    BY <2>1, <2>2, <2>5, <2>6, <2>7 DEF Sound
<1>12. MigInv' /\ (SeenSame(f) => Preserved)
  BY <1>10, <1>11, FileOnlyStep
<1>13. CASE ~Live(f)
  BY <1>4, <1>12, <1>13 DEF SeenSame
<1>14. CASE Live(f)
  <2>1. \A g \in Files : Live(g)' <=> (Live(g) /\ g # f)
    BY <1>4 DEF Live
  <2>2. {g \in Files : ~Live(g)}' = {g \in Files : ~Live(g)} \cup {f}
    BY <2>1
  <2>3. SeenContents' = [SeenContents EXCEPT ![f] = [o \in Objs |-> 0]]
    <3>1. \A g \in Files : SeenContents'[g] = IF g = f THEN NoObjects ELSE SeenContents[g]
      BY <1>3, <1>4, <2>1 DEF SeenContents
    <3> QED
      BY <3>1 DEF SeenContents, NoObjects
  <2>4. Contents!DeleteFile(f)
    BY <1>14, <2>2, <2>3 DEF Contents!DeleteFile
  <2> QED
    BY <1>12, <2>4 DEF Preserved, Contents!ContentsNext
<1> QED
  BY <1>13, <1>14

LEMMA PrefixStep ==
    ASSUME MigInv, NEW f \in Files, NEW mt \in Mounts, DeleterPrefix(f, mt)
    PROVE  MigInv' /\ Preserved
<1> DEFINE last == deleter[f] = {mt}
<1>1. /\ MigShape /\ Sound(f) /\ item \in [Migs -> [Files -> ItemRow]]
      /\ file \in [Files -> [row : {"live", "deleted", "gone"}, at : Mounts]]
      /\ deleter \in [Files -> SUBSET Mounts] /\ store \in [Mounts -> [Files -> Versions]]
  BY DEF MigInv, MigShape
<1>2. /\ mt \in deleter[f]
      /\ store' = [store EXCEPT ![mt][f] = NoObjects]
      /\ deleter' = [deleter EXCEPT ![f] = @ \ {mt}]
      /\ UNCHANGED <<encoding, mig, work, keeping>>
  BY Zenon DEF DeleterPrefix
<1>21. last => /\ file' = [file EXCEPT ![f].row = "gone"]
               /\ item' = [m \in Migs |-> [g \in Files |->
                      IF g = f /\ f \in Items(m) THEN Freed(m, f) ELSE item[m][g]]]
  BY Zenon DEF DeleterPrefix, Freed
<1>22. ~last => UNCHANGED file /\ UNCHANGED item
  BY DEF DeleterPrefix
<1>23. last <=> deleter[f] = {mt}
  OBVIOUS
<1> HIDE DEF last
<1>3. UNCHANGED mig /\ UNCHANGED work /\ UNCHANGED keeping /\ UNCHANGED encoding
  BY <1>2
<1>4. file[f].row = "deleted" /\ \A n \in Mounts \ deleter[f] : Empty(n, f)
  BY <1>1, <1>2 DEF Sound, DeleterOK
<1>5. /\ \A g \in Files : g # f => file'[g] = file[g]
      /\ file'[f].row = (IF last THEN "gone" ELSE "deleted") /\ ~Live(f)' /\ ~Live(f)
      /\ ~last => file'[f] = file[f]
      /\ file' \in [Files -> [row : {"live", "deleted", "gone"}, at : Mounts]]
  <2>1. file[f] \in [row : {"live", "deleted", "gone"}, at : Mounts]
    BY <1>1
  <2>2. LET r == [file[f] EXCEPT !.row = "gone"]
        IN  r \in [row : {"live", "deleted", "gone"}, at : Mounts] /\ r.row = "gone"
    BY <2>1
  <2> QED
    BY <1>1, <1>21, <1>22, <1>4, <2>2 DEF Live
<1>6. \A m \in Migs : /\ Freed(m, f) \in ItemRow /\ ~Freed(m, f).owned
                      /\ Freed(m, f).status = item[m][f].status
  BY <1>1, DeletersItems
<1>7. \A m \in Migs, g \in Files :
          item'[m][g] = IF last /\ g = f /\ Planned(m, f) THEN Freed(m, f) ELSE item[m][g]
  BY <1>21, <1>22 DEF Items, Planned
<1>8. \A m \in Migs : /\ item'[m][f].status = item[m][f].status
                      /\ Planned(m, f)' <=> Planned(m, f)
                      /\ item'[m][f].status = "canceled" => ~item'[m][f].owned
  BY <1>1, <1>6, <1>7 DEF Planned, Sound, ItemOK
<1>9. /\ \A n \in Mounts, g \in Files : g # f => store'[n][g] = store[n][g]
      /\ \A n \in Mounts : store'[n][f] = IF n = mt THEN NoObjects ELSE store[n][f]
      /\ store' \in [Mounts -> [Files -> Versions]]
  <2>1. NoObjects \in Versions
    BY DEF NoObjects, Versions
  <2> QED
    BY <1>1, <1>2, <2>1
<1>10. /\ \A g \in Files : g # f => deleter'[g] = deleter[g]
       /\ deleter'[f] = deleter[f] \ {mt} /\ deleter' \in [Files -> SUBSET Mounts]
  BY <1>1, <1>2
<1>11. MigShape'
  <2>1. item' \in [Migs -> [Files -> ItemRow]]
    <3>1. \A m \in Migs, g \in Files : item'[m][g] \in ItemRow
      BY <1>1, <1>6, <1>7
    <3> QED
      BY <1>1, <1>21, <1>22, <3>1
  <2> QED
    BY <1>1, <1>3, <1>5, <1>9, <1>10, <2>1 DEF MigShape
<1>12. FileOnly(f)
  BY <1>3, <1>5, <1>7, <1>8, <1>9, <1>10, <1>11 DEF FileOnly
<1>13. /\ Empty(mt, f)' /\ \A n \in Mounts : n # mt => (Empty(n, f)' <=> Empty(n, f))
  BY <1>9 DEF Empty, Held, NoObjects
<1>14. Sound(f)'
  <2>1. \A m \in Migs : ItemOK(m, f)'
    BY <1>1, <1>3, <1>5, <1>8 DEF Sound, ItemOK, Planned
  <2>2. (\A m \in Migs, j \in JobIds : WorkOK(m, j, f)') /\ LockOK(f)'
    BY <1>2, <1>3, <1>8, UnworkedSound
  <2>3. DeleterOK(f)'
    <3>1. \A n \in Mounts \ deleter'[f] : Empty(n, f)'
      BY <1>4, <1>10, <1>13
    <3>2. deleter'[f] # {} => ~last
      BY <1>10, <1>23
    <3> QED
      BY <1>5, <3>1, <3>2 DEF DeleterOK
  <2>4. Covered(f)'
    <3>1. CASE last
      BY <1>4, <1>13, <1>23, <3>1 DEF Covered
    <3>2. CASE ~last
      <4>1. Copies(f)' = Copies(f)
        BY <1>22, <1>3, <3>2 DEF Copies, Items
      <4> QED
        BY <1>1, <1>5, <1>13, <3>2, <4>1 DEF Sound, Covered
    <3> QED
      BY <3>1, <3>2
  <2>5. Returned(f)'
    BY <1>5 DEF Returned
  <2> QED
    BY <2>1, <2>2, <2>3, <2>4, <2>5 DEF Sound
<1>15. SeenSame(f)
  BY <1>5 DEF SeenSame
<1> QED
  BY <1>12, <1>14, <1>15, FileOnlyStep
-----------------------------------------------------------------------------
(* The invariant holds, and every step is one of FileContents or stutters. *)

LEMMA StartsSound ==
    ASSUME NEW mt \in Mounts, StartsOn(mt), mig \in [Migs -> MigRow],
           item \in [Migs -> [Files -> ItemRow]],
           \A m \in Migs, f \in Files :
               /\ ~item[m][f].owned /\ item[m][f].status # "deleted" /\ ~item[m][f].cleaned
               /\ Planned(m, f) => mig[m].status # "none" /\ mig[m].src # mig[m].dst,
           encoding = {}, work = [m \in Migs |-> [j \in JobIds |-> NoWork]],
           keeping = [m \in Migs |-> {}], deleter = [f \in Files |-> {}]
    PROVE  MigInv /\ Contents!ContentsInit
<1>1. /\ \A f \in Files : file[f] = [row |-> "live", at |-> mt]
      /\ \A n \in Mounts, f \in Files, o \in Objs :
             store[n][f][o] = IF n = mt /\ o = SourceObj THEN 1 ELSE 0
  BY DEF StartsOn
<1>2. \A m \in Migs, j \in JobIds, f \in Files : Pc(m, j, f) = "off"
  BY IdleWork DEF Pc
<1>3. MigShape
  <2>1. file \in [Files -> [row : {"live", "deleted", "gone"}, at : Mounts]]
    BY DEF StartsOn
  <2>2. store \in [Mounts -> [Files -> Versions]]
    BY DEF StartsOn, Versions
  <2>3. work \in [Migs -> [JobIds -> [Files -> WorkRow]]]
    BY IdleWork
  <2> QED
    BY <2>1, <2>2, <2>3 DEF MigShape
<1>4. \A m \in Migs : RowOK(m)
  BY DEF RowOK
<1>5. ASSUME NEW f \in Files PROVE Sound(f)
  <2>1. \A m \in Migs : ItemOK(m, f)
    BY DEF ItemOK
  <2>2. \A m \in Migs, j \in JobIds : WorkOK(m, j, f)
    BY <1>2 DEF WorkOK
  <2>3. LockOK(f) /\ DeleterOK(f)
    BY <1>2 DEF LockOK, DeleterOK, Touching
  <2>4. Covered(f)
    BY <1>1 DEF Covered, Empty, Held, Copies
  <2>5. Returned(f)
    BY DEF Returned
  <2> QED
    BY <2>1, <2>2, <2>3, <2>4, <2>5 DEF Sound
<1>6. Contents!ContentsInit
  <2>1. {f \in Files : ~Live(f)} = {}
    BY <1>1 DEF Live
  <2>2. SeenContents = [f \in Files |-> [o \in Objs |-> IF o = SourceObj THEN 1 ELSE 0]]
    <3>1. \A f \in Files : Live(f) /\ file[f].at = mt
      BY <1>1 DEF Live
    <3>2. \A f \in Files : store[mt][f] = [o \in Objs |-> IF o = SourceObj THEN 1 ELSE 0]
      BY DEF StartsOn
    <3> QED
      BY <3>1, <3>2 DEF SeenContents
  <2> QED
    BY <2>1, <2>2 DEF Contents!ContentsInit
<1> QED
  BY <1>3, <1>4, <1>5, <1>6 DEF MigInv

LEMMA MigInitSound == MigInit => MigInv /\ Contents!ContentsInit
<1> SUFFICES ASSUME MigInit PROVE MigInv /\ Contents!ContentsInit
  OBVIOUS
<1>1. /\ encoding = {} /\ work = [m \in Migs |-> [j \in JobIds |-> NoWork]]
      /\ keeping = [m \in Migs |-> {}] /\ deleter = [f \in Files |-> {}]
  BY DEF MigInit
<1>2. CASE NoMigrations
  <2>1. /\ StartsOn(Home) /\ mig = [m \in Migs |-> NoMig]
        /\ item = [m \in Migs |-> [f \in Files |-> NoItem]]
    BY <1>2 DEF NoMigrations
  <2>2. NoMig \in MigRow
    BY MigrationAssumption, StatusNames DEF NoMig, MigRow
  <2>3. NoItem \in ItemRow /\ NoItem.status = "none" /\ ~NoItem.owned /\ ~NoItem.cleaned
    BY StatusNames DEF NoItem, ItemRow
  <2>4. mig \in [Migs -> MigRow] /\ item \in [Migs -> [Files -> ItemRow]] /\ Home \in Mounts
    BY <2>1, <2>2, <2>3, MigrationAssumption
  <2>5. \A m \in Migs, f \in Files :
            /\ ~item[m][f].owned /\ item[m][f].status # "deleted" /\ ~item[m][f].cleaned
            /\ ~Planned(m, f)
    BY <2>1, <2>3 DEF Planned
  <2> QED
    BY <1>1, <2>1, <2>4, <2>5, StartsSound
<1>3. CASE OvertakenMigrations
  <2> DEFINE r(mt) == [status |-> "canceled", src |-> Home, dst |-> mt, cleanup |-> Abort(1),
                       keep |-> TRUE, canceled |-> TRUE, gen |-> 1]
             i == [NoItem EXCEPT !.status = "canceled"]
  <2>1. PICK mt \in Mounts \ {Home} :
            /\ StartsOn(mt) /\ mig = [m \in Migs |-> r(mt)]
            /\ item = [m \in Migs |-> [f \in Files |-> i]]
    BY <1>3, Zenon DEF OvertakenMigrations
  <2>2. r(mt) \in MigRow /\ r(mt).src = Home /\ r(mt).dst = mt /\ r(mt).status = "canceled"
    <3>1. Abort(1) \in JobIds \cup {NoJob}
      <4>1. 1 \in 1..MaxGen
        BY MigrationAssumption
      <4> QED
        BY <4>1, JobNames
    <3> QED
      BY <3>1, MigrationAssumption, StatusNames DEF MigRow
  <2>3. i \in ItemRow /\ i.status = "canceled" /\ ~i.owned /\ ~i.cleaned
    BY StatusNames DEF NoItem, ItemRow
  <2> HIDE DEF r, i
  <2>4. mig \in [Migs -> MigRow] /\ item \in [Migs -> [Files -> ItemRow]]
    BY <2>1, <2>2, <2>3
  <2>5. \A m \in Migs, f \in Files :
            /\ ~item[m][f].owned /\ item[m][f].status # "deleted" /\ ~item[m][f].cleaned
            /\ mig[m].status # "none" /\ mig[m].src # mig[m].dst
    BY <2>1, <2>2, <2>3
  <2> QED
    BY <1>1, <2>1, <2>4, <2>5, StartsSound
<1> QED
  BY <1>2, <1>3 DEF MigInit

LEMMA MigStepSound == MigInv /\ [MigNext]_migVars => MigInv' /\ Preserved
<1> SUFFICES ASSUME MigInv, [MigNext]_migVars PROVE MigInv' /\ Preserved
  OBVIOUS
<1>1. ASSUME NEW m \in Migs, MainStep(m) PROVE MigInv' /\ Preserved
  BY <1>1, MainRowSteps, MainStarts, CopyStarts, LeavingSteps, CutoverStep, CopyObjects
     DEF MainStep
<1>2. ASSUME NEW m \in Migs, CleanupStep(m) PROVE MigInv' /\ Preserved
  BY <1>2, OtherRowSteps, CleanupItems, DeletesDone DEF CleanupStep
<1>3. ASSUME NEW m \in Migs, AbortStep(m) PROVE MigInv' /\ Preserved
  BY <1>3, OtherRowSteps, AbortItems, DeletesDone DEF AbortStep
<1>4. ASSUME NEW m \in Migs, DeleteStep(m) PROVE MigInv' /\ Preserved
  BY <1>4, LeavingSteps, DeleteObjects DEF DeleteStep
<1>5. ASSUME NEW m \in Migs, Administer(m) PROVE MigInv' /\ Preserved
  BY <1>5, AdminSteps, StartSteps DEF Administer
<1>6. ASSUME NEW m \in Migs, Repair(m) PROVE MigInv' /\ Preserved
  BY <1>6, ReconcileSteps, KeepStep, AdminSteps DEF Repair
<1>7. ASSUME NEW f \in Files, FileStep(f) PROVE MigInv' /\ Preserved
  BY <1>7, RuntimeSteps, EncoderSteps, MarkStep, PrefixStep DEF FileStep
<1>8. CASE ReconcileLoad \/ Crash
  BY <1>8, RuntimeSteps
<1>9. CASE UNCHANGED migVars
  <2>1. UNCHANGED <<file, store, encoding, mig, item, work, keeping, deleter>>
    BY <1>9 DEF migVars
  <2>2. MigShape /\ \A m \in Migs : RowOK(m)
    BY DEF MigInv
  <2>3. MigShape' /\ \A m \in Migs : QuietRow(m)
    BY <2>1, <2>2 DEF MigShape, QuietRow, Planned
  <2>4. \A g \in Files : QuietAt(g)
    BY <2>1, SameItems DEF QuietAt, QuietWork
  <2> QED
    BY <2>3, <2>4, QuietStep
<1> QED
  BY <1>1, <1>2, <1>3, <1>4, <1>5, <1>6, <1>7, <1>8, <1>9 DEF MigNext

LEMMA MigInvHolds == MigSpec => []MigInv
  BY MigInitSound, MigStepSound, PTL DEF MigSpec

(* Once the deleter has removed a file's rows no mount holds an object of  *)
(* it, whatever migrations, aborts, retries, crashes and lost reactions    *)
(* spread before (runDeleter, deleteStoredFileCopies).                     *)
THEOREM NoOrphansLeft == MigSpec => []NoOrphans
<1>1. MigInv => NoOrphans
  BY DEF MigInv, Sound, Covered, NoOrphans
<1> QED
  BY <1>1, MigInvHolds, PTL

(* The migrations implement FileContents: what readers of a file see is    *)
(* changed by a published encoding, by the removal of the encoded source   *)
(* and by the deletion of the file, and by nothing a migration does        *)
(* (copyStorageMigrationPrefix, the cutover, cleanup and abort handlers).  *)
THEOREM ContentsArePreserved == MigSpec => ContentsPreserved
<1>1. MigInv /\ [MigNext]_migVars => [Contents!ContentsNext]_Contents!contentsVars
  BY MigStepSound DEF Preserved
<1> QED
  BY <1>1, MigInitSound, MigInvHolds, PTL DEF MigSpec, ContentsPreserved, Contents!ContentsSpec
-----------------------------------------------------------------------------
(* Reservations.  What the abort job of a migration has gone through it    *)
(* has released, and only a start of the migration, which drops the link   *)
(* to the abort, reserves again.                                           *)

JobRow == [st : JobStatuses, stop : {"no", "cancel", "pause"}]
JobRows == [JobIds -> JobRow]
Reserves(m, f) == item[m][f].reserved /\ item[m][f].status # "deleted"
Linked(m) == mig[m].cleanup[1] = "abort"
Passed(m, j, f) == Pc(m, j, f) \in {"off", "done"}

AbortOK(m) ==
    /\ mig[m].status = "none" => mig[m].cleanup = NoJob
    /\ \A f \in Files : ~Planned(m, f) => ~item[m][f].reserved
    /\ Linked(m) /\ job[m][mig[m].cleanup].st = "succeeded" => \A f \in Files : ~Reserves(m, f)
    /\ Linked(m) /\ job[m][mig[m].cleanup].st = "running" =>
           \A f \in Files : Passed(m, mig[m].cleanup, f) => ~Reserves(m, f)
AbortInv == job \in [Migs -> JobRows] /\ \A m \in Migs : AbortOK(m)

Closing == {"running", "succeeded"}
Falls(m, f) == /\ Reserves(m, f)' => Reserves(m, f)
               /\ ~Planned(m, f)' => ~item'[m][f].reserved

LEMMA LinkNames ==
    ASSUME NEW c \in JobIds \cup {NoJob}, c[1] = "abort"
    PROVE  \E g \in 1..MaxGen : c = Abort(g)
<1>1. Main[1] # "abort" /\ Cleanup[1] # "abort" /\ NoJob[1] # "abort"
  BY DEF Main, Cleanup, NoJob
<1> QED
  BY <1>1 DEF JobIds

(* A migration nothing of which is reserved anew. *)
LEMMA LinkStep ==
    ASSUME MigShape', NEW m \in Migs, AbortOK(m),
           mig'[m].status = "none" => mig'[m].cleanup = NoJob,
           \A f \in Files : Falls(m, f),
           Linked(m)' => \/ job'[m][mig'[m].cleanup].st \notin Closing
                         \/ /\ mig'[m].cleanup = mig[m].cleanup
                            /\ job'[m][mig[m].cleanup].st = job[m][mig[m].cleanup].st,
           \A g \in 1..MaxGen, f \in Files :
               job'[m][Abort(g)].st = "running" /\ Passed(m, Abort(g), f)'
                   => Passed(m, Abort(g), f) \/ ~Reserves(m, f)'
    PROVE  AbortOK(m)'
<1>1. CASE ~Linked(m)'
  BY <1>1 DEF AbortOK, Falls
<1>2. CASE Linked(m)' /\ job'[m][mig'[m].cleanup].st \notin Closing
  BY <1>2 DEF AbortOK, Falls, Closing
<1>3. CASE /\ Linked(m)' /\ mig'[m].cleanup = mig[m].cleanup
           /\ job'[m][mig[m].cleanup].st = job[m][mig[m].cleanup].st
  <2>1. PICK g \in 1..MaxGen : mig'[m].cleanup = Abort(g)
    <3>1. mig'[m].cleanup \in JobIds \cup {NoJob}
      BY DEF MigShape, MigRow
    <3> QED
      BY <1>3, <3>1, LinkNames DEF Linked
  <2>2. Linked(m)
    BY <1>3 DEF Linked
  <2>3. mig[m].cleanup = Abort(g) /\ job'[m][Abort(g)].st = job[m][Abort(g)].st
    BY <1>3, <2>1
  <2>4. job'[m][Abort(g)].st = "succeeded" => \A f \in Files : ~Reserves(m, f)'
    BY <2>2, <2>3 DEF AbortOK, Falls
  <2>5. ASSUME job'[m][Abort(g)].st = "running", NEW f \in Files, Passed(m, Abort(g), f)'
        PROVE  ~Reserves(m, f)'
    <3>1. Passed(m, Abort(g), f) \/ ~Reserves(m, f)'
      BY <2>5
    <3>2. Passed(m, Abort(g), f) => ~Reserves(m, f)
      BY <2>2, <2>3, <2>5 DEF AbortOK
    <3> QED
      BY <3>1, <3>2 DEF Falls
  <2> QED
    BY <2>1, <2>4, <2>5 DEF AbortOK, Falls
<1> QED
  BY <1>1, <1>2, <1>3

(* What becomes of the jobs of a migration: no abort job starts or ends. *)
Tame(m, js) ==
    /\ js \in JobRows
    /\ \A g \in 1..MaxGen : js[Abort(g)].st \in Closing => js[Abort(g)].st = job[m][Abort(g)].st
(* Its row: a new link is to an abort job that has yet to start. *)
RowTame(m, r, js) ==
    /\ r.status = "none" => r.cleanup = NoJob
    /\ r.cleanup[1] = "abort" => r.cleanup = mig[m].cleanup \/ js[r.cleanup].st \notin Closing
SameLink(m, r) ==
    /\ r.status = "none" => r.cleanup = NoJob
    /\ r.cleanup \in {mig[m].cleanup, NoJob, Cleanup}

LEMMA SameLinkTame ==
    ASSUME NEW m \in Migs, NEW r, SameLink(m, r), NEW js
    PROVE  RowTame(m, r, js)
BY DEF SameLink, RowTame, NoJob, Cleanup

LEMMA LinkSame ==
    ASSUME MigInv, AbortInv, NEW m \in Migs
    PROVE  /\ SameLink(m, mig[m])
           /\ \A x \in MigStatuses \ {"none"} : SameLink(m, [mig[m] EXCEPT !.status = x])
           /\ SameLink(m, KeepRow(mig[m]))
           /\ mig[m] \in MigRow
<1>1. mig[m] \in MigRow /\ AbortOK(m)
  BY DEF MigInv, MigShape, AbortInv
<1> QED
  BY <1>1 DEF AbortOK, SameLink, KeepRow, MigRow

LEMMA JobStep ==
    ASSUME MigInv, MigInv', AbortInv, NEW m \in Migs, NEW js, Tame(m, js),
           NEW r, RowTame(m, r, js), mig' = [mig EXCEPT ![m] = r],
           job' = [job EXCEPT ![m] = js], UNCHANGED item,
           \A n \in Migs, g \in 1..MaxGen, f \in Files :
               Pc(n, Abort(g), f)' = Pc(n, Abort(g), f)
    PROVE  AbortInv'
<1>1. /\ MigShape' /\ job \in [Migs -> JobRows] /\ mig \in [Migs -> MigRow]
      /\ \A n \in Migs : AbortOK(n)
  BY DEF MigInv, MigShape, AbortInv
<1>2. job' \in [Migs -> JobRows]
  BY <1>1 DEF Tame
<1>3. \A n \in Migs, f \in Files : Falls(n, f)
  BY <1>1 DEF Falls, Reserves, Planned, AbortOK
<1>4. \A n \in Migs, g \in 1..MaxGen, f \in Files : Passed(n, Abort(g), f)' => Passed(n, Abort(g), f)
  BY DEF Passed
<1>5. ASSUME NEW n \in Migs PROVE AbortOK(n)'
  <2>1. CASE n # m
    <3>1. mig'[n] = mig[n] /\ job'[n] = job[n]
      BY <1>1, <2>1
    <3>2. mig'[n].status = "none" => mig'[n].cleanup = NoJob
      BY <1>1, <3>1 DEF AbortOK
    <3> QED
      BY <1>1, <1>3, <1>4, <3>1, <3>2, LinkStep
  <2>2. CASE n = m
    <3>1. mig'[m] = r /\ job'[m] = js
      BY <1>1
    <3>2. mig'[m].status = "none" => mig'[m].cleanup = NoJob
      BY <3>1 DEF RowTame
    <3>3. Linked(m)' => \/ job'[m][mig'[m].cleanup].st \notin Closing
                        \/ /\ mig'[m].cleanup = mig[m].cleanup
                           /\ job'[m][mig[m].cleanup].st = job[m][mig[m].cleanup].st
      <4> SUFFICES ASSUME Linked(m)', job'[m][mig'[m].cleanup].st \in Closing
                   PROVE  /\ mig'[m].cleanup = mig[m].cleanup
                          /\ job'[m][mig[m].cleanup].st = job[m][mig[m].cleanup].st
        OBVIOUS
      <4>1. PICK g \in 1..MaxGen : mig'[m].cleanup = Abort(g)
        <5>1. mig'[m].cleanup \in JobIds \cup {NoJob}
          BY <1>1 DEF MigShape, MigRow
        <5> QED
          BY <5>1, LinkNames DEF Linked
      <4>2. r.cleanup = Abort(g) /\ js[Abort(g)].st \in Closing
        BY <3>1, <4>1
      <4>3. r.cleanup = mig[m].cleanup
        BY <3>1, <4>2 DEF RowTame, Linked
      <4> QED
        BY <3>1, <4>1, <4>2, <4>3 DEF Tame
    <3>4. AbortOK(m)'
      BY <1>1, <1>3, <1>4, <3>2, <3>3, LinkStep
    <3> QED
      BY <2>2, <3>4
  <2> QED
    BY <2>1, <2>2
<1> QED
  BY <1>2, <1>5 DEF AbortInv

LEMMA JobStatusNames ==
    {"none", "queued", "running", "paused", "succeeded", "failed", "canceled"} \subseteq JobStatuses
BY DEF JobStatuses, Terminal

LEMMA JobsTame ==
    ASSUME AbortInv, NEW m \in Migs
    PROVE  Tame(m, job[m])
BY DEF AbortInv, Tame

LEMMA SetTame ==
    ASSUME NEW m \in Migs, NEW js, Tame(m, js), NEW j \in JobIds, NEW x \in JobRow,
           x.st \notin Closing \/ x.st = js[j].st \/ j \in {Main, Cleanup}
    PROVE  Tame(m, [js EXCEPT ![j] = x])
<1>1. js \in JobRows
  BY DEF Tame
<1>2. [js EXCEPT ![j] = x] \in JobRows
  BY <1>1 DEF JobRows
<1>3. \A k \in JobIds : [js EXCEPT ![j] = x][k] = IF k = j THEN x ELSE js[k]
  BY <1>1 DEF JobRows
<1> QED
  BY <1>2, <1>3, JobNames DEF Tame

LEMMA JobControls ==
    ASSUME NEW x \in JobRow
    PROVE  /\ CancelJob(x) \in JobRow /\ (CancelJob(x).st \notin Closing \/ CancelJob(x).st = x.st)
           /\ PauseJob(x) \in JobRow /\ (PauseJob(x).st \notin Closing \/ PauseJob(x).st = x.st)
           /\ Fresh \in JobRow /\ Fresh.st \notin Closing
           /\ Unborn \in JobRow /\ Unborn.st \notin Closing
<1>1. CASE x.st \in {"queued", "paused"}
  BY <1>1, JobStatusNames DEF CancelJob, PauseJob, JobRow, Closing, Fresh, Unborn
<1>2. CASE x.st = "running"
  BY <1>2, JobStatusNames DEF CancelJob, PauseJob, JobRow, Closing, Fresh, Unborn
<1>3. CASE x.st \notin {"queued", "paused", "running"}
  BY <1>3, JobStatusNames DEF CancelJob, PauseJob, JobRow, Closing, Fresh, Unborn
<1> QED
  BY <1>1, <1>2, <1>3

LEMMA ControlTame ==
    ASSUME NEW m \in Migs, NEW js, Tame(m, js), NEW j \in JobIds
    PROVE  /\ Tame(m, [js EXCEPT ![j] = CancelJob(js[j])])
           /\ Tame(m, [js EXCEPT ![j] = PauseJob(js[j])])
           /\ Tame(m, [js EXCEPT ![j] = Fresh])
           /\ Tame(m, [js EXCEPT ![j] = Unborn])
<1>1. js[j] \in JobRow
  BY DEF Tame, JobRows
<1> QED
  BY <1>1, JobControls, SetTame

LEMMA SettledTame ==
    ASSUME AbortInv, NEW m \in Migs, NEW j \in JobIds, NEW st \in JobStatuses,
           st \notin Closing \/ j \in {Main, Cleanup}
    PROVE  Tame(m, Settled(m, j, st))
<1> DEFINE stop == job[m][j].stop
           x == CASE st \in {"succeeded", "paused"} /\ stop = "cancel" ->
                         [st |-> "canceled", stop |-> "no"]
                  [] st = "queued" /\ stop = "pause" -> [st |-> "paused", stop |-> "no"]
                  [] st = "queued" /\ stop = "cancel" -> [st |-> "queued", stop |-> "cancel"]
                  [] OTHER -> [st |-> st, stop |-> "no"]
<1>1. Settled(m, j, st) = [job[m] EXCEPT ![j] = x]
  BY DEF Settled
<1>2. x \in JobRow /\ (x.st = st \/ x.st \notin Closing)
  BY JobStatusNames DEF JobRow, Closing
<1> HIDE DEF x
<1> QED
  BY <1>1, <1>2, JobsTame, SetTame

LEMMA AbortTame ==
    ASSUME NEW m \in Migs, NEW js, Tame(m, js), NEW r \in MigRow, SameLink(m, r), CanAbort(r, js)
    PROVE  Tame(m, AbortJobs(r, js)) /\ RowTame(m, AbortRow(r, js), AbortJobs(r, js))
<1>1. CASE HasAbort(r, js)
  BY <1>1, SameLinkTame DEF AbortJobs, AbortRow
<1>2. CASE ~HasAbort(r, js)
  <2> DEFINE a == Abort(r.gen + 1)
             c == IF r.cleanup = Cleanup THEN CancelJob(js[Cleanup]) ELSE js[Cleanup]
             ks == [js EXCEPT ![Cleanup] = c]
  <2>1. r.gen + 1 \in 1..MaxGen
    BY <1>2, MigrationAssumption DEF CanAbort, MigRow
  <2>2. a \in JobIds /\ Cleanup \in JobIds /\ js[Cleanup] \in JobRow /\ a # Cleanup
    BY <2>1, JobNames DEF Tame, JobRows
  <2>3. Tame(m, ks)
    BY <2>2, JobControls, SetTame
  <2>4. AbortJobs(r, js) = [ks EXCEPT ![a] = Fresh]
    BY <1>2 DEF AbortJobs
  <2> HIDE DEF ks, a
  <2>5. Tame(m, AbortJobs(r, js))
    <3>1. Tame(m, [ks EXCEPT ![a] = Fresh])
      BY <2>2, <2>3, ControlTame
    <3> QED
      BY <2>4, <3>1
  <2>6. AbortJobs(r, js)[a] = Fresh
    BY <2>2, <2>3, <2>4 DEF Tame, JobRows
  <2>7. AbortRow(r, js).cleanup = a /\ AbortRow(r, js).status = "canceled"
    BY <1>2 DEF AbortRow, MigRow, a
  <2> QED
    BY <2>5, <2>6, <2>7 DEF RowTame, Fresh, Closing
<1> QED
  BY <1>1, <1>2

LEMMA ScheduleTame ==
    ASSUME NEW m \in Migs, NEW js, Tame(m, js), NEW r \in MigRow, SameLink(m, r)
    PROVE  Tame(m, ScheduleJobs(m, r, js)) /\ SameLink(m, ScheduleRow(m, r))
<1>1. Tame(m, [js EXCEPT ![Cleanup] = Fresh])
  BY JobNames, ControlTame
<1>2. /\ ScheduleRow(m, r) \in {[r EXCEPT !.status = "completed"], r,
                                [r EXCEPT !.status = "retaining", !.cleanup = Cleanup]}
      /\ ScheduleJobs(m, r, js) \in {js, [js EXCEPT ![Cleanup] = Fresh]}
  BY DEF ScheduleRow, ScheduleJobs
<1> QED
  BY <1>1, <1>2 DEF SameLink, MigRow

LEMMA KeepTame ==
    ASSUME NEW m \in Migs, NEW js, Tame(m, js), NEW r \in MigRow
    PROVE  Tame(m, KeepJobs(r, js))
BY ControlTame DEF KeepJobs, MigRow

(* The abort jobs are where they were. *)
Unpassed == \A n \in Migs, g \in 1..MaxGen, f \in Files : Pc(n, Abort(g), f)' = Pc(n, Abort(g), f)

LEMMA OtherWork ==
    ASSUME MigShape, NEW m \in Migs, NEW j \in {Main, Cleanup}, NEW w,
           UNCHANGED work \/ work' = [work EXCEPT ![m][j] = w]
    PROVE  Unpassed
<1>1. work \in Works
  BY DEF MigShape, Works
<1>2. \A n \in Migs, g \in 1..MaxGen : work'[n][Abort(g)] = work[n][Abort(g)]
  BY <1>1, JobNames DEF Works
<1> QED
  BY <1>2 DEF Unpassed, Pc

(* The runtime and the handlers of a migration's copy and cleanup jobs. *)
LEMMA MainLinks ==
    ASSUME MigInv, MigInv', AbortInv, NEW m \in Migs,
           \/ MainWaits(m) \/ MainAlreadyDone(m) \/ MainRefused(m) \/ MainFailed(m)
           \/ MainEnqueue(m) \/ MainLink(m) \/ \E aborted \in BOOLEAN : MainStopped(m, aborted)
    PROVE  AbortInv'
<1>0. /\ MigShape /\ mig[m] \in MigRow /\ mig \in [Migs -> MigRow]
      /\ Main \in JobIds /\ SameLink(m, mig[m]) /\ Tame(m, job[m])
  BY LinkSame, JobsTame, JobNames DEF MigInv, MigShape
<1>1. \A st \in {"queued", "failed", "succeeded", "paused", "canceled"} : Tame(m, Settled(m, Main, st))
  BY <1>0, SettledTame, JobStatusNames
<1>2. ASSUME NEW js, Tame(m, js), NEW r, RowTame(m, r, js), mig' = [mig EXCEPT ![m] = r],
             job' = [job EXCEPT ![m] = js], UNCHANGED item,
             NEW w, UNCHANGED work \/ work' = [work EXCEPT ![m][Main] = w]
      PROVE  AbortInv'
  <2>1. Unpassed
    BY <1>0, <1>2, OtherWork
  <2> QED
    BY <1>2, <2>1, JobStep DEF Unpassed
<1>3. CASE MainWaits(m) \/ MainRefused(m)
  <2>1. /\ UNCHANGED <<mig, item, work>>
        /\ \E st \in {"queued", "failed"} : job' = [job EXCEPT ![m] = Settled(m, Main, st)]
    BY <1>3, Zenon DEF MainWaits, MainRefused
  <2> QED
    BY <1>0, <1>1, <1>2, <2>1, RowUnchanged, SameLinkTame
<1>4. CASE MainAlreadyDone(m)
  <2> DEFINE js == Settled(m, Main, "succeeded")
  <2>1. /\ UNCHANGED <<item, work>>
        /\ \/ UNCHANGED mig /\ job' = [job EXCEPT ![m] = js]
           \/ /\ mig' = [mig EXCEPT ![m] = ScheduleRow(m, mig[m])]
              /\ job' = [job EXCEPT ![m] = ScheduleJobs(m, mig[m], js)]
    <3>1. mig = [mig EXCEPT ![m] = mig[m]]
      BY <1>0
    <3>2. CASE mig[m].status = "retaining" /\ mig[m].cleanup = NoJob
      BY <1>4, <3>2 DEF MainAlreadyDone
    <3>3. CASE ~(mig[m].status = "retaining" /\ mig[m].cleanup = NoJob)
      BY <1>4, <3>1, <3>3 DEF MainAlreadyDone
    <3> QED
      BY <3>2, <3>3
  <2>2. Tame(m, js)
    BY <1>1
  <2> HIDE DEF js
  <2>3. Tame(m, ScheduleJobs(m, mig[m], js)) /\ SameLink(m, ScheduleRow(m, mig[m]))
    BY <1>0, <2>2, ScheduleTame
  <2> QED
    BY <1>0, <1>2, <2>1, <2>2, <2>3, RowUnchanged, SameLinkTame
<1>5. CASE MainFailed(m)
  <2>1. /\ work' = [work EXCEPT ![m][Main] = NoWork] /\ UNCHANGED item
        /\ \E st \in {"queued", "failed"} : job' = [job EXCEPT ![m] = Settled(m, Main, st)]
    BY <1>5, Zenon DEF MainFailed
  <2>2. \E x \in MigStatuses \ {"none"} : mig' = [mig EXCEPT ![m] = [mig[m] EXCEPT !.status = x]]
    BY <1>0, <1>5, StatusNames DEF MainFailed
  <2>3. PICK r : SameLink(m, r) /\ mig' = [mig EXCEPT ![m] = r]
    BY <2>2, LinkSame
  <2> QED
    BY <1>1, <1>2, <2>1, <2>3, SameLinkTame
<1>6. CASE MainEnqueue(m)
  <2> DEFINE w == [f \in Files |-> [pc |-> "link", left |-> {}]]
  <2>1. /\ work' = [work EXCEPT ![m][Main] = w] /\ UNCHANGED <<mig, item>>
        /\ job' = [job EXCEPT ![m] = ScheduleJobs(m, mig[m], job[m])]
    BY <1>6, Zenon DEF MainEnqueue
  <2> HIDE DEF w
  <2> QED
    BY <1>0, <1>2, <2>1, RowUnchanged, ScheduleTame, SameLinkTame
<1>7. CASE MainLink(m)
  <2>1. /\ work' = [work EXCEPT ![m][Main] = NoWork] /\ UNCHANGED item
        /\ job' = [job EXCEPT ![m] = Settled(m, Main, "succeeded")]
        /\ mig' = [mig EXCEPT ![m] = ScheduleRow(m, mig[m])]
    BY <1>7, Zenon DEF MainLink
  <2> QED
    BY <1>0, <1>1, <1>2, <2>1, ScheduleTame, SameLinkTame
<1>8. ASSUME NEW aborted \in BOOLEAN, MainStopped(m, aborted) PROVE AbortInv'
  <2> DEFINE r == [mig[m] EXCEPT !.status = "canceled", !.canceled = TRUE]
             js == Settled(m, Main, StopStatus(m, Main))
  <2>1. work' = [work EXCEPT ![m][Main] = NoWork] /\ UNCHANGED item
    BY <1>8, Zenon DEF MainStopped
  <2>2. \/ /\ mig' = [mig EXCEPT ![m].status = "paused"]
           /\ job' = [job EXCEPT ![m] = js]
        \/ /\ CanAbort(r, js) /\ mig' = [mig EXCEPT ![m] = AbortRow(r, js)]
           /\ job' = [job EXCEPT ![m] = AbortJobs(r, js)]
        \/ /\ mig' = [mig EXCEPT ![m] = r]
           /\ job' = [job EXCEPT ![m] = js]
    BY <1>8, Zenon DEF MainStopped
  <2>3. r \in MigRow /\ SameLink(m, r)
    BY <1>0, StatusNames DEF MigRow, SameLink
  <2>4. Tame(m, js)
    BY <1>1 DEF StopStatus
  <2> HIDE DEF r, js
  <2>5. CASE mig' = [mig EXCEPT ![m].status = "paused"] /\ job' = [job EXCEPT ![m] = js]
    <3>1. PICK x : SameLink(m, x) /\ mig' = [mig EXCEPT ![m] = x]
      BY <2>5, LinkSame, StatusNames
    <3> QED
      BY <1>2, <2>1, <2>4, <2>5, <3>1, SameLinkTame
  <2>6. CASE /\ CanAbort(r, js) /\ mig' = [mig EXCEPT ![m] = AbortRow(r, js)]
             /\ job' = [job EXCEPT ![m] = AbortJobs(r, js)]
    BY <1>2, <2>1, <2>3, <2>4, <2>6, AbortTame
  <2>7. CASE mig' = [mig EXCEPT ![m] = r] /\ job' = [job EXCEPT ![m] = js]
    BY <1>2, <2>1, <2>3, <2>4, <2>7, SameLinkTame
  <2> QED
    BY <2>2, <2>5, <2>6, <2>7
<1> QED
  BY <1>3, <1>4, <1>5, <1>6, <1>7, <1>8

LEMMA CleanupLinks ==
    ASSUME MigInv, MigInv', AbortInv, NEW m \in Migs, CleanupStart(m) \/ CleanupEnd(m)
    PROVE  AbortInv'
<1>0. /\ MigShape /\ mig[m] \in MigRow /\ mig \in [Migs -> MigRow] /\ Cleanup \in JobIds
      /\ SameLink(m, mig[m]) /\ Tame(m, job[m])
  BY LinkSame, JobsTame, JobNames DEF MigInv, MigShape
<1>1. \A st \in {"queued", "failed", "succeeded", "paused", "canceled"} : Tame(m, Settled(m, Cleanup, st))
  BY <1>0, SettledTame, JobStatusNames
<1>2. ASSUME NEW js, Tame(m, js), job' = [job EXCEPT ![m] = js], UNCHANGED item,
             NEW w, UNCHANGED work \/ work' = [work EXCEPT ![m][Cleanup] = w],
             UNCHANGED mig \/ \E x \in MigStatuses \ {"none"} : mig' = [mig EXCEPT ![m].status = x]
      PROVE  AbortInv'
  <2>1. Unpassed
    BY <1>0, <1>2, OtherWork
  <2>2. PICK r : SameLink(m, r) /\ mig' = [mig EXCEPT ![m] = r]
    BY <1>0, <1>2, LinkSame
  <2> QED
    BY <1>2, <2>1, <2>2, JobStep, SameLinkTame DEF Unpassed
<1>3. CASE CleanupStart(m)
  <2>1. CASE mig[m].keep \/ mig[m].status = "retained"
    <3>1. UNCHANGED <<mig, item, work>> /\ job' = [job EXCEPT ![m] = Settled(m, Cleanup, "succeeded")]
      BY <1>3, <2>1, Zenon DEF CleanupStart
    <3> QED
      BY <1>1, <1>2, <3>1
  <2>2. CASE ~(mig[m].keep \/ mig[m].status = "retained")
    <3> DEFINE x == [job[m][Cleanup] EXCEPT !.st = "running"]
               w == [f \in Files |-> IF item[m][f].status \in {"none", "cleaned", "deleted"}
                                     THEN Idle ELSE [pc |-> "todo", left |-> {}]]
    <3>1. /\ mig' = [mig EXCEPT ![m].status = "cleaning"] /\ UNCHANGED item
          /\ job' = [job EXCEPT ![m][Cleanup].st = "running"]
          /\ work' = [work EXCEPT ![m][Cleanup] = w]
      BY <1>3, <2>2, Zenon DEF CleanupStart
    <3>2. job' = [job EXCEPT ![m] = [job[m] EXCEPT ![Cleanup] = x]]
      BY <3>1
    <3>3. x \in JobRow
      <4>1. job[m][Cleanup] \in JobRow
        BY <1>0 DEF Tame, JobRows
      <4> QED
        BY <4>1, JobStatusNames DEF JobRow
    <3> HIDE DEF x, w
    <3>4. Tame(m, [job[m] EXCEPT ![Cleanup] = x])
      BY <1>0, <3>3, SetTame
    <3> QED
      BY <1>2, <3>1, <3>2, <3>4, StatusNames
  <2> QED
    BY <2>1, <2>2
<1>4. CASE CleanupEnd(m)
  <2>1. work' = [work EXCEPT ![m][Cleanup] = NoWork] /\ UNCHANGED item
    BY <1>4, Zenon DEF CleanupEnd
  <2>2. \E st \in {"queued", "failed", "succeeded", "paused", "canceled"} :
            job' = [job EXCEPT ![m] = Settled(m, Cleanup, st)]
    <3>1. StopStatus(m, Cleanup) \in {"paused", "canceled"}
      BY DEF StopStatus
    <3>2. \E st \in {"queued", "failed", "succeeded", StopStatus(m, Cleanup)} :
            job' = [job EXCEPT ![m] = Settled(m, Cleanup, st)]
      BY <1>4, Zenon DEF CleanupEnd
    <3> QED
      BY <3>1, <3>2
  <2>3. UNCHANGED mig \/ \E x \in MigStatuses \ {"none"} : mig' = [mig EXCEPT ![m].status = x]
    BY <1>0, <1>4, EndedRow
  <2> QED
    BY <1>1, <1>2, <2>1, <2>2, <2>3
<1> QED
  BY <1>3, <1>4

(* An administrator and the reconciler. *)
LEMMA AdminLinks ==
    ASSUME MigInv, MigInv', AbortInv, NEW m \in Migs,
           \/ KeepOriginals(m) \/ CancelFailed(m)
           \/ \E reflect \in BOOLEAN : CancelMain(m, reflect)
           \/ \E j \in JobIds, reflect \in BOOLEAN :
                 Pause(m, j, reflect) \/ Resume(m, j, reflect) \/ Retry(m, j, reflect)
                   \/ CancelOther(m, j, reflect)
           \/ \E j \in JobIds : Purge(m, j)
    PROVE  AbortInv'
<1>0. /\ MigShape /\ mig[m] \in MigRow /\ mig \in [Migs -> MigRow] /\ Main \in JobIds
      /\ SameLink(m, mig[m]) /\ SameLink(m, KeepRow(mig[m])) /\ Tame(m, job[m])
  BY LinkSame, JobsTame, JobNames DEF MigInv, MigShape
<1>1. ASSUME NEW js, Tame(m, js), NEW r, RowTame(m, r, js), mig' = [mig EXCEPT ![m] = r],
             job' = [job EXCEPT ![m] = js], UNCHANGED <<item, work>>
      PROVE  AbortInv'
  <2>1. Unpassed
    BY <1>0, <1>1 DEF Unpassed, Pc
  <2> QED
    BY <1>1, <2>1, JobStep DEF Unpassed
<1>2. ASSUME NEW js, Tame(m, js), NEW x \in MigStatuses \ {"none"},
             UNCHANGED mig \/ mig' = [mig EXCEPT ![m].status = x],
             job' = [job EXCEPT ![m] = js], UNCHANGED <<item, work>>
      PROVE  AbortInv'
  <2>1. PICK r : SameLink(m, r) /\ mig' = [mig EXCEPT ![m] = r]
    BY <1>0, <1>2, LinkSame
  <2> QED
    BY <1>1, <1>2, <2>1, SameLinkTame
<1>3. CASE KeepOriginals(m)
  <2>1. /\ mig' = [mig EXCEPT ![m] = KeepRow(mig[m])] /\ UNCHANGED <<item, work>>
        /\ job' = [job EXCEPT ![m] = KeepJobs(mig[m], job[m])]
    BY <1>3, Zenon DEF KeepOriginals
  <2> QED
    BY <1>0, <1>1, <2>1, KeepTame, SameLinkTame
<1>4. CASE CancelFailed(m)
  <2>1. /\ mig' = [mig EXCEPT ![m] = AbortRow(mig[m], job[m])] /\ CanAbort(mig[m], job[m])
        /\ job' = [job EXCEPT ![m] = AbortJobs(mig[m], job[m])] /\ UNCHANGED <<item, work>>
    BY <1>4, Zenon DEF CancelFailed
  <2> QED
    BY <1>0, <1>1, <2>1, AbortTame
<1>5. ASSUME NEW reflect \in BOOLEAN, CancelMain(m, reflect) PROVE AbortInv'
  <2> DEFINE js == [job[m] EXCEPT ![Main] = CancelJob(job[m][Main])]
  <2>1. /\ UNCHANGED <<item, work>>
        /\ reflect => CanAbort(mig[m], js)
        /\ mig' = IF reflect THEN [mig EXCEPT ![m] = AbortRow(mig[m], js)] ELSE mig
        /\ job' = [job EXCEPT ![m] = IF reflect THEN AbortJobs(mig[m], js) ELSE js]
    BY <1>5, Zenon DEF CancelMain
  <2>2. Tame(m, js)
    BY <1>0, ControlTame
  <2> HIDE DEF js
  <2>3. CASE reflect
    BY <1>0, <1>1, <2>1, <2>2, <2>3, AbortTame
  <2>4. CASE ~reflect
    BY <1>0, <1>1, <2>1, <2>2, <2>4, RowUnchanged, SameLinkTame
  <2> QED
    BY <2>3, <2>4
<1>6. ASSUME NEW j \in JobIds, NEW reflect \in BOOLEAN, Pause(m, j, reflect)
      PROVE  AbortInv'
  <2>1. /\ UNCHANGED <<item, work>> /\ job' = [job EXCEPT ![m][j] = PauseJob(job[m][j])]
        /\ \/ UNCHANGED mig
           \/ mig' = [mig EXCEPT ![m].status = "canceled"]
           \/ mig' = [mig EXCEPT ![m].status = "paused"]
    BY <1>6 DEF Pause
  <2>2. PICK js : Tame(m, js) /\ job' = [job EXCEPT ![m] = js]
    BY <1>0, <2>1, ControlTame
  <2>3. PICK x \in MigStatuses \ {"none"} : UNCHANGED mig \/ mig' = [mig EXCEPT ![m].status = x]
    BY <2>1, StatusNames
  <2> QED
    BY <1>2, <2>1, <2>2, <2>3
<1>7. ASSUME NEW j \in JobIds, NEW reflect \in BOOLEAN, Resume(m, j, reflect)
      PROVE  AbortInv'
  <2>1. UNCHANGED <<item, work>> /\ job' = [job EXCEPT ![m][j] = Fresh]
    BY <1>7, Zenon DEF Resume
  <2>2. UNCHANGED mig \/ \E x \in MigStatuses \ {"none"} : mig' = [mig EXCEPT ![m].status = x]
    BY <1>7, ResumedRow
  <2>3. PICK js : Tame(m, js) /\ job' = [job EXCEPT ![m] = js]
    BY <1>0, <2>1, ControlTame
  <2>4. PICK x \in MigStatuses \ {"none"} : UNCHANGED mig \/ mig' = [mig EXCEPT ![m].status = x]
    BY <2>2, StatusNames
  <2> QED
    BY <1>2, <2>1, <2>3, <2>4
<1>8. ASSUME NEW j \in JobIds, NEW reflect \in BOOLEAN, Retry(m, j, reflect)
      PROVE  AbortInv'
  <2> DEFINE r == [mig[m] EXCEPT !.status = "queued", !.cleanup = NoJob,
                                 !.canceled = FALSE, !.keep = FALSE]
             s == [mig[m] EXCEPT !.status = "canceled"]
  <2>1. UNCHANGED <<item, work>> /\ job' = [job EXCEPT ![m][j] = Fresh]
    BY <1>8, Zenon DEF Retry
  <2>2. mig' = [mig EXCEPT ![m] = CASE reflect /\ j = Main -> r
                                    [] reflect /\ j[1] = "abort" -> s
                                    [] OTHER -> mig[m]]
    BY <1>8, Zenon DEF Retry
  <2>3. SameLink(m, r) /\ SameLink(m, s)
    BY <1>0, StatusNames DEF SameLink, MigRow
  <2> HIDE DEF r, s
  <2>4. (CASE reflect /\ j = Main -> r
           [] reflect /\ j[1] = "abort" -> s
           [] OTHER -> mig[m]) \in {r, s, mig[m]}
    OBVIOUS
  <2>5. PICK x : SameLink(m, x) /\ mig' = [mig EXCEPT ![m] = x]
    BY <1>0, <2>2, <2>3, <2>4
  <2>6. PICK js : Tame(m, js) /\ job' = [job EXCEPT ![m] = js]
    BY <1>0, <2>1, ControlTame
  <2> QED
    BY <1>1, <2>1, <2>5, <2>6, SameLinkTame
<1>9. ASSUME NEW j \in JobIds, NEW reflect \in BOOLEAN, CancelOther(m, j, reflect)
      PROVE  AbortInv'
  <2> DEFINE js == [job[m] EXCEPT ![j] = CancelJob(job[m][j])]
  <2>1. /\ UNCHANGED <<item, work>>
        /\ \/ UNCHANGED mig /\ job' = [job EXCEPT ![m] = js]
           \/ /\ mig' = [mig EXCEPT ![m] = KeepRow(mig[m])]
              /\ job' = [job EXCEPT ![m] = KeepJobs(mig[m], js)]
    BY <1>9, Zenon DEF CancelOther
  <2>2. Tame(m, js)
    BY <1>0, ControlTame
  <2> HIDE DEF js
  <2>3. Tame(m, KeepJobs(mig[m], js))
    BY <1>0, <2>2, KeepTame
  <2> QED
    BY <1>0, <1>1, <2>1, <2>2, <2>3, RowUnchanged, SameLinkTame
<1>10. ASSUME NEW j \in JobIds, Purge(m, j) PROVE AbortInv'
  <2>1. UNCHANGED <<mig, item, work>> /\ job' = [job EXCEPT ![m][j] = Unborn]
    BY <1>10, Zenon DEF Purge
  <2>2. PICK js : Tame(m, js) /\ job' = [job EXCEPT ![m] = js]
    BY <1>0, <2>1, ControlTame
  <2> QED
    BY <1>0, <1>1, <2>1, <2>2, RowUnchanged, SameLinkTame
<1> QED
  BY <1>3, <1>4, <1>5, <1>6, <1>7, <1>8, <1>9, <1>10

LEMMA ReconcileLinks ==
    ASSUME MigInv, MigInv', AbortInv, NEW m \in Migs, Reconcile(m)
    PROVE  AbortInv'
<1>0. /\ MigShape /\ mig[m] \in MigRow /\ mig \in [Migs -> MigRow] /\ Main \in JobIds /\ Cleanup \in JobIds
      /\ SameLink(m, mig[m]) /\ SameLink(m, KeepRow(mig[m])) /\ Tame(m, job[m])
      /\ job = [job EXCEPT ![m] = job[m]]
  BY LinkSame, JobsTame, JobNames DEF MigInv, MigShape, AbortInv
<1>1. UNCHANGED item /\ Unpassed
  <2>1. UNCHANGED <<item, work>>
    BY Zenon DEF Reconcile
  <2> QED
    BY <2>1 DEF Unpassed, Pc
<1>2. ASSUME NEW js, Tame(m, js), NEW r, RowTame(m, r, js), mig' = [mig EXCEPT ![m] = r],
             job' = [job EXCEPT ![m] = js]
      PROVE  AbortInv'
  BY <1>1, <1>2, JobStep DEF Unpassed
<1>3. CASE ReconcileCleanup(m)
  <2> DEFINE r == seen[m]
             c == job[m][r.cleanup].st
             unlinked == [mig[m] EXCEPT !.cleanup = NoJob]
             js == ScheduleJobs(m, unlinked, job[m])
             row == IF r.status = "paused"
                    THEN [ScheduleRow(m, unlinked) EXCEPT !.status = "paused"]
                    ELSE ScheduleRow(m, unlinked)
             jobs == IF r.status = "paused" THEN [js EXCEPT ![Cleanup] = PauseJob(js[Cleanup])]
                     ELSE js
             status(due) == IF c = "paused" \/ job[m][Cleanup].stop = "pause" THEN "paused"
                            ELSE IF c = "succeeded" THEN "completed"
                            ELSE IF job[m][Cleanup].stop = "no" /\ c = "queued" /\ ~ due THEN "retaining"
                            ELSE IF job[m][Cleanup].stop = "no" /\ c \in {"queued", "running"} THEN "cleaning"
                            ELSE mig[m].status
  <2>1. \/ /\ CanAbort(mig[m], job[m]) /\ mig' = [mig EXCEPT ![m] = AbortRow(mig[m], job[m])]
           /\ job' = [job EXCEPT ![m] = AbortJobs(mig[m], job[m])]
        \/ mig' = [mig EXCEPT ![m] = row] /\ job' = [job EXCEPT ![m] = jobs]
        \/ /\ mig' = [mig EXCEPT ![m] = KeepRow(mig[m])]
           /\ job' = [job EXCEPT ![m] = KeepJobs(mig[m], job[m])]
        \/ UNCHANGED mig /\ UNCHANGED job
        \/ (\E due \in BOOLEAN : mig' = [mig EXCEPT ![m].status = status(due)]) /\ UNCHANGED job
        \/ mig' = [mig EXCEPT ![m].status = "canceled"] /\ UNCHANGED job
    BY <1>3, Zenon DEF ReconcileCleanup
  <2>2. SameLink(m, row) /\ Tame(m, jobs)
    <3>1. unlinked \in MigRow /\ SameLink(m, unlinked)
      BY <1>0 DEF SameLink, MigRow
    <3> HIDE DEF unlinked
    <3>2. SameLink(m, ScheduleRow(m, unlinked)) /\ Tame(m, js)
      BY <1>0, <3>1, ScheduleTame
    <3>3. RowChange(m, unlinked) => ScheduleRow(m, unlinked) \in MigRow
      BY <1>0, ScheduleRowChange DEF RowChange
    <3>4. RowChange(m, unlinked)
      BY <1>0 DEF unlinked, RowChange, MigRow
    <3>5. SameLink(m, [ScheduleRow(m, unlinked) EXCEPT !.status = "paused"])
      BY <3>2, <3>3, <3>4 DEF SameLink, MigRow
    <3> HIDE DEF js
    <3> QED
      BY <1>0, <3>2, <3>5, ControlTame
  <2>3. \A due \in BOOLEAN :
           status(due) \in {"paused", "completed", "retaining", "cleaning", mig[m].status}
    OBVIOUS
  <2>4. \A x \in {"paused", "completed", "retaining", "cleaning", "canceled", mig[m].status} :
           SameLink(m, [mig[m] EXCEPT !.status = x])
    BY <1>0, StatusNames DEF SameLink, MigRow
  <2> HIDE DEF row, jobs, status
  <2>5. CASE /\ CanAbort(mig[m], job[m]) /\ mig' = [mig EXCEPT ![m] = AbortRow(mig[m], job[m])]
             /\ job' = [job EXCEPT ![m] = AbortJobs(mig[m], job[m])]
    BY <1>0, <1>2, <2>5, AbortTame
  <2>6. CASE mig' = [mig EXCEPT ![m] = row] /\ job' = [job EXCEPT ![m] = jobs]
    BY <1>2, <2>2, <2>6, SameLinkTame
  <2>7. CASE /\ mig' = [mig EXCEPT ![m] = KeepRow(mig[m])]
             /\ job' = [job EXCEPT ![m] = KeepJobs(mig[m], job[m])]
    BY <1>0, <1>2, <2>7, KeepTame, SameLinkTame
  <2>8. ASSUME UNCHANGED job, NEW x, SameLink(m, x), mig' = [mig EXCEPT ![m] = x] PROVE AbortInv'
    BY <1>0, <1>2, <2>8, SameLinkTame
  <2>9. CASE UNCHANGED mig /\ UNCHANGED job
    BY <1>0, <2>8, <2>9, RowUnchanged
  <2>10. CASE /\ UNCHANGED job
              /\ \/ \E due \in BOOLEAN : mig' = [mig EXCEPT ![m].status = status(due)]
                 \/ mig' = [mig EXCEPT ![m].status = "canceled"]
    BY <2>3, <2>4, <2>8, <2>10
  <2> QED
    BY <2>1, <2>5, <2>6, <2>7, <2>9, <2>10
<1>4. CASE ReconcileMain(m)
  <2> DEFINE r == seen[m]
             first == IF job[m][Main].st # "none" THEN job[m][Main]
                      ELSE IF r.status = "paused" THEN [Fresh EXCEPT !.st = "paused"] ELSE Fresh
             fresh == [job[m] EXCEPT ![Main] = first]
             js == IF r.status \in {"canceled", "retaining", "cleaning"} THEN job[m] ELSE fresh
             main == js[Main]
             abort == r.status = "canceled" \/ (r.status \in {"queued", "running", "paused"} /\ main.st = "canceled")
             schedule == \/ r.status \in {"retaining", "cleaning"}
                         \/ r.status \in {"queued", "running", "paused"} /\ main.st = "succeeded"
             row == IF abort THEN AbortRow(mig[m], js)
                    ELSE IF schedule THEN ScheduleRow(m, mig[m])
                    ELSE IF main.st = "paused" \/ main.stop = "pause" THEN [mig[m] EXCEPT !.status = "paused"]
                    ELSE IF main.st \in {"queued", "running", "failed"} /\ main.stop = "no"
                    THEN [mig[m] EXCEPT !.status = main.st]
                    ELSE mig[m]
             jobs == IF abort THEN AbortJobs(mig[m], js)
                     ELSE IF schedule THEN ScheduleJobs(m, mig[m], js) ELSE js
  <2>1. /\ mig' = [mig EXCEPT ![m] = row] /\ job' = [job EXCEPT ![m] = jobs]
        /\ abort => CanAbort(mig[m], js)
    BY <1>4, Zenon DEF ReconcileMain
  <2>2. Tame(m, js)
    <3>1. first \in JobRow
      BY <1>0, JobStatusNames DEF Tame, JobRows, JobRow, Fresh
    <3> HIDE DEF first
    <3>2. Tame(m, fresh)
      BY <1>0, <3>1, SetTame
    <3> HIDE DEF fresh
    <3> QED
      BY <1>0, <3>2
  <2> HIDE DEF abort, schedule, js, main
  <2>3. \/ abort /\ row = AbortRow(mig[m], js) /\ jobs = AbortJobs(mig[m], js)
        \/ /\ \/ row = ScheduleRow(m, mig[m])
              \/ row = [mig[m] EXCEPT !.status = "paused"]
              \/ main.st \in {"queued", "running", "failed"} /\ row = [mig[m] EXCEPT !.status = main.st]
              \/ row = mig[m]
           /\ jobs \in {js, ScheduleJobs(m, mig[m], js)}
    <3>1. CASE abort
      BY <3>1
    <3>2. CASE ~abort
      <4>1. jobs \in {js, ScheduleJobs(m, mig[m], js)}
        BY <3>2
      <4>2. \/ row = ScheduleRow(m, mig[m])
            \/ row = [mig[m] EXCEPT !.status = "paused"]
            \/ main.st \in {"queued", "running", "failed"} /\ row = [mig[m] EXCEPT !.status = main.st]
            \/ row = mig[m]
        BY <3>2
      <4> QED
        BY <4>1, <4>2
    <3> QED
      BY <3>1, <3>2
  <2> HIDE DEF row, jobs
  <2>4. CASE abort /\ row = AbortRow(mig[m], js) /\ jobs = AbortJobs(mig[m], js)
    BY <1>0, <1>2, <2>1, <2>2, <2>4, AbortTame
  <2>5. CASE /\ \/ row = ScheduleRow(m, mig[m])
                \/ row = [mig[m] EXCEPT !.status = "paused"]
                \/ main.st \in {"queued", "running", "failed"} /\ row = [mig[m] EXCEPT !.status = main.st]
                \/ row = mig[m]
             /\ jobs \in {js, ScheduleJobs(m, mig[m], js)}
    <3>1. Tame(m, jobs) /\ SameLink(m, ScheduleRow(m, mig[m]))
      BY <1>0, <2>2, <2>5, ScheduleTame
    <3>2. SameLink(m, row)
      BY <1>0, <2>5, <3>1, LinkSame, StatusNames
    <3> QED
      BY <1>2, <2>1, <3>1, <3>2, SameLinkTame
  <2> QED
    BY <2>3, <2>4, <2>5
<1> QED
  BY <1>3, <1>4, Zenon DEF Reconcile

(* The abort job itself: it starts with every item ahead of it, and ends   *)
(* well only when it is through all of them.                               *)
LEMMA AbortStarts ==
    ASSUME MigInv, MigInv', AbortInv, NEW m \in Migs, NEW g \in 1..MaxGen, AbortStart(m, g)
    PROVE  AbortInv'
<1>0. /\ MigShape /\ MigShape' /\ SameLink(m, mig[m]) /\ Tame(m, job[m])
      /\ job \in [Migs -> JobRows] /\ work \in Works /\ \A n \in Migs : AbortOK(n)
      /\ Abort(g) \in JobIds
  BY LinkSame, JobsTame, JobNames DEF MigInv, MigShape, AbortInv, Works
<1>1. UNCHANGED <<mig, item>>
  BY Zenon DEF AbortStart
<1>2. CASE job[m][Main].st \notin Terminal \cup {"none"}
  <2>1. /\ UNCHANGED work
        /\ \E st \in {"queued", "failed"} : job' = [job EXCEPT ![m] = Settled(m, Abort(g), st)]
    BY <1>2, Zenon DEF AbortStart
  <2>2. PICK js : Tame(m, js) /\ job' = [job EXCEPT ![m] = js]
    BY <1>0, <2>1, SettledTame, JobStatusNames DEF Closing
  <2>3. Unpassed
    BY <2>1 DEF Unpassed, Pc
  <2> QED
    BY <1>0, <1>1, <2>2, <2>3, RowUnchanged, SameLinkTame, JobStep DEF Unpassed
<1>3. CASE job[m][Main].st \in Terminal \cup {"none"}
  <2> DEFINE w == [f \in Files |-> IF f \in Items(m) THEN [pc |-> "todo", left |-> {}] ELSE Idle]
  <2>1. /\ job' = [job EXCEPT ![m][Abort(g)].st = "running"]
        /\ work' = [work EXCEPT ![m][Abort(g)] = w]
    BY <1>3, Zenon DEF AbortStart
  <2>2. /\ job' \in [Migs -> JobRows] /\ job'[m][Abort(g)].st = "running"
        /\ \A n \in Migs, j \in JobIds : n # m \/ j # Abort(g) => job'[n][j] = job[n][j]
    <3>1. job[m][Abort(g)] \in JobRow /\ "running" \in JobStatuses
      BY <1>0, JobStatusNames DEF JobRows
    <3>2. [job[m][Abort(g)] EXCEPT !.st = "running"] \in JobRow
      BY <3>1 DEF JobRow
    <3>3. [job[m][Abort(g)] EXCEPT !.st = "running"].st = "running"
      BY <3>1 DEF JobRow
    <3> QED
      BY <1>0, <2>1, <3>2, <3>3 DEF JobRows
  <2>3. \A n \in Migs, j \in JobIds : work'[n][j] = IF n = m /\ j = Abort(g) THEN w ELSE work[n][j]
    BY <1>0, <2>1 DEF Works
  <2>4. \A n \in Migs, f \in Files : Falls(n, f) /\ (Reserves(n, f)' <=> Reserves(n, f))
    BY <1>0, <1>1 DEF Falls, Reserves, Planned, AbortOK
  <2>5. ASSUME NEW f \in Files, Passed(m, Abort(g), f)' PROVE ~Reserves(m, f)'
    <3>1. work'[m][Abort(g)] = w
      BY <1>0, <2>3
    <3>2. f \notin Items(m)
      BY <2>5, <3>1 DEF Passed, Pc
    <3>3. AbortOK(m) /\ ~Planned(m, f)
      BY <1>0, <3>2 DEF Items, Planned
    <3> QED
      BY <2>4, <3>3 DEF AbortOK, Reserves
  <2> HIDE DEF w
  <2>6. ASSUME NEW n \in Migs, NEW h \in 1..MaxGen, NEW f \in Files, Passed(n, Abort(h), f)'
        PROVE  Passed(n, Abort(h), f) \/ ~Reserves(n, f)'
    BY <2>3, <2>5, <2>6, JobNames DEF Passed, Pc
  <2>7. ASSUME NEW n \in Migs PROVE AbortOK(n)'
    <3>1. mig'[n] = mig[n] /\ (mig'[n].status = "none" => mig'[n].cleanup = NoJob)
      BY <1>0, <1>1 DEF AbortOK
    <3>2. CASE n # m \/ mig[n].cleanup # Abort(g)
      <4>1. Linked(n)' => job'[n][mig[n].cleanup].st = job[n][mig[n].cleanup].st
        <5> SUFFICES ASSUME Linked(n) PROVE job'[n][mig[n].cleanup].st = job[n][mig[n].cleanup].st
          BY <3>1 DEF Linked
        <5>1. PICK h \in 1..MaxGen : mig[n].cleanup = Abort(h)
          BY <1>0, LinkNames DEF Linked, MigShape, MigRow
        <5> QED
          BY <2>2, <3>2, <5>1, JobNames
      <4> QED
        BY <1>0, <2>4, <2>6, <3>1, <4>1, LinkStep
    <3>3. CASE n = m /\ mig[n].cleanup = Abort(g)
      <4>1. job'[n][Abort(g)].st = "running" /\ mig'[n].cleanup = Abort(g)
        BY <2>2, <3>1, <3>3
      <4>2. \A f \in Files : Passed(n, Abort(g), f)' => ~Reserves(n, f)'
        BY <2>5, <3>3
      <4> QED
        BY <2>4, <3>1, <4>1, <4>2 DEF AbortOK, Falls
    <3> QED
      BY <3>2, <3>3
  <2> QED
    BY <2>2, <2>7 DEF AbortInv
<1> QED
  BY <1>2, <1>3

LEMMA AbortEnds ==
    ASSUME MigInv, MigInv', AbortInv, NEW m \in Migs, NEW g \in 1..MaxGen, AbortEnd(m, g)
    PROVE  AbortInv'
<1> DEFINE a == Abort(g)
<1>0. /\ MigShape /\ MigShape' /\ mig \in [Migs -> MigRow]
      /\ job \in [Migs -> JobRows] /\ work \in Works /\ \A n \in Migs : AbortOK(n)
      /\ a \in JobIds
  BY JobNames DEF MigInv, MigShape, AbortInv, Works
<1>1. UNCHANGED item /\ Running(m, a) /\ work' = [work EXCEPT ![m][a] = NoWork]
  BY Zenon DEF AbortEnd
<1>2. PICK st \in {"queued", "failed", "succeeded", "paused", "canceled"} :
          /\ job' = [job EXCEPT ![m] = Settled(m, a, st)]
          /\ st = "succeeded" => \A f \in Files : Passed(m, a, f)
  <2>1. StopStatus(m, a) \in {"paused", "canceled"}
    BY DEF StopStatus
  <2>2. \/ job' = [job EXCEPT ![m] = Settled(m, a, StopStatus(m, a))]
        \/ \E st \in {"queued", "failed"} : job' = [job EXCEPT ![m] = Settled(m, a, st)]
        \/ /\ \A f \in Files : work[m][a][f].pc \in {"off", "done"}
           /\ job' = [job EXCEPT ![m] = Settled(m, a, "succeeded")]
    BY Zenon DEF AbortEnd
  <2> QED
    BY <2>1, <2>2 DEF Passed, Pc
<1>3. PICK r : SameLink(m, r) /\ r.cleanup = mig[m].cleanup /\ mig' = [mig EXCEPT ![m] = r]
  <2>1. \/ UNCHANGED mig
        \/ mig' = [mig EXCEPT ![m] = [mig[m] EXCEPT !.status = "canceled"]]
    BY Zenon DEF AbortEnd
  <2>2. /\ SameLink(m, mig[m]) /\ SameLink(m, [mig[m] EXCEPT !.status = "canceled"])
        /\ [mig[m] EXCEPT !.status = "canceled"].cleanup = mig[m].cleanup
    BY <1>0, LinkSame, StatusNames DEF MigRow
  <2>3. mig = [mig EXCEPT ![m] = mig[m]]
    BY <1>0
  <2> QED
    BY <2>1, <2>2, <2>3
<1>4. /\ job' \in [Migs -> JobRows] /\ job'[m][a].st \in {st, "queued", "paused", "canceled"}
      /\ \A n \in Migs, j \in JobIds : n # m \/ j # a => job'[n][j] = job[n][j]
  <2> DEFINE stop == job[m][a].stop
             x == CASE st \in {"succeeded", "paused"} /\ stop = "cancel" ->
                         [st |-> "canceled", stop |-> "no"]
                    [] st = "queued" /\ stop = "pause" -> [st |-> "paused", stop |-> "no"]
                    [] st = "queued" /\ stop = "cancel" -> [st |-> "queued", stop |-> "cancel"]
                    [] OTHER -> [st |-> st, stop |-> "no"]
  <2>1. job' = [job EXCEPT ![m] = [job[m] EXCEPT ![a] = x]]
    BY <1>2 DEF Settled
  <2>2. x \in JobRow /\ x.st \in {st, "queued", "paused", "canceled"}
    BY JobStatusNames DEF JobRow
  <2> HIDE DEF x
  <2> QED
    BY <1>0, <2>1, <2>2 DEF JobRows
<1>5. \A n \in Migs, j \in JobIds : n # m \/ j # a => work'[n][j] = work[n][j]
  BY <1>0, <1>1 DEF Works
<1>6. \A n \in Migs, f \in Files : Falls(n, f) /\ (Reserves(n, f)' <=> Reserves(n, f))
  BY <1>0, <1>1 DEF Falls, Reserves, Planned, AbortOK
<1>7. \A n \in Migs : mig'[n].cleanup = mig[n].cleanup /\ (mig'[n].status = "none" => mig'[n].cleanup = NoJob)
  BY <1>0, <1>3 DEF AbortOK, SameLink
<1>8. ASSUME NEW n \in Migs PROVE AbortOK(n)'
  <2>1. ASSUME NEW h \in 1..MaxGen, NEW f \in Files,
               job'[n][Abort(h)].st = "running", Passed(n, Abort(h), f)'
        PROVE  Passed(n, Abort(h), f) \/ ~Reserves(n, f)'
    <3>1. ~(n = m /\ Abort(h) = a)
      BY <1>4, <2>1
    <3> QED
      BY <1>5, <2>1, <3>1, JobNames DEF Passed, Pc
  <2>2. CASE n # m \/ mig[n].cleanup # a
    <3>1. Linked(n)' => job'[n][mig[n].cleanup].st = job[n][mig[n].cleanup].st
      <4> SUFFICES ASSUME Linked(n) PROVE job'[n][mig[n].cleanup].st = job[n][mig[n].cleanup].st
        BY <1>7 DEF Linked
      <4>1. PICK h \in 1..MaxGen : mig[n].cleanup = Abort(h)
        BY <1>0, LinkNames DEF Linked, MigShape, MigRow
      <4> QED
        BY <1>4, <2>2, <4>1, JobNames
    <3> QED
      BY <1>0, <1>6, <1>7, <2>1, <3>1, LinkStep
  <2>3. CASE n = m /\ mig[n].cleanup = a
    <3>1. job[m][a].st = "running" /\ Linked(m)
      BY <1>1, <2>3 DEF Running, Linked, Abort
    <3>2. job'[m][a].st # "running"
      BY <1>4
    <3>3. job'[m][a].st = "succeeded" => \A f \in Files : ~Reserves(m, f)'
      BY <1>0, <1>2, <1>4, <1>6, <2>3, <3>1 DEF AbortOK
    <3> QED
      BY <1>6, <1>7, <2>3, <3>2, <3>3 DEF AbortOK, Falls
  <2> QED
    BY <2>2, <2>3
<1> QED
  BY <1>4, <1>8 DEF AbortInv

(* Steps of the items: a reservation is dropped or stays. *)
Eased(m, f) ==
    /\ item'[m][f].status # "none"
    /\ item'[m][f].reserved => item[m][f].reserved
    /\ item[m][f].status = "deleted" => item'[m][f].status = "deleted" \/ ~item'[m][f].reserved
OnlyItem(m, f) ==
    \A n \in Migs, g \in Files : n # m \/ g # f => item'[n][g] = item[n][g]
(* A file the abort jobs are through with by this step is not reserved. *)
PassedReleased == \A n \in Migs, g \in 1..MaxGen, f \in Files :
    Passed(n, Abort(g), f)' => Passed(n, Abort(g), f) \/ ~Reserves(n, f)'

LEMMA FallStep ==
    ASSUME MigInv, MigInv', AbortInv, UNCHANGED job, PassedReleased,
           \A n \in Migs : mig'[n].cleanup = mig[n].cleanup
                           /\ (mig'[n].status = "none" => mig[n].status = "none"),
           \A n \in Migs, f \in Files : Falls(n, f)
    PROVE  AbortInv'
<1>1. MigShape' /\ \A n \in Migs : AbortOK(n)
  BY DEF MigInv, AbortInv
<1>2. ASSUME NEW n \in Migs PROVE AbortOK(n)'
  <2>1. mig'[n].status = "none" => mig'[n].cleanup = NoJob
    BY <1>1 DEF AbortOK
  <2> QED
    BY <1>1, <2>1, LinkStep DEF PassedReleased
<1> QED
  BY <1>2 DEF AbortInv

LEMMA ItemEases ==
    ASSUME MigInv, MigInv', AbortInv, UNCHANGED job, PassedReleased,
           \A n \in Migs : mig'[n].cleanup = mig[n].cleanup
                           /\ (mig'[n].status = "none" => mig[n].status = "none"),
           NEW m \in Migs, NEW f \in Files, OnlyItem(m, f), Eased(m, f) \/ item'[m][f] = item[m][f]
    PROVE  AbortInv'
<1>1. \A n \in Migs, g \in Files : ~Planned(n, g) => ~item[n][g].reserved
  BY DEF AbortInv, AbortOK
<1>2. \A n \in Migs, g \in Files : item'[n][g] = item[n][g] => Falls(n, g)
  BY <1>1 DEF Falls, Reserves, Planned
<1>3. Eased(m, f) => Falls(m, f)
  BY DEF Eased, Falls, Reserves, Planned
<1>4. \A n \in Migs, g \in Files : Falls(n, g)
  BY <1>2, <1>3 DEF OnlyItem
<1> QED
  BY <1>4, FallStep

LEMMA UnpassedReleased == Unpassed => PassedReleased
  BY DEF Unpassed, PassedReleased, Passed

LEMMA MovedOther ==
    ASSUME MigShape, NEW m \in Migs, NEW j \in {Main, Cleanup}, NEW f \in Files, NEW w,
           work' = [work EXCEPT ![m][j][f] = w]
    PROVE  PassedReleased
<1>1. work \in Works /\ work' = [work EXCEPT ![m][j] = [work[m][j] EXCEPT ![f] = w]]
  BY DEF MigShape, Works
<1> QED
  BY <1>1, OtherWork, UnpassedReleased

LEMMA ItemOnly ==
    ASSUME MigShape, NEW m \in Migs, NEW f \in Files, NEW i, item' = [item EXCEPT ![m][f] = i]
    PROVE  OnlyItem(m, f) /\ item'[m][f] = i
BY DEF MigShape, OnlyItem

Fields(m, f, x, o) ==
    \/ item' = [item EXCEPT ![m][f].status = x]
    \/ item' = [item EXCEPT ![m][f].status = x, ![m][f].owned = o]
    \/ item' = [item EXCEPT ![m][f].status = x, ![m][f].cutover = o]

LEMMA FieldsSet ==
    ASSUME MigShape, NEW m \in Migs, NEW f \in Files, NEW x, NEW o,
           Fields(m, f, x, o)
    PROVE  /\ OnlyItem(m, f) /\ item'[m][f].status = x
           /\ item'[m][f].reserved = item[m][f].reserved
<1>1. /\ item \in [Migs -> [Files -> ItemRow]] /\ item[m][f] \in ItemRow
  BY DEF MigShape
<1>2. CASE item' = [item EXCEPT ![m][f].status = x]
  BY <1>1, <1>2 DEF OnlyItem, ItemRow
<1>3. CASE item' = [item EXCEPT ![m][f].status = x, ![m][f].owned = o]
  BY <1>1, <1>3 DEF OnlyItem, ItemRow
<1>4. CASE item' = [item EXCEPT ![m][f].status = x, ![m][f].cutover = o]
  BY <1>1, <1>4 DEF OnlyItem, ItemRow
<1> QED
  BY <1>2, <1>3, <1>4 DEF Fields

(* The copy of one item; an item whose lock is held is not closed. *)
LEMMA CopyLinks ==
    ASSUME MigInv, MigInv', AbortInv, NEW m \in Migs, NEW f \in Files,
           \/ ItemStart(m, f) \/ CopyDone(m, f) \/ FinalStart(m, f) \/ Cutover(m, f)
           \/ ItemFault(m, f) \/ ItemStop(m, f) \/ \E o \in Objs : CopyObject(m, f, o)
    PROVE  AbortInv'
<1>0. /\ MigShape /\ item \in [Migs -> [Files -> ItemRow]] /\ item[m][f] \in ItemRow
      /\ Main \in JobIds
  BY JobNames DEF MigInv, MigShape
<1>1. /\ UNCHANGED mig /\ UNCHANGED job
      /\ \E w : work' = [work EXCEPT ![m][Main][f] = w]
  <2>1. UNCHANGED <<mig, job>>
    BY Zenon DEF ItemStart, CopyDone, FinalStart, Cutover, ItemFault, ItemStop, CopyObject
  <2>2. CASE \E o \in Objs : CopyObject(m, f, o)
    <3>1. PICK o \in Objs : work' = [work EXCEPT ![m][Main][f].left = @ \ {o}]
      BY <2>2, Zenon DEF CopyObject
    <3> QED
      BY <2>1, <3>1
  <2>3. CASE ~ \E o \in Objs : CopyObject(m, f, o)
    BY <2>1, <2>3, Zenon DEF ItemStart, CopyDone, FinalStart, Cutover, ItemFault, ItemStop,
                             BeginCopy, Goto
  <2> QED
    BY <2>2, <2>3
<1>2. PassedReleased
  BY <1>0, <1>1, MovedOther
<1>3. Pc(m, Main, f) \in {"copying", "final"} => item[m][f].status # "deleted"
  BY <1>0 DEF MigInv, Sound, WorkOK, ItemOK
<1>4. ASSUME NEW x, x # "none", item[m][f].status = "deleted" => x = "deleted", NEW o,
             Fields(m, f, x, o)
      PROVE  AbortInv'
  <2>1. /\ OnlyItem(m, f) /\ item'[m][f].status = x
        /\ item'[m][f].reserved = item[m][f].reserved
    BY <1>0, <1>4, FieldsSet
  <2>2. Eased(m, f)
    BY <1>4, <2>1 DEF Eased
  <2> QED
    BY <1>1, <1>2, <2>1, <2>2, ItemEases
<1>5. ASSUME UNCHANGED item PROVE AbortInv'
  BY <1>1, <1>2, <1>5, ItemEases DEF OnlyItem
<1>7. CASE CopyDone(m, f) \/ \E o \in Objs : CopyObject(m, f, o)
  <2>1. UNCHANGED item
    BY <1>7, Zenon DEF CopyDone, CopyObject
  <2> QED
    BY <1>5, <2>1
<1>8. CASE ItemFault(m, f)
  <2>1. /\ item' = [item EXCEPT ![m][f].status = "failed"] /\ Pc(m, Main, f) \in {"copying", "final"}
    BY <1>8, Zenon DEF ItemFault, Pc
  <2>2. Fields(m, f, "failed", FALSE)
    BY <2>1, Zenon DEF Fields
  <2> QED
    BY <1>3, <1>4, <2>1, <2>2
<1>9. CASE Cutover(m, f)
  <2>1. /\ item' = [item EXCEPT ![m][f].status = "cleanup_pending", ![m][f].cutover = TRUE]
        /\ Pc(m, Main, f) = "final"
    BY <1>9, Zenon DEF Cutover, At, Pc
  <2>2. Fields(m, f, "cleanup_pending", TRUE)
    BY <2>1, Zenon DEF Fields
  <2> QED
    BY <1>3, <1>4, <2>1, <2>2
<1>10. CASE ItemStop(m, f)
  <2> DEFINE x == IF item[m][f].status = "deleted" THEN "deleted" ELSE "pending"
  <2>1. item' = [item EXCEPT ![m][f].status = IF @ = "deleted" THEN @ ELSE "pending"]
    BY <1>10, Zenon DEF ItemStop
  <2>2. item' = [item EXCEPT ![m][f].status = x]
    BY <1>0, <2>1
  <2> HIDE DEF x
  <2>3. Fields(m, f, x, FALSE)
    BY <2>2, Zenon DEF Fields
  <2> QED
    BY <1>4, <2>3 DEF x
(* The file is gone, or its copy begins. *)
<1>11. ASSUME NEW wrote \in BOOLEAN, DropDestination(m, f, wrote) PROVE AbortInv'
  <2>1. \/ item' = [item EXCEPT ![m][f].status = "deleted"]
        \/ item' = [item EXCEPT ![m][f].status = "deleted", ![m][f].owned = FALSE]
    BY <1>11, Zenon DEF DropDestination
  <2>2. Fields(m, f, "deleted", FALSE)
    BY <2>1, Zenon DEF Fields
  <2> QED
    BY <1>4, <2>2
<1>12. ASSUME NEW p, NEW status \in {"copying", "verifying"}, item[m][f].status # "deleted",
              BeginCopy(m, f, p, status)
       PROVE  AbortInv'
  <2> DEFINE mine == item[m][f].owned \/ Empty(mig[m].dst, f)
             sound == file[f].at = mig[m].src /\ mine /\ ~Empty(mig[m].src, f)
             x == IF sound THEN status ELSE "failed"
             o == item[m][f].owned \/ (file[f].at = mig[m].src /\ mine)
  <2>1. item' = [item EXCEPT ![m][f].status = x,
                             ![m][f].owned = @ \/ (file[f].at = mig[m].src /\ mine)]
    BY <1>12, Zenon DEF BeginCopy
  <2>2. x # "none"
    OBVIOUS
  <2> HIDE DEF x, mine
  <2>3. item' = [item EXCEPT ![m][f].status = x, ![m][f].owned = o]
    BY <1>0, <2>1 DEF ItemRow
  <2> HIDE DEF o
  <2>4. Fields(m, f, x, o)
    BY <2>3, Zenon DEF Fields
  <2> QED
    BY <1>4, <1>12, <2>2, <2>4
<1>13. CASE ItemStart(m, f)
  <2>1. \/ UNCHANGED item
        \/ DropDestination(m, f, FALSE)
        \/ item[m][f].status # "deleted" /\ BeginCopy(m, f, "copying", "copying")
    BY <1>13, Zenon DEF ItemStart
  <2> QED
    BY <1>5, <1>11, <1>12, <2>1
<1>14. CASE FinalStart(m, f)
  <2>1. \/ DropDestination(m, f, TRUE)
        \/ item[m][f].status # "deleted" /\ BeginCopy(m, f, "final", "verifying")
    BY <1>14, Zenon DEF FinalStart
  <2> QED
    BY <1>11, <1>12, <2>1
<1> QED
  BY <1>7, <1>8, <1>9, <1>10, <1>13, <1>14

(* A position of a cleanup or an abort job. *)
LEMMA MovedJob ==
    ASSUME MigShape, NEW m \in Migs, NEW j \in JobIds, NEW f \in Files, NEW p, Goto(m, j, f, p),
           j \in {Main, Cleanup} \/ p \notin {"off", "done"} \/ ~Reserves(m, f)'
    PROVE  PassedReleased
<1>1. work \in Works /\ work' = [work EXCEPT ![m][j][f] = [pc |-> p, left |-> {}]]
  BY DEF MigShape, Works, Goto
<1>2. \A n \in Migs, k \in JobIds, g \in Files :
          work'[n][k][g] = IF n = m /\ k = j /\ g = f THEN [pc |-> p, left |-> {}] ELSE work[n][k][g]
  BY <1>1 DEF Works
<1> QED
  BY <1>2, JobNames DEF PassedReleased, Passed, Pc

LEMMA CleanupItemLinks ==
    ASSUME MigInv, MigInv', AbortInv, NEW m \in Migs, NEW f \in Files,
           CleanupItem(m, f) \/ CleanupItemDone(m, f)
    PROVE  AbortInv'
<1>0. /\ MigShape /\ item \in [Migs -> [Files -> ItemRow]] /\ item[m][f] \in ItemRow
      /\ Cleanup \in JobIds
  BY JobNames DEF MigInv, MigShape
<1>1. /\ UNCHANGED mig /\ UNCHANGED job
      /\ \E w : work' = [work EXCEPT ![m][Cleanup][f] = w]
  <2>1. UNCHANGED <<mig, job>>
    BY Zenon DEF CleanupItem, CleanupItemDone
  <2> QED
    BY <2>1, Zenon DEF CleanupItem, CleanupItemDone, Goto
<1>2. PassedReleased
  BY <1>0, <1>1, MovedOther
<1>3. CASE CleanupItem(m, f)
  <2>1. \/ UNCHANGED item
        \/ /\ item[m][f].status \notin Untouchable
           /\ \/ item' = [item EXCEPT ![m][f].status = "cleanup_pending"]
              \/ item' = [item EXCEPT ![m][f].status = "cleaning"]
    BY <1>3, Zenon DEF CleanupItem
  <2>2. CASE UNCHANGED item
    BY <1>1, <1>2, <2>2, ItemEases DEF OnlyItem
  <2>3. ASSUME NEW x \in {"cleanup_pending", "cleaning"}, item[m][f].status \notin Untouchable,
               item' = [item EXCEPT ![m][f].status = x]
        PROVE  AbortInv'
    <3>1. Fields(m, f, x, FALSE)
      BY <2>3, Zenon DEF Fields
    <3>2. /\ OnlyItem(m, f) /\ item'[m][f].status = x
          /\ item'[m][f].reserved = item[m][f].reserved
      BY <1>0, <3>1, FieldsSet
    <3>3. Eased(m, f)
      BY <2>3, <3>2 DEF Eased, Untouchable
    <3> QED
      BY <1>1, <1>2, <3>2, <3>3, ItemEases
  <2> QED
    BY <2>1, <2>2, <2>3
<1>4. CASE CleanupItemDone(m, f)
  <2>1. item' = [item EXCEPT ![m][f].status = "cleaned", ![m][f].cleaned = TRUE,
                             ![m][f].reserved = FALSE]
    BY <1>4, Zenon DEF CleanupItemDone
  <2>2. OnlyItem(m, f) /\ item'[m][f].status = "cleaned" /\ ~item'[m][f].reserved
    BY <1>0, <2>1 DEF OnlyItem, ItemRow
  <2>3. Eased(m, f)
    BY <2>2 DEF Eased
  <2> QED
    BY <1>1, <1>2, <2>2, <2>3, ItemEases
<1> QED
  BY <1>3, <1>4

LEMMA AbortItemLinks ==
    ASSUME MigInv, MigInv', AbortInv, NEW m \in Migs, NEW f \in Files, NEW g \in 1..MaxGen,
           AbortItem(m, g, f) \/ AbortItemDone(m, g, f)
    PROVE  AbortInv'
<1>0. /\ MigShape /\ item \in [Migs -> [Files -> ItemRow]] /\ item[m][f] \in ItemRow
      /\ Abort(g) \in JobIds /\ UNCHANGED mig /\ UNCHANGED job
  <2>1. UNCHANGED <<mig, job>>
    BY Zenon DEF AbortItem, AbortItemDone
  <2> QED
    BY <2>1, JobNames DEF MigInv, MigShape
<1>1. ASSUME OnlyItem(m, f), Eased(m, f) \/ item'[m][f] = item[m][f], PassedReleased PROVE AbortInv'
  BY <1>0, <1>1, ItemEases
<1>2. UNCHANGED item => OnlyItem(m, f) /\ item'[m][f] = item[m][f]
  BY DEF OnlyItem
<1>3. ASSUME Goto(m, Abort(g), f, "done"), UNCHANGED item, item[m][f].status = "deleted"
      PROVE  AbortInv'
  BY <1>0, <1>1, <1>2, <1>3, MovedJob DEF Reserves
<1>4. ASSUME Goto(m, Abort(g), f, "done"), item' = [item EXCEPT ![m][f] = Canceled(item[m][f])]
      PROVE  AbortInv'
  <2>1. OnlyItem(m, f) /\ item'[m][f] = Canceled(item[m][f])
    BY <1>0, <1>4, ItemOnly
  <2>2. item'[m][f].status = "canceled" /\ ~item'[m][f].reserved
    BY <1>0, <2>1 DEF Canceled, ItemRow
  <2> QED
    BY <1>0, <1>1, <1>4, <2>1, <2>2, MovedJob DEF Eased, Reserves
<1>5. ASSUME Goto(m, Abort(g), f, "done"),
             item' = [item EXCEPT ![m][f].status = "original_kept", ![m][f].reserved = FALSE]
      PROVE  AbortInv'
  <2>1. OnlyItem(m, f) /\ item'[m][f].status = "original_kept" /\ ~item'[m][f].reserved
    BY <1>0, <1>5 DEF OnlyItem, ItemRow
  <2> QED
    BY <1>0, <1>1, <1>5, <2>1, MovedJob DEF Eased, Reserves
<1>6. ASSUME Goto(m, Abort(g), f, "error"), UNCHANGED item PROVE AbortInv'
  BY <1>0, <1>1, <1>2, <1>6, MovedJob
<1>7. ASSUME UNCHANGED item, NEW left, work' = [work EXCEPT ![m][Abort(g)][f] = [pc |-> "deleting", left |-> left]]
      PROVE  AbortInv'
  <2>1. work \in Works
    BY <1>0 DEF MigShape, Works
  <2>2. \A n \in Migs, k \in JobIds, h \in Files :
          work'[n][k][h] = IF n = m /\ k = Abort(g) /\ h = f
                           THEN [pc |-> "deleting", left |-> left] ELSE work[n][k][h]
    BY <1>0, <1>7, <2>1 DEF Works
  <2>3. PassedReleased
    BY <2>2, JobNames DEF PassedReleased, Passed, Pc
  <2> QED
    BY <1>1, <1>2, <1>7, <2>3
<1>8. CASE AbortItem(m, g, f)
  <2>1. \/ Goto(m, Abort(g), f, "done") /\ UNCHANGED item /\ item[m][f].status = "deleted"
        \/ /\ item' = [item EXCEPT ![m][f].status = "original_kept", ![m][f].reserved = FALSE]
           /\ Goto(m, Abort(g), f, "done")
        \/ Goto(m, Abort(g), f, "error") /\ UNCHANGED item
        \/ /\ work' = [work EXCEPT ![m][Abort(g)][f] =
                  [pc |-> "deleting", left |-> Held(mig[m].dst, f)]]
           /\ UNCHANGED item
        \/ /\ item' = [item EXCEPT ![m][f] = Canceled(item[m][f])]
           /\ Goto(m, Abort(g), f, "done")
    BY <1>8, Zenon DEF AbortItem
  <2> QED
    BY <1>3, <1>4, <1>5, <1>6, <1>7, <2>1
<1>9. CASE AbortItemDone(m, g, f)
  <2>1. /\ Goto(m, Abort(g), f, "done")
        /\ item' = [item EXCEPT ![m][f] = IF @.status = "deleted" THEN @ ELSE Canceled(@)]
    BY <1>9, Zenon DEF AbortItemDone
  <2>2. CASE item[m][f].status = "deleted"
    <3>1. UNCHANGED item
      BY <1>0, <2>1, <2>2
    <3> QED
      BY <1>3, <2>1, <2>2, <3>1
  <2>3. CASE item[m][f].status # "deleted"
    <3>1. item' = [item EXCEPT ![m][f] = Canceled(item[m][f])]
      BY <1>0, <2>1, <2>3
    <3> QED
      BY <1>4, <2>1, <3>1
  <2> QED
    BY <2>2, <2>3
<1> QED
  BY <1>8, <1>9

LEMMA DeleteLinks ==
    ASSUME MigInv, MigInv', AbortInv, NEW m \in Migs, NEW j \in JobIds, NEW f \in Files,
           DeleteFault(m, j, f) \/ \E o \in Objs : DeleteObject(m, j, f, o)
    PROVE  AbortInv'
<1>0. MigShape /\ work \in Works
  BY DEF MigInv, MigShape, Works
<1>1. UNCHANGED mig /\ UNCHANGED item /\ UNCHANGED job
  <2>1. UNCHANGED <<mig, item, job>>
    BY Zenon DEF DeleteFault, DeleteObject
  <2> QED
    BY <2>1
<1>2. PassedReleased
  <2>1. CASE DeleteFault(m, j, f)
    <3>1. Goto(m, j, f, "error")
      BY <2>1, Zenon DEF DeleteFault
    <3> QED
      BY <1>0, <3>1, MovedJob
  <2>2. CASE \E o \in Objs : DeleteObject(m, j, f, o)
    <3>1. PICK o \in Objs : work' = [work EXCEPT ![m][j][f].left = @ \ {o}]
      BY <2>2, Zenon DEF DeleteObject
    <3>2. \A n \in Migs, k \in JobIds, g \in Files : Pc(n, k, g)' = Pc(n, k, g)
      <4>1. work[m][j][f] \in WorkRow
        BY <1>0 DEF Works
      <4>2. work' = [work EXCEPT ![m][j][f] = [work[m][j][f] EXCEPT !.left = @ \ {o}]]
        BY <3>1
      <4>3. [work[m][j][f] EXCEPT !.left = @ \ {o}].pc = work[m][j][f].pc
        BY <4>1 DEF WorkRow
      <4> QED
        BY <1>0, <4>2, <4>3 DEF Works, Pc
    <3> QED
      BY <3>2, JobNames DEF PassedReleased, Passed
  <2> QED
    BY <2>1, <2>2
<1> QED
  BY <1>1, <1>2, ItemEases DEF OnlyItem

LEMMA KeepLinks ==
    ASSUME MigInv, MigInv', AbortInv, NEW m \in Migs, NEW f \in Files, KeepItem(m, f)
    PROVE  AbortInv'
<1>0. /\ MigShape /\ item[m][f] \in ItemRow /\ mig[m] \in MigRow /\ mig \in [Migs -> MigRow]
      /\ Planned(m, f)
  <2>1. f \in keeping[m]
    BY Zenon DEF KeepItem
  <2> QED
    BY <2>1 DEF MigInv, MigShape, RowOK
<1>1. /\ item' = [item EXCEPT ![m][f] = Kept(item[m][f])]
      /\ UNCHANGED job /\ UNCHANGED work
      /\ UNCHANGED mig \/ mig' = [mig EXCEPT ![m].status = "retained", ![m].keep = TRUE]
  <2>1. UNCHANGED <<job, work>>
    BY Zenon DEF KeepItem
  <2> QED
    BY <2>1 DEF KeepItem
<1>2. OnlyItem(m, f) /\ item'[m][f] = Kept(item[m][f])
  BY <1>0, <1>1, ItemOnly
<1>3. Eased(m, f) \/ item'[m][f] = item[m][f]
  BY <1>0, <1>2 DEF Eased, Kept, ItemRow, Planned
<1>4. PassedReleased
  BY <1>1 DEF PassedReleased, Passed, Pc
<1>5. \A n \in Migs : mig'[n].cleanup = mig[n].cleanup
                      /\ (mig'[n].status = "none" => mig[n].status = "none")
  BY <1>0, <1>1 DEF MigRow
<1> QED
  BY <1>1, <1>2, <1>3, <1>4, <1>5, ItemEases

(* The migration starts, or starts over: it has no abort. *)
LEMMA StartLinks ==
    ASSUME MigInv, MigInv', AbortInv, NEW m \in Migs,
           \/ MainStart(m)
           \/ \E src, dst \in Mounts, queued \in BOOLEAN : StartStorageMigration(m, src, dst, queued)
    PROVE  AbortInv'
<1>0. /\ MigShape /\ MigShape' /\ mig \in [Migs -> MigRow] /\ item \in [Migs -> [Files -> ItemRow]]
      /\ job \in [Migs -> JobRows] /\ Main \in JobIds /\ \A n \in Migs : AbortOK(n)
  BY JobNames DEF MigInv, MigShape, AbortInv
<1>1. ASSUME mig'[m].cleanup = NoJob, \A f \in Files : ~Planned(m, f)' => ~item'[m][f].reserved,
             NEW x \in JobRow, job' = [job EXCEPT ![m][Main] = x] \/ UNCHANGED job,
             \A n \in Migs : n # m => mig'[n] = mig[n] /\ item'[n] = item[n],
             Unpassed
      PROVE  AbortInv'
  <2>1. job' \in [Migs -> JobRows] /\ \A n \in Migs : n # m => job'[n] = job[n]
    <3>1. CASE job' = [job EXCEPT ![m][Main] = x]
      <4>1. [job[m] EXCEPT ![Main] = x] \in JobRows
        BY <1>0 DEF JobRows
      <4>2. job' = [job EXCEPT ![m] = [job[m] EXCEPT ![Main] = x]]
        BY <3>1
      <4> QED
        BY <1>0, <4>1, <4>2
    <3> QED
      BY <1>0, <1>1, <3>1
  <2>2. ASSUME NEW n \in Migs, n # m PROVE AbortOK(n)'
    <3>1. mig'[n] = mig[n] /\ item'[n] = item[n] /\ job'[n] = job[n]
      BY <1>1, <2>1, <2>2
    <3>2. AbortOK(n) /\ \A f \in Files : Falls(n, f)
      BY <1>0, <3>1 DEF AbortOK, Falls, Reserves, Planned
    <3>3. \A g \in 1..MaxGen, f \in Files : Passed(n, Abort(g), f)' => Passed(n, Abort(g), f)
      BY <1>1 DEF Unpassed, Passed
    <3>4. mig'[n].status = "none" => mig'[n].cleanup = NoJob
      BY <3>1, <3>2 DEF AbortOK
    <3> QED
      BY <1>0, <3>1, <3>2, <3>3, <3>4, LinkStep
  <2>3. AbortOK(m)'
    BY <1>1 DEF AbortOK, Linked, NoJob
  <2> QED
    BY <2>1, <2>2, <2>3 DEF AbortInv
<1>2. CASE MainStart(m)
  <2> DEFINE x == [job[m][Main] EXCEPT !.st = "running"]
  <2>1. /\ item' = [item EXCEPT ![m] = [f \in Files |-> Prepared(m, f)]]
        /\ mig' = [mig EXCEPT ![m].status = "running", ![m].keep = FALSE,
                              ![m].cleanup = NoJob, ![m].canceled = FALSE]
        /\ job' = [job EXCEPT ![m][Main].st = "running"]
        /\ \E w : work' = [work EXCEPT ![m][Main] = w]
    BY <1>2, Zenon DEF MainStart
  <2>2. mig'[m].cleanup = NoJob /\ \A n \in Migs : n # m => mig'[n] = mig[n]
    BY <1>0, <2>1 DEF MigRow
  <2>3. x \in JobRow /\ job' = [job EXCEPT ![m][Main] = x]
    <3>1. job[m][Main] \in JobRow /\ "running" \in JobStatuses
      BY <1>0, JobStatusNames DEF JobRows
    <3> QED
      BY <2>1, <3>1 DEF JobRow
  <2>4. Unpassed
    BY <1>0, <2>1, OtherWork
  <2>5. ASSUME NEW f \in Files, ~Planned(m, f)' PROVE ~item'[m][f].reserved
    <3>1. item'[m][f] = Prepared(m, f) /\ AbortOK(m)
      BY <1>0, <2>1
    <3>2. ~Planned(m, f)
      <4>1. ItemTurns(m, f, Prepared(m, f))
        BY PreparedTurns
      <4> QED
        BY <2>5, <3>1, <4>1 DEF Planned, ItemTurns, QuietRecord
    <3>3. Prepared(m, f) = item[m][f]
      BY <3>2 DEF Prepared, Planned
    <3> QED
      BY <3>1, <3>2, <3>3 DEF AbortOK
  <2>6. \A n \in Migs : n # m => item'[n] = item[n]
    BY <1>0, <2>1
  <2> HIDE DEF x
  <2> QED
    BY <1>1, <2>2, <2>3, <2>4, <2>5, <2>6
<1>3. ASSUME NEW src \in Mounts, NEW dst \in Mounts, NEW queued \in BOOLEAN,
             StartStorageMigration(m, src, dst, queued)
      PROVE  AbortInv'
  <2>1. /\ mig[m].status = "none"
        /\ item' = [item EXCEPT ![m] = [f \in Files |->
               IF f \in Plan(src)
               THEN [NoItem EXCEPT !.status = "pending", !.reserved = queued]
               ELSE NoItem]]
        /\ mig' = [mig EXCEPT ![m].status = IF queued THEN "queued" ELSE "failed",
                              ![m].src = src, ![m].dst = dst]
        /\ job' = IF queued THEN [job EXCEPT ![m][Main] = Fresh] ELSE job
        /\ UNCHANGED work
    BY <1>3, Zenon DEF StartStorageMigration
  <2>2. mig[m].cleanup = NoJob
    BY <1>0, <2>1 DEF AbortOK
  <2>3. mig'[m].cleanup = NoJob /\ \A n \in Migs : n # m => mig'[n] = mig[n]
    BY <1>0, <2>1, <2>2 DEF MigRow
  <2>4. \A f \in Files : ~Planned(m, f)' => ~item'[m][f].reserved
    BY <1>0, <2>1 DEF Planned, NoItem
  <2>5. \A n \in Migs : n # m => item'[n] = item[n]
    BY <1>0, <2>1
  <2>6. Fresh \in JobRow
    BY JobStatusNames DEF Fresh, JobRow
  <2>7. Unpassed
    BY <2>1 DEF Unpassed, Pc
  <2>8. job' = [job EXCEPT ![m][Main] = Fresh] \/ UNCHANGED job
    BY <2>1
  <2> QED
    BY <1>1, <2>3, <2>4, <2>5, <2>6, <2>7, <2>8
<1> QED
  BY <1>2, <1>3

Dropped(m, f, g) ==
    IF g = f /\ f \in Items(m)
    THEN [item[m][f] EXCEPT !.reserved = FALSE, !.owned = FALSE]
    ELSE item[m][g]

(* The deleter closes the items of a file and drops their reservations     *)
(* with their rows; a crash sends running jobs back.                       *)
LEMMA RestLinks ==
    ASSUME MigInv, MigInv', AbortInv,
           \/ \E f \in Files : FileStep(f)
           \/ ReconcileLoad \/ Crash \/ UNCHANGED migVars
    PROVE  AbortInv'
<1>0. /\ MigShape /\ MigShape' /\ item \in [Migs -> [Files -> ItemRow]]
      /\ job \in [Migs -> JobRows] /\ \A n \in Migs : AbortOK(n)
      /\ \A n \in Migs, f \in Files : item[n][f] \in ItemRow
  BY DEF MigInv, MigShape, AbortInv
<1>1. \A n \in Migs, g \in Files : item'[n][g] = item[n][g] => Falls(n, g)
  BY <1>0 DEF Falls, Reserves, Planned, AbortOK
<1>2. ASSUME UNCHANGED <<mig, job, work>>, \A n \in Migs, g \in Files : Falls(n, g)
      PROVE  AbortInv'
  <2>1. PassedReleased /\ UNCHANGED mig /\ UNCHANGED job
    BY <1>2 DEF PassedReleased, Passed, Pc
  <2> QED
    BY <1>2, <2>1, FallStep
<1>3. ASSUME UNCHANGED <<mig, item, job, work>> PROVE AbortInv'
  BY <1>1, <1>2, <1>3
<1>4. ASSUME NEW f \in Files, DeleterMark(f) PROVE AbortInv'
  <2>1. /\ UNCHANGED <<mig, job, work>>
        /\ item' = [m \in Migs |-> [g \in Files |->
               IF g = f /\ f \in Items(m) THEN [item[m][f] EXCEPT !.status = "deleted"]
               ELSE item[m][g]]]
    BY <1>4, Zenon DEF DeleterMark
  <2>2. ASSUME NEW n \in Migs, NEW g \in Files PROVE Falls(n, g)
    <3>1. CASE g = f /\ f \in Items(n)
      <4>1. item'[n][g].status = "deleted"
        BY <1>0, <2>1, <3>1 DEF ItemRow
      <4> QED
        BY <4>1 DEF Falls, Reserves, Planned
    <3>2. CASE ~(g = f /\ f \in Items(n))
      BY <1>1, <2>1, <3>2
    <3> QED
      BY <3>1, <3>2
  <2> QED
    BY <1>2, <2>1, <2>2
<1>5. ASSUME NEW f \in Files, NEW mt \in Mounts, DeleterPrefix(f, mt) PROVE AbortInv'
  <2>1. /\ UNCHANGED <<mig, job, work>>
        /\ \/ UNCHANGED item
           \/ item' = [m \in Migs |-> [g \in Files |-> Dropped(m, f, g)]]
    BY <1>5, Zenon DEF DeleterPrefix, Dropped
  <2>2. CASE UNCHANGED item
    BY <1>3, <2>1, <2>2
  <2>3. ASSUME item' = [m \in Migs |-> [g \in Files |-> Dropped(m, f, g)]],
               NEW n \in Migs, NEW g \in Files
        PROVE  Falls(n, g)
    <3>1. item'[n][g] = Dropped(n, f, g)
      BY <2>3
    <3>2. CASE g = f /\ f \in Items(n)
      <4>1. item[n][f] \in ItemRow
        BY <1>0
      <4>2. ~item'[n][g].reserved
        BY <3>1, <3>2, <4>1 DEF Dropped, ItemRow
      <4> QED
        BY <4>2 DEF Falls, Reserves
    <3>3. CASE ~(g = f /\ f \in Items(n))
      BY <1>1, <3>1, <3>3 DEF Dropped
    <3> QED
      BY <3>2, <3>3
  <2> QED
    BY <1>2, <2>1, <2>2, <2>3
<1>6. ASSUME NEW f \in Files, FileStep(f) PROVE AbortInv'
  <2>1. CASE DeleterMark(f) \/ \E mt \in Mounts : DeleterPrefix(f, mt)
    BY <1>4, <1>5, <2>1
  <2>2. CASE ~(DeleterMark(f) \/ \E mt \in Mounts : DeleterPrefix(f, mt))
    <3>1. UNCHANGED <<mig, item, job, work>>
      BY <1>6, <2>2, Zenon DEF FileStep, EncodeBegin, EncodeFail, EncoderCleanup, EncodePublish,
                               DeleterFault
    <3> QED
      BY <1>3, <3>1
  <2> QED
    BY <2>1, <2>2
<1>7. CASE ReconcileLoad
  <2>1. UNCHANGED <<mig, item, job, work>>
    BY <1>7, Zenon DEF ReconcileLoad
  <2> QED
    BY <1>3, <2>1
<1>8. CASE UNCHANGED migVars
  BY <1>3, <1>8 DEF migVars
<1>9. CASE Crash
  <2>1. /\ UNCHANGED <<mig, item>>
        /\ job' = [m \in Migs |-> [j \in JobIds |->
               CASE ~ Running(m, j) -> job[m][j]
                 [] Running(m, j) /\ Stopped(m, j) -> [st |-> StopStatus(m, j), stop |-> "no"]
                 [] OTHER -> Fresh]]
    BY <1>9, Zenon DEF Crash
  <2>2. ASSUME NEW n \in Migs, NEW j \in JobIds
        PROVE  /\ job'[n][j] \in JobRow
               /\ job'[n][j] = job[n][j] \/ job'[n][j].st \notin Closing
               /\ job'[n][j].st # "running"
    <3>1. job[n][j] \in JobRow
      BY <1>0 DEF JobRows
    <3>2. CASE ~Running(n, j)
      BY <2>1, <3>1, <3>2 DEF Running
    <3>3. CASE Running(n, j) /\ Stopped(n, j)
      <4>1. job'[n][j] = [st |-> StopStatus(n, j), stop |-> "no"]
        BY <2>1, <3>3
      <4>2. StopStatus(n, j) \in {"paused", "canceled"}
        BY DEF StopStatus
      <4> QED
        BY <4>1, <4>2, JobStatusNames DEF JobRow, Closing
    <3>4. CASE Running(n, j) /\ ~Stopped(n, j)
      BY <2>1, <3>4, JobStatusNames DEF JobRow, Closing, Fresh
    <3> QED
      BY <3>2, <3>3, <3>4
  <2>3. job' \in [Migs -> JobRows]
    <3> DEFINE row(m) == [j \in JobIds |->
               CASE ~ Running(m, j) -> job[m][j]
                 [] Running(m, j) /\ Stopped(m, j) -> [st |-> StopStatus(m, j), stop |-> "no"]
                 [] OTHER -> Fresh]
    <3>1. job' = [m \in Migs |-> row(m)]
      BY <2>1, Zenon
    <3>2. ASSUME NEW n \in Migs PROVE row(n) \in JobRows
      <4>1. \A j \in JobIds : row(n)[j] \in JobRow
        <5>1. job'[n] = row(n)
          BY <3>1
        <5> HIDE DEF row
        <5> QED
          BY <2>2, <5>1
      <4> QED
        BY <4>1 DEF JobRows
    <3> HIDE DEF row
    <3> QED
      BY <3>1, <3>2
  <2>4. ASSUME NEW n \in Migs PROVE AbortOK(n)'
    <3>1. \A f \in Files : Falls(n, f)
      BY <1>1, <2>1
    <3>2. Linked(n)' => \/ job'[n][mig'[n].cleanup].st \notin Closing
                        \/ /\ mig'[n].cleanup = mig[n].cleanup
                           /\ job'[n][mig[n].cleanup].st = job[n][mig[n].cleanup].st
      <4> SUFFICES ASSUME Linked(n)
                   PROVE  \/ job'[n][mig[n].cleanup].st \notin Closing
                          \/ job'[n][mig[n].cleanup].st = job[n][mig[n].cleanup].st
        BY <2>1 DEF Linked
      <4>1. PICK g \in 1..MaxGen : mig[n].cleanup = Abort(g)
        BY <1>0, LinkNames DEF Linked, MigShape, MigRow
      <4> QED
        BY <2>2, <4>1, JobNames
    <3>3. mig'[n].status = "none" => mig'[n].cleanup = NoJob
      BY <1>0, <2>1 DEF AbortOK
    <3>4. \A g \in 1..MaxGen : job'[n][Abort(g)].st # "running"
      BY <2>2, JobNames
    <3> QED
      BY <1>0, <3>1, <3>2, <3>3, <3>4, LinkStep
  <2> QED
    BY <2>3, <2>4 DEF AbortInv
<1> QED
  BY <1>6, <1>7, <1>8, <1>9

LEMMA LinksSound == MigInv /\ MigInv' /\ AbortInv /\ [MigNext]_migVars => AbortInv'
<1> SUFFICES ASSUME MigInv, MigInv', AbortInv, [MigNext]_migVars PROVE AbortInv'
  OBVIOUS
<1>1. ASSUME NEW m \in Migs, MainStep(m) PROVE AbortInv'
  BY <1>1, MainLinks, StartLinks, CopyLinks DEF MainStep
<1>2. ASSUME NEW m \in Migs, CleanupStep(m) PROVE AbortInv'
  BY <1>2, CleanupLinks, CleanupItemLinks DEF CleanupStep
<1>3. ASSUME NEW m \in Migs, AbortStep(m) PROVE AbortInv'
  BY <1>3, AbortStarts, AbortEnds, AbortItemLinks DEF AbortStep
<1>4. ASSUME NEW m \in Migs, DeleteStep(m) PROVE AbortInv'
  BY <1>4, DeleteLinks DEF DeleteStep
<1>5. ASSUME NEW m \in Migs, Administer(m) PROVE AbortInv'
  BY <1>5, AdminLinks, StartLinks DEF Administer
<1>6. ASSUME NEW m \in Migs, Repair(m) PROVE AbortInv'
  BY <1>6, ReconcileLinks, KeepLinks, AdminLinks DEF Repair
<1> QED
  BY <1>1, <1>2, <1>3, <1>4, <1>5, <1>6, RestLinks DEF MigNext

LEMMA LinksInit == MigInit => AbortInv
<1> SUFFICES ASSUME MigInit PROVE AbortInv
  OBVIOUS
<1>1. work = [m \in Migs |-> [j \in JobIds |-> NoWork]]
  BY DEF MigInit
<1>2. Unborn \in JobRow /\ Unborn.st = "none"
  BY JobStatusNames DEF Unborn, JobRow
<1>3. CASE NoMigrations
  <2>1. /\ mig = [m \in Migs |-> NoMig] /\ job = [m \in Migs |-> [j \in JobIds |-> Unborn]]
        /\ item = [m \in Migs |-> [f \in Files |-> NoItem]]
    BY <1>3 DEF NoMigrations
  <2>2. job \in [Migs -> JobRows]
    BY <1>2, <2>1 DEF JobRows
  <2>3. \A m \in Migs : mig[m].cleanup = NoJob /\ \A f \in Files : ~item[m][f].reserved
    BY <2>1 DEF NoMig, NoItem
  <2> QED
    BY <2>2, <2>3 DEF AbortInv, AbortOK, Linked, NoJob
<1>4. CASE OvertakenMigrations
  <2> DEFINE i == [NoItem EXCEPT !.status = "canceled"]
             row == [j \in JobIds |->
               CASE j = Main -> [Unborn EXCEPT !.st = "canceled"]
                 [] j = Abort(1) -> [Unborn EXCEPT !.st = "succeeded"]
                 [] OTHER -> Unborn]
  <2>1. /\ \A m \in Migs : mig[m].status = "canceled"
        /\ item = [m \in Migs |-> [f \in Files |-> i]]
        /\ job = [m \in Migs |-> row]
    BY <1>4 DEF OvertakenMigrations
  <2>2. row \in JobRows
    <3>1. [Unborn EXCEPT !.st = "canceled"] \in JobRow /\ [Unborn EXCEPT !.st = "succeeded"] \in JobRow
      BY <1>2, JobStatusNames DEF JobRow
    <3> QED
      BY <1>2, <3>1 DEF JobRows
  <2>3. ~i.reserved
    BY DEF NoItem
  <2> HIDE DEF i, row
  <2>4. \A m \in Migs, f \in Files : ~item[m][f].reserved
    BY <2>1, <2>3
  <2> QED
    BY <2>1, <2>2, <2>4 DEF AbortInv, AbortOK, Reserves
<1> QED
  BY <1>3, <1>4 DEF MigInit

LEMMA LinksHold == MigSpec => []AbortInv
  BY LinksInit, LinksSound, MigInvHolds, PTL DEF MigSpec

(* A migration whose abort job has succeeded keeps no file reserved that   *)
(* is not being deleted, whatever was retried, paused, canceled again or   *)
(* interrupted before (storageMigrationAbortHandler, abortStorageMigration *)
(* Item, EnsureStorageMigrationAbortCleanup).                              *)
THEOREM AbortsReleaseFiles == MigSpec => []OverReleases
<1>1. AbortInv => OverReleases
  BY DEF AbortInv, AbortOK, OverReleases, Aborted, Holds, Reserves, Linked
<1> QED
  BY <1>1, LinksHold, PTL
=============================================================================
