-------------------------- MODULE ApplicationProofs --------------------------
(***************************************************************************)
(* Proofs about the operations of the application on its rows and objects: *)
(* recurring schedules, the library, and the administration of the storage *)
(* with its placement rules.                                               *)
(***************************************************************************)
EXTENDS TaskProofs, Schedules, Library, StorageAdmin

-----------------------------------------------------------------------------
(* Recurring schedules.                                                    *)
(*                                                                         *)
(* The row's next run lies in a later period of the clock than every job   *)
(* that has been made for the schedule, so a run that is due has a key of  *)
(* its own.  Neither a late loop nor a clock that is set back changes the  *)
(* row, and a claim only moves it forward.                                 *)
Period(t) == t \div Interval

LEMMA Periods ==
    ASSUME NEW s \in Nat, NEW t \in Nat
    PROVE  /\ Period(t) \in Nat
           /\ s <= t => Period(s) <= Period(t)
           /\ Period(t + Interval) = Period(t) + 1
           /\ t + Interval \in Nat
  BY SchedulesAssumption DEF Period
SchedJobStatuses == {"none", "queued", "succeeded"}
SchedStatuses == SchedJobStatuses \cup {"missing", "empty", "failed"}
LoopPcs == {"down", "wake", "idle", "refresh", "due", "claimed", "record"}
SchedRow == [next : Nat, job : ScheduleKeys \cup {NoKey}, status : SchedStatuses]
LoopRow == [pc : LoopPcs, now : Nat, job : ScheduleKeys \cup {NoKey}, seen : SchedJobStatuses]
Made(t) == scheduledJobs[DueKey(t)] # "none"

SchedShape ==
    /\ clock \in Nat /\ DueKey(clock) \in ScheduleKeys
    /\ scheduled \in SchedRow
    /\ scheduledJobs \in [ScheduleKeys -> SchedJobStatuses]
    /\ loop \in LoopRow /\ DueKey(loop.now) \in ScheduleKeys
    /\ manual \in ScheduleKeys \cup {NoKey}

SchedInv ==
    /\ SchedShape
    /\ \A t \in 0..MaxClock : Made(t) => Period(t) < Period(scheduled.next)
    /\ loop.pc = "claimed" =>
           /\ scheduled.next = loop.now + Interval
           /\ \A t \in 0..MaxClock : Made(t) => Period(t) < Period(loop.now)

LEMMA KeysDiffer ==
    /\ \A t \in 0..MaxClock : DueKey(t) \in ScheduleKeys
    /\ \A s, t : DueKey(s) = DueKey(t) <=> Period(s) = Period(t)
    /\ \A n \in 1..MaxManualRuns : ManualKey(n) \in ScheduleKeys
    /\ \A n, t : ManualKey(n) # DueKey(t)
    /\ \A t : DueKey(t) # NoKey
    /\ \A k \in ScheduleKeys : k # NoKey
  BY DEF ScheduleKeys, DueKey, ManualKey, Period, NoKey

LEMMA SchedInitial == SchedulesInit => SchedInv
<1> SUFFICES ASSUME SchedulesInit PROVE SchedInv
  OBVIOUS
<1>1. clock \in Nat /\ DueKey(clock) = DueKey(0) /\ 0 \in 0..MaxClock
  BY SchedulesAssumption DEF SchedulesInit, DueKey
<1>2. SchedShape
  BY <1>1, KeysDiffer DEF SchedulesInit, SchedShape, SchedRow, LoopRow, LoopDown, NoSchedule, LoopPcs,
                          SchedStatuses, SchedJobStatuses
<1>3. /\ \A k \in ScheduleKeys : scheduledJobs[k] = "none"
      /\ loop.pc # "claimed"
  BY DEF SchedulesInit, LoopDown
<1> QED
  BY <1>2, <1>3, KeysDiffer DEF SchedInv, Made

(* A step that makes no job keeps the row's next run, or moves it later,   *)
(* and neither claims nor forgets that it has claimed.                     *)
LEMMA SchedKeeps ==
    ASSUME SchedInv, SchedShape', scheduledJobs' = scheduledJobs,
           scheduled.next = scheduled'.next,
           loop'.pc = "claimed" => loop.pc = "claimed" /\ loop'.now = loop.now
    PROVE  SchedInv'
  BY DEF SchedInv, Made

LEMMA SchedStep == SchedInv /\ SchedulesNext => SchedInv'
<1> SUFFICES ASSUME SchedInv, SchedulesNext PROVE SchedInv'
  OBVIOUS
<1>0. /\ SchedShape /\ scheduled \in SchedRow /\ loop \in LoopRow
      /\ Interval \in Nat /\ MaxClock \in Nat
  BY SchedulesAssumption DEF SchedInv, SchedShape
<1>1. CASE ClockAdvances \/ ClockSetBack
  <2>1. SchedShape'
    BY <1>0, <1>1, KeysDiffer DEF ClockAdvances, ClockSetBack, SchedShape
  <2> QED
    BY <1>1, <2>1, SchedKeeps DEF ClockAdvances, ClockSetBack
<1>2. CASE EnsureSchedules
  <2>1. SchedShape' /\ scheduledJobs' = scheduledJobs /\ loop'.pc # "claimed"
    <3>1. scheduled' \in SchedRow
      <4>1. PICK onStart \in RunsOnStart :
                scheduled' = IF scheduled # NoSchedule THEN scheduled
                             ELSE [next |-> IF onStart THEN clock ELSE clock + Interval,
                                   job |-> NoKey, status |-> "empty"]
        BY <1>2 DEF EnsureSchedules
      <4>2. (IF onStart THEN clock ELSE clock + Interval) \in Nat
        BY <1>0 DEF SchedShape
      <4> QED
        BY <1>0, <4>1, <4>2 DEF SchedRow, SchedStatuses
    <3>2. loop' = [pc |-> "wake", now |-> 0, job |-> NoKey, seen |-> "none"]
      BY <1>2 DEF EnsureSchedules, LoopDown
    <3>3. DueKey(0) \in ScheduleKeys
      BY KeysDiffer, SchedulesAssumption
    <3>4. loop' \in LoopRow
      BY <3>2 DEF LoopRow, LoopPcs, SchedJobStatuses
    <3> QED
      BY <1>0, <1>2, <3>1, <3>2, <3>3, <3>4 DEF EnsureSchedules, SchedShape
  <2>2. CASE scheduled = NoSchedule
    <3>1. \A t \in 0..MaxClock : Period(t) \in Nat /\ scheduled.next = 0 /\ Period(0) = 0
      <4>1. scheduled.next = 0
        BY <2>2 DEF NoSchedule
      <4>2. Period(0) = 0
        BY <1>0, SchedulesAssumption DEF Period
      <4> QED
        BY <4>1, <4>2, Periods
    <3>2. \A t \in 0..MaxClock : ~Made(t)
      BY <3>1 DEF SchedInv
    <3> QED
      BY <2>1, <3>2 DEF SchedInv, Made
  <2>3. CASE scheduled # NoSchedule
    BY <1>2, <2>1, <2>3, SchedKeeps DEF EnsureSchedules
  <2> QED
    BY <2>2, <2>3
<1>3. CASE RefreshReads \/ RefreshScheduleOutcomes \/ RunDueSchedules
  <2>1. SchedShape'
    <3>1. JobKnown(scheduled.job) => scheduledJobs[scheduled.job] \in SchedJobStatuses
      BY <1>0 DEF JobKnown, SchedShape, SchedRow
    <3>2. CASE RefreshReads
      BY <1>0, <3>1, <3>2 DEF RefreshReads, SchedShape, LoopRow, LoopPcs
    <3>3. CASE RefreshScheduleOutcomes
      <4>1. loop.seen \in SchedStatuses /\ "none" \in SchedJobStatuses
        BY <1>0 DEF LoopRow, SchedStatuses, SchedJobStatuses
      <4> QED
        BY <1>0, <3>3, <4>1 DEF RefreshScheduleOutcomes, SchedShape, SchedRow, LoopRow, LoopPcs
    <3>4. CASE RunDueSchedules
      BY <1>0, <3>4 DEF RunDueSchedules, SchedShape, LoopRow, LoopPcs
    <3> QED
      BY <1>3, <3>2, <3>3, <3>4
  <2>2. scheduled.next = scheduled'.next /\ loop'.pc # "claimed"
    BY <1>0, <1>3 DEF RefreshReads, RefreshScheduleOutcomes, RunDueSchedules, SchedRow, LoopRow
  <2> QED
    BY <1>3, <2>1, <2>2, SchedKeeps DEF RefreshReads, RefreshScheduleOutcomes, RunDueSchedules
<1>4. CASE ClaimSchedule
  <2>1. SchedShape' /\ loop'.now = loop.now
    BY <1>0, <1>4 DEF ClaimSchedule, NextRun, SchedShape, SchedRow, LoopRow, LoopPcs
  <2>2. CASE scheduled.next <= loop.now
    <3>1. scheduled'.next = loop.now + Interval
      BY <1>0, <1>4, <2>2 DEF ClaimSchedule, NextRun, SchedRow
    <3>2. /\ Period(scheduled.next) \in Nat /\ Period(loop.now) \in Nat
          /\ Period(scheduled.next) <= Period(loop.now)
          /\ Period(loop.now + Interval) = Period(loop.now) + 1
      BY <1>0, <2>2, Periods DEF SchedRow, LoopRow
    <3>3. \A t \in 0..MaxClock : Period(t) \in Nat
      BY Periods
    <3>4. \A t \in 0..MaxClock : Made(t) => Period(t) < Period(loop.now)
      BY <3>2, <3>3 DEF SchedInv
    <3>5. scheduledJobs' = scheduledJobs
      BY <1>4 DEF ClaimSchedule
    <3> QED
      BY <2>1, <3>1, <3>2, <3>3, <3>4, <3>5 DEF SchedInv, Made
  <2>3. CASE ~(scheduled.next <= loop.now)
    <3>1. loop'.pc # "claimed"
      BY <1>0, <1>4, <2>3 DEF ClaimSchedule, LoopRow
    <3> QED
      BY <1>4, <2>1, <2>3, <3>1, SchedKeeps DEF ClaimSchedule
  <2> QED
    BY <2>2, <2>3
<1>5. CASE EnqueueScheduled
  <2> DEFINE k == DueKey(loop.now)
  <2>1. /\ scheduledJobs' = [scheduledJobs EXCEPT ![k] = "queued"] \/ UNCHANGED scheduledJobs
        /\ loop' = [loop EXCEPT !.pc = "record", !.job = k, !.seen = scheduledJobs'[k]]
        /\ loop.pc = "claimed" /\ UNCHANGED <<clock, scheduled, manual>>
    BY <1>5 DEF EnqueueScheduled
  <2>2. scheduledJobs' \in [ScheduleKeys -> SchedJobStatuses] /\ k \in ScheduleKeys
    BY <1>0, <2>1 DEF SchedShape, SchedJobStatuses
  <2>3. SchedShape'
    BY <1>0, <2>1, <2>2 DEF SchedShape, LoopRow, LoopPcs
  <2>4. ASSUME NEW t \in 0..MaxClock, Made(t)' PROVE Period(t) < Period(scheduled.next)
    <3>1. CASE Made(t)
      BY <3>1 DEF SchedInv
    <3>2. CASE ~Made(t)
      <4>1. DueKey(t) = k
        BY <1>0, <2>1, <2>4, <3>2, KeysDiffer DEF Made, SchedShape
      <4>2. Period(t) = Period(loop.now) /\ scheduled.next = loop.now + Interval
        BY <2>1, <4>1, KeysDiffer DEF SchedInv
      <4> QED
        BY <1>0, <4>2, Periods DEF LoopRow
    <3> QED
      BY <3>1, <3>2
  <2>5. loop'.pc # "claimed"
    BY <1>0, <2>1 DEF LoopRow
  <2> QED
    BY <2>1, <2>3, <2>4, <2>5 DEF SchedInv
<1>6. CASE EnqueueScheduledFails \/ RecordScheduled \/ RunScheduleRecords
  <2>1. SchedShape'
    <3>1. loop.seen \in SchedStatuses /\ "none" \in SchedJobStatuses
          /\ "failed" \in SchedStatuses /\ "queued" \in SchedStatuses
      BY <1>0 DEF LoopRow, SchedStatuses, SchedJobStatuses
    <3>2. CASE EnqueueScheduledFails
      BY <1>0, <3>1, <3>2 DEF EnqueueScheduledFails, SchedShape, SchedRow, LoopRow, LoopPcs
    <3>3. CASE RecordScheduled
      BY <1>0, <3>1, <3>3 DEF RecordScheduled, SchedShape, SchedRow, LoopRow, LoopPcs
    <3>4. CASE RunScheduleRecords
      BY <1>0, <3>1, <3>4 DEF RunScheduleRecords, SchedShape, SchedRow
    <3> QED
      BY <1>6, <3>2, <3>3, <3>4
  <2>2. scheduled.next = scheduled'.next
    BY <1>0, <1>6 DEF EnqueueScheduledFails, RecordScheduled, RunScheduleRecords, SchedRow
  <2>3. loop'.pc = "claimed" => loop' = loop
    BY <1>0, <1>6 DEF EnqueueScheduledFails, RecordScheduled, RunScheduleRecords, LoopRow
  <2> QED
    BY <1>6, <2>1, <2>2, <2>3, SchedKeeps DEF EnqueueScheduledFails, RecordScheduled, RunScheduleRecords
<1>7. ASSUME NEW k \in ScheduleKeys, NEW st \in {"queued", "succeeded"},
             scheduledJobs' = [scheduledJobs EXCEPT ![k] = st],
             \/ scheduledJobs[k] # "none"
             \/ \A t \in 0..MaxClock : k # DueKey(t),
             UNCHANGED <<clock, scheduled, loop>>, manual' = manual \/ manual' = k,
             manual' \in ScheduleKeys \cup {NoKey}
      PROVE  SchedInv'
  <2>1. SchedShape'
    BY <1>0, <1>7 DEF SchedShape, SchedJobStatuses
  <2>2. ASSUME NEW t \in 0..MaxClock PROVE Made(t)' <=> Made(t)
    BY <1>0, <1>7, KeysDiffer DEF Made, SchedShape
  <2> QED
    BY <1>7, <2>1, <2>2 DEF SchedInv
<1>8. ASSUME NEW n \in 1..MaxManualRuns, RunSchedule(n) PROVE SchedInv'
  BY <1>0, <1>7, <1>8, KeysDiffer DEF RunSchedule
<1>9. ASSUME NEW k \in ScheduleKeys, ScheduledJobEnds(k) PROVE SchedInv'
  BY <1>0, <1>7, <1>9 DEF ScheduledJobEnds, SchedShape
<1>10. CASE SchedulerCrash
  <2>1. SchedShape' /\ loop'.pc # "claimed" /\ UNCHANGED <<scheduled, scheduledJobs>>
    BY <1>0, <1>10, KeysDiffer, SchedulesAssumption
       DEF SchedulerCrash, SchedShape, LoopRow, LoopDown, LoopPcs, SchedJobStatuses
  <2> QED
    BY <2>1, SchedKeeps
<1> QED
  BY <1>1, <1>2, <1>3, <1>4, <1>5, <1>6, <1>8, <1>9, <1>10 DEF SchedulesNext

(* For every interval, clock and number of crashes: when the loop has       *)
(* claimed a due run, no job has the key of that run yet, so enqueueing it  *)
(* makes a job (runDueSchedules).                                           *)
THEOREM ScheduledRunsAreMade == SchedulesSpec => []NoRunSwallowed
<1>1. SchedInv /\ UNCHANGED scheduleVars => SchedInv'
  BY DEF SchedInv, SchedShape, Made, scheduleVars
<1>2. SchedInv => NoRunSwallowed
  <2> SUFFICES ASSUME SchedInv, loop.pc = "claimed", scheduledJobs[DueKey(loop.now)] # "none"
               PROVE  FALSE
    BY DEF NoRunSwallowed
  <2>1. PICK t \in 0..MaxClock : DueKey(t) = DueKey(loop.now)
    BY DEF SchedInv, SchedShape, ScheduleKeys, DueKey, ManualKey
  <2>2. Made(t) /\ Period(t) = Period(loop.now)
    BY <2>1, KeysDiffer DEF Made
  <2>3. Period(t) \in Nat
    BY Periods
  <2> QED
    BY <2>2, <2>3 DEF SchedInv
<1> QED
  BY <1>1, <1>2, SchedInitial, SchedStep, PTL DEF SchedulesSpec

-----------------------------------------------------------------------------
(* The library.  The types first; what the deletion job keeps is in terms  *)
(* of the rows it selected.                                                *)
FolderRow == [st : {"none", "live", "gone"}, parent : Folders \cup {0}, owner : Users]
LinkRow == [st : {"none", "live", "gone"}, parent : Folders \cup {0}, owner : Users,
            file : LibraryFiles \cup {0}, late : BOOLEAN]
MediaRow == [st : {"none", "live", "marked", "gone"}, data : BOOLEAN]
CloneRow == [pc : {"idle", "checked"}, user : Users, parent : Folders \cup {0},
             file : LibraryFiles \cup {0}]
DeleterRow == [pc : {"idle", "next", "counted", "marked", "erased"}, left : SUBSET LibraryFiles,
               file : LibraryFiles \cup {0}]
DeletionRow == [pc : {"none", "idle", "validate", "commit", "links", "folders"}, user : Users,
                links : SUBSET Links, folders : SUBSET Folders,
                leftLinks : SUBSET Links, leftFolders : SUBSET Folders, task : TaskRows]

RenameRow == [kind : {"none", "folder", "link"}, item : Folders \cup Links \cup {0},
              parent : Folders \cup {0}]

RowsShape ==
    /\ folderOf \in [Folders -> FolderRow] /\ linkOf \in [Links -> LinkRow]
    /\ restored \in [folders : SUBSET Folders, links : SUBSET Links]
FilesShape ==
    /\ gate \subseteq Users
    /\ media \in [LibraryFiles -> MediaRow] /\ clone \in CloneRow /\ deleter \in DeleterRow

LEMMA LibraryRows ==
    /\ NoItem \in FolderRow /\ NoLink \in LinkRow /\ NoClone \in CloneRow
    /\ NoDeleter \in DeleterRow /\ NoDeletion \in DeletionRow /\ NoRename \in RenameRow
    /\ NoRename.kind = "none"
    /\ NoItem.st = "none" /\ NoLink.st = "none" /\ NoClone.pc = "idle" /\ NoDeleter.pc = "idle"
    /\ NoDeletion.pc = "none" /\ NoDeletion.task = NoTaskRow
    /\ NoDeletion.links = {} /\ NoDeletion.folders = {}
  BY LibraryAssumption, TaskNames
     DEF NoItem, NoLink, NoClone, NoDeleter, NoDeletion, NoRename, FolderRow, LinkRow, CloneRow,
         DeleterRow, DeletionRow, RenameRow

(* What a step may do to the rows of folders and links, whoever takes it:  *)
(* an owner never changes, a row that was used is never used again, only a *)
(* rename brings back a row that is gone, and the file of a link stays.    *)
LinkGoesOn(l) ==
    /\ linkOf[l].st # "none" => /\ linkOf'[l].st # "none" /\ linkOf'[l].owner = linkOf[l].owner
                                /\ linkOf'[l].file = linkOf[l].file
    /\ l \in LiveLinks => linkOf'[l].late = linkOf[l].late
    /\ linkOf[l].st = "gone" => linkOf'[l].st = "gone" \/ l \in restored'.links
    /\ l \in restored.links => l \in restored'.links
FolderGoesOn(d) ==
    /\ folderOf[d].st # "none" => folderOf'[d].owner = folderOf[d].owner /\ folderOf'[d].st # "none"
    /\ folderOf[d].st = "gone" => folderOf'[d].st = "gone" \/ d \in restored'.folders
    /\ d \in restored.folders => d \in restored'.folders
RowsGoOn == /\ \A l \in Links : LinkGoesOn(l)
            /\ \A d \in Folders : FolderGoesOn(d)

AddsFolder(d, user, parent) ==
    /\ d \in Folders /\ user \in Users /\ parent \in Folders \cup {0}
    /\ folderOf[d].st = "none" /\ ValidateFolderDestination(parent, user)
    /\ folderOf' = [folderOf EXCEPT ![d] = [st |-> "live", parent |-> parent, owner |-> user]]
    /\ UNCHANGED <<linkOf, renaming, restored>>
AddsLink(l, r) ==
    /\ l \in Links /\ r \in LinkRow /\ r.st = "live" /\ ValidateFolderDestination(r.parent, r.owner)
    /\ linkOf[l].st = "none"
    /\ linkOf' = [linkOf EXCEPT ![l] = r]
    /\ UNCHANGED <<folderOf, renaming, restored>>
RemovesRows(ds, ls) ==
    /\ folderOf' = Gone(folderOf, Folders, ds) /\ linkOf' = Gone(linkOf, Links, ls)
    /\ ds \subseteq LiveFolders /\ ls \subseteq LiveLinks
    /\ ClosedDownwards(ds) /\ \A l \in LiveLinks : linkOf[l].parent \in ds => l \in ls
    /\ UNCHANGED <<renaming, restored>>
MovesRows == \E user \in Users, parent \in Folders \cup {0} :
                 \E ds \in SUBSET Folders, ls \in SUBSET Links : MoveItems(user, parent, ds, ls)
RowsStep == \/ \E d, user, parent : AddsFolder(d, user, parent)
            \/ \E l, r : AddsLink(l, r)
            \/ \E ds, ls : RemovesRows(ds, ls)
            \/ MovesRows
            \/ UNCHANGED <<folderOf, linkOf, restored>> /\ renaming' \in {renaming, NoRename}

(* What goes down from a set of roots. *)
LEMMA Collected ==
    ASSUME NEW roots \in SUBSET Folders
    PROVE  /\ roots \subseteq CollectFolderDeletion(roots)
           /\ CollectFolderDeletion(roots) \subseteq Folders
           /\ ClosedDownwards(CollectFolderDeletion(roots))
           /\ roots \subseteq LiveFolders => CollectFolderDeletion(roots) \subseteq LiveFolders
<1>1. ASSUME NEW d \in LiveFolders, folderOf[d].parent \in CollectFolderDeletion(roots)
      PROVE  d \in CollectFolderDeletion(roots)
  BY <1>1 DEF CollectFolderDeletion, ClosedDownwards, LiveFolders
<1>2. ASSUME roots \subseteq LiveFolders, NEW d \in CollectFolderDeletion(roots)
      PROVE  d \in LiveFolders
  <2>1. LiveFolders \in SUBSET Folders /\ ClosedDownwards(LiveFolders)
    BY DEF LiveFolders, ClosedDownwards
  <2> QED
    BY <1>2, <2>1 DEF CollectFolderDeletion
<1> QED
  BY <1>1, <1>2 DEF CollectFolderDeletion, ClosedDownwards

LEMMA NothingCollected == CollectFolderDeletion({}) = {}
<1>1. {} \in SUBSET Folders /\ ClosedDownwards({})
  BY DEF ClosedDownwards
<1> QED
  BY <1>1 DEF CollectFolderDeletion

(* What is above a folder. *)
LEMMA AboveIsClosed ==
    ASSUME NEW t \in Folders, folderOf \in [Folders -> FolderRow]
    PROVE  /\ Above(t) \subseteq Folders /\ 0 \notin Above(t)
           /\ folderOf[t].parent \in Above(t) \cup {0}
           /\ \A d \in Above(t) : folderOf[d].parent \in Above(t) \cup {0}
           /\ folderOf[t].parent = 0 => Above(t) = {}
<1>1. 0 \notin Folders
  BY LibraryAssumption
<1>2. folderOf[t].parent \in Above(t) \cup {0}
  <2>1. folderOf[t].parent \in Folders \cup {0}
    BY DEF FolderRow
  <2> QED
    BY <2>1, <1>1 DEF Above
<1>3. ASSUME NEW d \in Above(t) PROVE folderOf[d].parent \in Above(t) \cup {0}
  <2>1. folderOf[d].parent \in Folders \cup {0} /\ d \in Folders
    BY DEF FolderRow, Above
  <2> QED
    BY <2>1, <1>1 DEF Above, ClosedUpwards
<1>4. ASSUME folderOf[t].parent = 0 PROVE Above(t) = {}
  <2>1. {} \in SUBSET Folders /\ ClosedUpwards({})
    BY DEF ClosedUpwards
  <2> QED
    BY <1>4, <2>1 DEF Above
<1> QED
  BY <1>1, <1>2, <1>3, <1>4 DEF Above

LEMMA AboveParent ==
    ASSUME NEW t \in Folders, NEW p \in Folders, folderOf \in [Folders -> FolderRow],
           folderOf[t].parent = p
    PROVE  Above(t) \subseteq {p} \cup Above(p)
<1>1. {p} \cup Above(p) \in SUBSET Folders /\ ClosedUpwards({p} \cup Above(p))
  BY AboveIsClosed DEF ClosedUpwards
<1> QED
  BY <1>1 DEF Above
(* The tree.  That no chain of parents is a circle is best said of sets:   *)
(* no set of folders holds the parents of all its members.  Of what a      *)
(* rename has put back nothing is said.                                    *)
SoundFolders == LiveFolders \ restored.folders
SoundLinks == LiveLinks \ restored.links
Rooted == \A S \in SUBSET Folders :
    (S \subseteq SoundFolders /\ S # {}) => \E d \in S : folderOf[d].parent \notin S
InPlace(parent, owner) == parent # 0 => parent \in LiveFolders /\ folderOf[parent].owner = owner
(* A rename under way knows a row that has been used. *)
RenameInv ==
    /\ renaming \in RenameRow
    /\ renaming.kind = "folder" => /\ renaming.item \in Folders
                                   /\ folderOf[renaming.item].st # "none"
    /\ renaming.kind = "link" => /\ renaming.item \in Links
                                 /\ linkOf[renaming.item].st # "none"
                                 /\ linkOf[renaming.item].file \in LibraryFiles
TreeInv == /\ RowsShape /\ Rooted /\ RenameInv
           /\ \A d \in SoundFolders : InPlace(folderOf[d].parent, folderOf[d].owner)
           /\ \A l \in SoundLinks : InPlace(linkOf[l].parent, linkOf[l].owner)

LEMMA TreeIsSound == TreeInv => TreeSound
<1> SUFFICES ASSUME TreeInv PROVE TreeSound
  OBVIOUS
<1>0. folderOf \in [Folders -> FolderRow] /\ 0 \notin Folders
  BY LibraryAssumption DEF TreeInv, RowsShape
<1>1. ASSUME NEW d \in LiveFolders, d \in Above(d), Above(d) \cap restored.folders = {}
      PROVE  FALSE
  <2> DEFINE C == {x \in LiveFolders \cap Above(d) : d \in Above(x)}
  <2>0. d \in Folders /\ C \subseteq Above(d)
    BY DEF LiveFolders
  <2>1. d \in C /\ C \subseteq SoundFolders /\ C \in SUBSET Folders
    BY <1>1 DEF LiveFolders, SoundFolders
  <2>2. ASSUME NEW x \in C PROVE folderOf[x].parent \in C
    <3>1. x \in Folders /\ x \in SoundFolders /\ d \in Above(x) /\ x \in Above(d)
      BY <2>1, <2>2
    <3>2. folderOf[x].parent # 0
      BY <1>0, <3>1, AboveIsClosed
    <3>3. folderOf[x].parent \in LiveFolders /\ folderOf[x].parent \in Above(d)
      BY <1>0, <2>0, <3>1, <3>2, AboveIsClosed DEF TreeInv, InPlace
    <3>4. d \in {folderOf[x].parent} \cup Above(folderOf[x].parent)
      BY <1>0, <3>1, <3>3, AboveParent DEF LiveFolders
    <3> QED
      BY <1>1, <3>3, <3>4
  <2> HIDE DEF C
  <2> QED
    BY <2>1, <2>2 DEF TreeInv, Rooted
<1> QED
  BY <1>1 DEF TreeInv, TreeSound, InPlace, SoundFolders, SoundLinks

LEMMA RenameGoesOn ==
    ASSUME RenameInv, RowsGoOn, renaming' \in {renaming, NoRename}
    PROVE  RenameInv'
<1>1. CASE renaming' = renaming
  BY <1>1 DEF RenameInv, RowsGoOn, LinkGoesOn, FolderGoesOn
<1>2. CASE renaming' = NoRename
  BY <1>2, LibraryRows DEF RenameInv
<1> QED
  BY <1>1, <1>2

LEMMA AddedFolder ==
    ASSUME TreeInv, NEW d, NEW user, NEW parent, AddsFolder(d, user, parent)
    PROVE  TreeInv' /\ RowsGoOn
<1>0. /\ folderOf \in [Folders -> FolderRow] /\ 0 \notin Folders /\ linkOf \in [Links -> LinkRow]
      /\ d \in Folders /\ user \in Users /\ parent \in Folders \cup {0}
  BY LibraryAssumption DEF TreeInv, RowsShape, AddsFolder
<1>1. /\ folderOf'[d] = [st |-> "live", parent |-> parent, owner |-> user]
      /\ \A e \in Folders : e # d => folderOf'[e] = folderOf[e]
      /\ folderOf' \in [Folders -> FolderRow] /\ linkOf' = linkOf
      /\ d \notin LiveFolders /\ folderOf[d].st = "none" /\ restored' = restored /\ renaming' = renaming
  BY <1>0 DEF AddsFolder, FolderRow, LiveFolders
<1>2. LiveFolders' = LiveFolders \cup {d} /\ LiveLinks' = LiveLinks /\ SoundLinks' = SoundLinks
      /\ SoundFolders' \subseteq SoundFolders \cup {d}
  BY <1>0, <1>1 DEF LiveFolders, LiveLinks, SoundLinks, SoundFolders
<1>3. InPlace(parent, user)
  BY DEF AddsFolder, ValidateFolderDestination, InPlace
<1>4. RowsShape' /\ RowsGoOn
  BY <1>0, <1>1 DEF TreeInv, RowsShape, RowsGoOn, LinkGoesOn, FolderGoesOn
<1>5. \A p, o : InPlace(p, o) => InPlace(p, o)'
  BY <1>0, <1>1, <1>2 DEF InPlace, LiveFolders
<1>6. \A e \in SoundFolders' : InPlace(folderOf[e].parent, folderOf[e].owner)'
  BY <1>0, <1>1, <1>2, <1>3, <1>5 DEF TreeInv, LiveFolders, SoundFolders
<1>7. \A l \in SoundLinks' : InPlace(linkOf[l].parent, linkOf[l].owner)'
  BY <1>1, <1>2, <1>5 DEF TreeInv
<1>8. Rooted'
  <2> SUFFICES ASSUME NEW S \in SUBSET Folders, S \subseteq SoundFolders', S # {},
                      \A e \in S : folderOf'[e].parent \in S
               PROVE  FALSE
    BY DEF Rooted
  <2>1. \A e \in SoundFolders : folderOf[e].parent # d
    BY <1>0, <1>1 DEF TreeInv, InPlace
  <2>2. parent # d
    BY <1>0, <1>1, <1>3 DEF InPlace
  <2> DEFINE T == S \ {d}
  <2>3. T \in SUBSET Folders /\ T \subseteq SoundFolders
    BY <1>2
  <2>4. \A e \in T : folderOf[e].parent \in T
    BY <1>1, <2>1, <2>3
  <2>5. T # {}
    BY <1>1, <2>2
  <2> HIDE DEF T
  <2> QED
    BY <2>3, <2>4, <2>5 DEF TreeInv, Rooted
<1> QED
  BY <1>1, <1>4, <1>6, <1>7, <1>8, RenameGoesOn DEF TreeInv

LEMMA AddedLink ==
    ASSUME TreeInv, NEW l, NEW r, AddsLink(l, r)
    PROVE  TreeInv' /\ RowsGoOn
<1>0. /\ folderOf \in [Folders -> FolderRow] /\ linkOf \in [Links -> LinkRow]
      /\ l \in Links /\ r \in LinkRow /\ linkOf[l].st = "none"
  BY DEF TreeInv, RowsShape, AddsLink
<1>1. /\ linkOf'[l] = r /\ \A k \in Links : k # l => linkOf'[k] = linkOf[k]
      /\ linkOf' \in [Links -> LinkRow] /\ folderOf' = folderOf
      /\ restored' = restored /\ renaming' = renaming
  BY <1>0 DEF AddsLink
<1>2. /\ LiveFolders' = LiveFolders /\ SoundFolders' = SoundFolders
      /\ \A p, o : InPlace(p, o) => InPlace(p, o)'
  BY <1>1 DEF LiveFolders, InPlace, SoundFolders
<1>3. RowsShape' /\ RowsGoOn
  BY <1>0, <1>1 DEF TreeInv, RowsShape, RowsGoOn, LinkGoesOn, FolderGoesOn, LiveLinks
<1>4. InPlace(r.parent, r.owner)
  BY DEF AddsLink, ValidateFolderDestination, InPlace
<1>5. \A k \in SoundLinks' : InPlace(linkOf[k].parent, linkOf[k].owner)'
  BY <1>0, <1>1, <1>2, <1>4 DEF TreeInv, LiveLinks, SoundLinks
<1>6. Rooted' /\ \A e \in SoundFolders' : InPlace(folderOf[e].parent, folderOf[e].owner)'
  BY <1>1, <1>2 DEF TreeInv, Rooted
<1> QED
  BY <1>1, <1>3, <1>5, <1>6, RenameGoesOn DEF TreeInv

LEMMA RemovedRows ==
    ASSUME TreeInv, NEW ds, NEW ls, RemovesRows(ds, ls)
    PROVE  TreeInv' /\ RowsGoOn /\ LiveFolders' = LiveFolders \ ds /\ LiveLinks' = LiveLinks \ ls
<1>0. /\ folderOf \in [Folders -> FolderRow] /\ linkOf \in [Links -> LinkRow]
  BY DEF TreeInv, RowsShape
<1>1. ASSUME NEW d \in Folders
      PROVE  /\ folderOf'[d] \in FolderRow
             /\ folderOf'[d].parent = folderOf[d].parent /\ folderOf'[d].owner = folderOf[d].owner
             /\ folderOf'[d].st = IF d \in ds THEN "gone" ELSE folderOf[d].st
  <2>1. folderOf[d] \in FolderRow /\ folderOf'[d] = IF d \in ds THEN [folderOf[d] EXCEPT !.st = "gone"]
                                                    ELSE folderOf[d]
    BY <1>0 DEF RemovesRows, Gone
  <2> QED
    BY <2>1 DEF FolderRow
<1>2. ASSUME NEW l \in Links
      PROVE  /\ linkOf'[l] \in LinkRow
             /\ linkOf'[l].parent = linkOf[l].parent /\ linkOf'[l].owner = linkOf[l].owner
             /\ linkOf'[l].file = linkOf[l].file /\ linkOf'[l].late = linkOf[l].late
             /\ linkOf'[l].st = IF l \in ls THEN "gone" ELSE linkOf[l].st
  <2>1. linkOf[l] \in LinkRow /\ linkOf'[l] = IF l \in ls THEN [linkOf[l] EXCEPT !.st = "gone"]
                                              ELSE linkOf[l]
    BY <1>0 DEF RemovesRows, Gone
  <2> QED
    BY <2>1 DEF LinkRow
<1>3. /\ LiveFolders' = LiveFolders \ ds /\ LiveLinks' = LiveLinks \ ls
      /\ restored' = restored /\ renaming' = renaming
      /\ SoundFolders' = SoundFolders \ ds /\ SoundLinks' = SoundLinks \ ls
  BY <1>1, <1>2 DEF LiveFolders, LiveLinks, RemovesRows, SoundFolders, SoundLinks
<1>4. RowsShape' /\ RowsGoOn
  <2>1. folderOf' \in [Folders -> FolderRow] /\ linkOf' \in [Links -> LinkRow]
    BY <1>1, <1>2 DEF RemovesRows, Gone
  <2> QED
    BY <1>1, <1>2, <1>3, <2>1 DEF TreeInv, RowsShape, RowsGoOn, LinkGoesOn, FolderGoesOn
<1>5. ASSUME NEW e \in SoundFolders' PROVE InPlace(folderOf[e].parent, folderOf[e].owner)'
  <2>1. e \in SoundFolders /\ e \in LiveFolders /\ e \notin ds /\ e \in Folders
    BY <1>3 DEF LiveFolders, SoundFolders
  <2>2. folderOf[e].parent \notin ds
    BY <2>1 DEF RemovesRows, ClosedDownwards
  <2> QED
    BY <1>1, <1>3, <2>1, <2>2 DEF TreeInv, InPlace, LiveFolders
<1>6. ASSUME NEW l \in SoundLinks' PROVE InPlace(linkOf[l].parent, linkOf[l].owner)'
  <2>1. l \in SoundLinks /\ l \in LiveLinks /\ l \notin ls /\ l \in Links
    BY <1>3 DEF LiveLinks, SoundLinks
  <2>2. linkOf[l].parent \notin ds
    BY <2>1 DEF RemovesRows
  <2> QED
    BY <1>1, <1>2, <1>3, <2>1, <2>2 DEF TreeInv, InPlace, LiveFolders
<1>7. Rooted'
  BY <1>1, <1>3 DEF TreeInv, Rooted
<1> QED
  BY <1>3, <1>4, <1>5, <1>6, <1>7, RenameGoesOn DEF TreeInv
(* A move checks every folder it moves against what is above the target,   *)
(* before it moves the first: the rows above the target do not change.     *)
LEMMA MovedRows ==
    ASSUME TreeInv, NEW user \in Users, NEW target \in Folders \cup {0},
           NEW ds \in SUBSET Folders, NEW ls \in SUBSET Links, MoveItems(user, target, ds, ls)
    PROVE  TreeInv' /\ RowsGoOn /\ LiveLinks' = LiveLinks
<1>0. /\ folderOf \in [Folders -> FolderRow] /\ linkOf \in [Links -> LinkRow]
      /\ 0 \notin Folders /\ LiveFolders \subseteq Folders /\ LiveLinks \subseteq Links
  BY LibraryAssumption DEF TreeInv, RowsShape, LiveFolders, LiveLinks
<1>1. ASSUME NEW d \in Folders
      PROVE  /\ folderOf'[d] \in FolderRow /\ folderOf'[d].st = folderOf[d].st
             /\ folderOf'[d].owner = folderOf[d].owner
             /\ folderOf'[d].parent = IF d \in ds THEN target ELSE folderOf[d].parent
  <2>1. folderOf[d] \in FolderRow /\ folderOf'[d] = IF d \in ds THEN [folderOf[d] EXCEPT !.parent = target]
                                                    ELSE folderOf[d]
    BY <1>0 DEF MoveItems
  <2> QED
    BY <2>1 DEF FolderRow
<1>2. ASSUME NEW l \in Links
      PROVE  /\ linkOf'[l] \in LinkRow /\ linkOf'[l].st = linkOf[l].st
             /\ linkOf'[l].owner = linkOf[l].owner
             /\ linkOf'[l].file = linkOf[l].file /\ linkOf'[l].late = linkOf[l].late
             /\ linkOf'[l].parent = IF l \in ls THEN target ELSE linkOf[l].parent
  <2>1. linkOf[l] \in LinkRow /\ linkOf'[l] = IF l \in ls THEN [linkOf[l] EXCEPT !.parent = target]
                                              ELSE linkOf[l]
    BY <1>0 DEF MoveItems
  <2> QED
    BY <2>1 DEF LinkRow
<1>3. /\ LiveFolders' = LiveFolders /\ LiveLinks' = LiveLinks
      /\ restored' = restored /\ renaming' = renaming
      /\ SoundFolders' = SoundFolders /\ SoundLinks' = SoundLinks
  BY <1>1, <1>2 DEF LiveFolders, LiveLinks, MoveItems, renameVars, SoundFolders, SoundLinks
<1>4. RowsShape' /\ RowsGoOn
  <2>1. folderOf' \in [Folders -> FolderRow] /\ linkOf' \in [Links -> LinkRow]
    BY <1>1, <1>2 DEF MoveItems
  <2> QED
    BY <1>1, <1>2, <1>3, <2>1 DEF TreeInv, RowsShape, RowsGoOn, LinkGoesOn, FolderGoesOn
<1>5. ASSUME NEW p, NEW o, InPlace(p, o) PROVE InPlace(p, o)'
  BY <1>0, <1>1, <1>3, <1>5 DEF InPlace
<1>6. target # 0 => /\ target \in LiveFolders
                    /\ \A d \in ds : folderOf[d].owner = folderOf[target].owner
                                     /\ d \notin Above(target) /\ d # target
                    /\ \A l \in ls : linkOf[l].owner = folderOf[target].owner
  BY DEF MoveItems, FolderContainsFolder
<1>7. ASSUME NEW e \in SoundFolders' PROVE InPlace(folderOf[e].parent, folderOf[e].owner)'
  <2>1. CASE e \in ds
    <3>1. InPlace(target, folderOf[e].owner)
      BY <1>6, <2>1 DEF InPlace
    <3> QED
      BY <1>0, <1>1, <1>3, <1>5, <2>1, <3>1 DEF SoundFolders
  <2>2. CASE e \notin ds
    BY <1>0, <1>1, <1>3, <1>5, <2>2 DEF TreeInv, SoundFolders
  <2> QED
    BY <2>1, <2>2
<1>8. ASSUME NEW l \in SoundLinks' PROVE InPlace(linkOf[l].parent, linkOf[l].owner)'
  <2>1. CASE l \in ls
    <3>1. InPlace(target, linkOf[l].owner)
      BY <1>6, <2>1 DEF InPlace
    <3> QED
      BY <1>0, <1>2, <1>3, <1>5, <2>1, <3>1 DEF SoundLinks
  <2>2. CASE l \notin ls
    BY <1>0, <1>2, <1>3, <1>5, <2>2 DEF TreeInv, SoundLinks
  <2> QED
    BY <2>1, <2>2
<1>9. Rooted'
  <2> SUFFICES ASSUME NEW S \in SUBSET Folders, S \subseteq SoundFolders, S # {},
                      \A e \in S : folderOf'[e].parent \in S
               PROVE  FALSE
    BY <1>3 DEF Rooted
  <2>1. CASE S \cap ds = {}
    <3>1. \A e \in S : folderOf[e].parent \in S
      BY <1>1, <2>1
    <3> QED
      BY <3>1 DEF TreeInv, Rooted
  <2>2. CASE S \cap ds # {}
    <3>1. target \in S /\ target # 0 /\ target \in Folders
      BY <1>0, <1>1, <2>2
    <3> DEFINE T == S \cap ({target} \cup Above(target))
    <3>2. T \in SUBSET Folders /\ T \subseteq SoundFolders /\ T # {}
      BY <3>1
    <3>3. ASSUME NEW e \in T PROVE folderOf[e].parent \in T
      <4>1. e \notin ds /\ e \in S /\ e \in Folders
        BY <1>6, <3>1
      <4>2. folderOf[e].parent \in S
        BY <1>1, <4>1
      <4>3. folderOf[e].parent \in Above(target) \cup {0}
        BY <1>0, <3>1, AboveIsClosed
      <4> QED
        BY <1>0, <4>2, <4>3
    <3> HIDE DEF T
    <3> QED
      BY <3>2, <3>3 DEF TreeInv, Rooted
  <2> QED
    BY <2>1, <2>2
<1> QED
  BY <1>3, <1>4, <1>7, <1>8, <1>9, RenameGoesOn DEF TreeInv

LEMMA TreeStep == TreeInv /\ RowsStep => TreeInv' /\ RowsGoOn
<1> SUFFICES ASSUME TreeInv, RowsStep PROVE TreeInv' /\ RowsGoOn
  OBVIOUS
<1>1. ASSUME UNCHANGED <<folderOf, linkOf, restored>>, renaming' \in {renaming, NoRename}
      PROVE  TreeInv' /\ RowsGoOn
  <2>1. RowsGoOn
    BY <1>1 DEF RowsGoOn, LinkGoesOn, FolderGoesOn
  <2>2. RenameInv'
    BY <1>1, <2>1, RenameGoesOn DEF TreeInv
  <2> QED
    BY <1>1, <2>1, <2>2 DEF TreeInv, RowsShape, Rooted, InPlace, LiveFolders, LiveLinks,
                            SoundFolders, SoundLinks
<1>2. CASE MovesRows
  BY <1>2, MovedRows DEF MovesRows
<1>3. CASE \E d, user, parent : AddsFolder(d, user, parent)
  BY <1>3, AddedFolder
<1>4. CASE \E l, r : AddsLink(l, r)
  BY <1>4, AddedLink
<1>5. CASE \E ds, ls : RemovesRows(ds, ls)
  BY <1>5, RemovedRows
<1> QED
  BY <1>1, <1>2, <1>3, <1>4, <1>5 DEF RowsStep
(* The files.  Between the deleter's count and its mark only late links    *)
(* can appear, and what is marked has no other links.                      *)
FilesInv ==
    /\ FilesShape
    /\ \A l \in LiveLinks : linkOf[l].file \in LibraryFiles
    /\ LinksKeepFiles
    /\ \A f \in LibraryFiles : media[f].st = "live" => media[f].data
    /\ clone.pc = "checked" => clone.file \in LibraryFiles
    /\ deleter.pc = "counted" =>
           /\ deleter.file \in LibraryFiles /\ media[deleter.file].st = "live"
           /\ \A l \in LiveLinks : linkOf[l].file = deleter.file => linkOf[l].late
    /\ deleter.pc \in {"marked", "erased"} =>
           deleter.file \in LibraryFiles /\ media[deleter.file].st = "marked"

(* A deletion job.  What it was given existed and was the user's, and      *)
(* nothing of it comes back but by a rename; at each step what else is     *)
(* left of it is known.                                                    *)
DeletionInv ==
    /\ deletion \in DeletionRow
    /\ deletion.pc = "none" => deletion.task.st = "none"
    /\ deletion.pc \notin {"none", "idle"} => deletion.task.st \in Under
    /\ \A l \in deletion.links : linkOf[l].st # "none" /\ May(deletion.user, linkOf[l].owner)
    /\ \A d \in deletion.folders : folderOf[d].st # "none" /\ May(deletion.user, folderOf[d].owner)
    /\ deletion.pc \in {"commit", "links"} => deletion.links \cap SoundLinks \subseteq deletion.leftLinks
    /\ deletion.pc = "folders" => deletion.links \cap SoundLinks = {}
    /\ deletion.pc \in {"commit", "links", "folders"} =>
           deletion.folders \cap SoundFolders \subseteq deletion.leftFolders
    /\ DeletionComplete

LEMMA NothingComesBack ==
    ASSUME DeletionInv, TreeInv, TreeInv', RowsGoOn
    PROVE  /\ \A l \in deletion.links : linkOf'[l].st # "none" /\ May(deletion.user, linkOf'[l].owner)
           /\ \A d \in deletion.folders : folderOf'[d].st # "none" /\ May(deletion.user, folderOf'[d].owner)
           /\ deletion.links \cap SoundLinks' \subseteq deletion.links \cap SoundLinks
           /\ deletion.folders \cap SoundFolders' \subseteq deletion.folders \cap SoundFolders
<1>1. ASSUME NEW l \in deletion.links
      PROVE  /\ linkOf'[l].st # "none" /\ May(deletion.user, linkOf'[l].owner)
             /\ l \in SoundLinks' => l \in SoundLinks
  <2>1. /\ l \in Links /\ LinkGoesOn(l) /\ linkOf[l].st \in {"none", "live", "gone"}
        /\ linkOf[l].st # "none" /\ May(deletion.user, linkOf[l].owner)
    BY DEF DeletionInv, DeletionRow, RowsGoOn, TreeInv, RowsShape, LinkRow
  <2> QED
    BY <2>1 DEF LinkGoesOn, LiveLinks, SoundLinks
<1>2. ASSUME NEW d \in deletion.folders
      PROVE  /\ folderOf'[d].st # "none" /\ May(deletion.user, folderOf'[d].owner)
             /\ d \in SoundFolders' => d \in SoundFolders
  <2>1. /\ d \in Folders /\ FolderGoesOn(d) /\ folderOf[d].st \in {"none", "live", "gone"}
        /\ folderOf[d].st # "none" /\ May(deletion.user, folderOf[d].owner)
    BY DEF DeletionInv, DeletionRow, RowsGoOn, TreeInv, RowsShape, FolderRow
  <2> QED
    BY <2>1 DEF FolderGoesOn, LiveFolders, SoundFolders
<1> QED
  BY <1>1, <1>2

LEMMA DeletionGoesOn ==
    ASSUME DeletionInv, TreeInv, TreeInv', RowsGoOn, deletion' \in DeletionRow,
           deletion'.links = deletion.links, deletion'.folders = deletion.folders,
           deletion'.user = deletion.user,
           deletion'.pc = "none" => deletion'.task.st = "none",
           deletion'.pc \notin {"none", "idle"} => deletion'.task.st \in Under,
           deletion'.task.st = "succeeded" => deletion.task.st = "succeeded",
           deletion'.pc \in {"commit", "links"} =>
               /\ deletion.pc \in {"commit", "links"} /\ deletion'.leftLinks = deletion.leftLinks
               /\ deletion'.leftFolders = deletion.leftFolders,
           deletion'.pc = "folders" =>
               deletion.pc = "folders" /\ deletion'.leftFolders = deletion.leftFolders
    PROVE  DeletionInv'
<1>1. /\ \A l \in deletion.links : linkOf'[l].st # "none" /\ May(deletion.user, linkOf'[l].owner)
      /\ \A d \in deletion.folders : folderOf'[d].st # "none" /\ May(deletion.user, folderOf'[d].owner)
      /\ deletion.links \cap SoundLinks' \subseteq deletion.links \cap SoundLinks
      /\ deletion.folders \cap SoundFolders' \subseteq deletion.folders \cap SoundFolders
  BY NothingComesBack
<1>2. DeletionComplete'
  BY <1>1 DEF DeletionInv, DeletionComplete, SoundLinks, SoundFolders
<1>3. /\ \A l \in deletion'.links : linkOf'[l].st # "none" /\ May(deletion'.user, linkOf'[l].owner)
      /\ \A d \in deletion'.folders : folderOf'[d].st # "none" /\ May(deletion'.user, folderOf'[d].owner)
  BY <1>1
<1>4. /\ deletion'.pc \in {"commit", "links"} => deletion'.links \cap SoundLinks' \subseteq deletion'.leftLinks
      /\ deletion'.pc = "folders" => deletion'.links \cap SoundLinks' = {}
      /\ deletion'.pc \in {"commit", "links", "folders"} =>
             deletion'.folders \cap SoundFolders' \subseteq deletion'.leftFolders
  BY <1>1 DEF DeletionInv
<1> QED
  BY <1>2, <1>3, <1>4 DEF DeletionInv, May

(* A step that adds no link and leaves the files alone. *)
LEMMA FilesKept ==
    ASSUME FilesInv, RowsGoOn, RowsShape, LiveLinks' \subseteq LiveLinks,
           UNCHANGED <<media, clone, deleter>>, gate' \subseteq Users
    PROVE  FilesInv'
<1>1. \A l \in LiveLinks' : /\ l \in LiveLinks /\ linkOf'[l].file = linkOf[l].file
                            /\ linkOf'[l].late = linkOf[l].late
  BY DEF RowsGoOn, LinkGoesOn, LiveLinks
<1>2. FilesShape'
  BY DEF FilesInv, FilesShape
<1> QED
  BY <1>1, <1>2 DEF FilesInv, LinksKeepFiles

LibraryInv == TreeInv /\ FilesInv /\ DeletionInv

LEMMA LibraryInitial == LibraryInit => LibraryInv
<1> SUFFICES ASSUME LibraryInit PROVE LibraryInv
  OBVIOUS
<1>1. LiveFolders = {} /\ LiveLinks = {}
  BY DEF LibraryInit, LiveFolders, LiveLinks, NoItem, NoLink
<1>2. TreeInv
  BY <1>1, LibraryRows DEF LibraryInit, TreeInv, RowsShape, Rooted, RenameInv, SoundFolders, SoundLinks
<1>3. FilesInv
  <2>1. [st |-> "none", data |-> FALSE] \in MediaRow
    BY DEF MediaRow
  <2> QED
    BY <1>1, <2>1, LibraryRows DEF LibraryInit, FilesInv, FilesShape, LinksKeepFiles
<1>4. DeletionInv
  BY <1>1, LibraryRows, TaskNames DEF LibraryInit, DeletionInv, DeletionComplete
<1> QED
  BY <1>2, <1>3, <1>4 DEF LibraryInv
(* Requests that make folders and links. *)
LEMMA DeletionUntouched ==
    ASSUME DeletionInv, TreeInv, TreeInv', RowsGoOn, deletion' = deletion
    PROVE  DeletionInv'
<1>1. deletion \in DeletionRow /\ (deletion.pc = "none" => deletion.task.st = "none")
      /\ (deletion.pc \notin {"none", "idle"} => deletion.task.st \in Under)
  BY DEF DeletionInv
<1> QED
  BY <1>1, DeletionGoesOn

LEMMA RowsUntouched ==
    ASSUME TreeInv, UNCHANGED <<folderOf, linkOf, restored>>, renaming' \in {renaming, NoRename}
    PROVE  TreeInv' /\ RowsGoOn /\ LiveLinks' = LiveLinks /\ LiveFolders' = LiveFolders /\ RowsShape
<1>1. RowsStep
  BY DEF RowsStep
<1> QED
  BY <1>1, TreeStep DEF LiveLinks, LiveFolders, TreeInv

LEMMA FolderMade ==
    ASSUME LibraryInv, NEW user \in Users, NEW parent \in Folders \cup {0}, CreateFolder(user, parent)
    PROVE  LibraryInv'
<1>1. PICK d \in Folders : AddsFolder(d, user, parent)
  BY DEF CreateFolder, AddsFolder, Next1, renameVars
<1>2. TreeInv' /\ RowsGoOn /\ UNCHANGED <<linkOf, media, gate, clone, deleter, deletion>>
  BY <1>1, AddedFolder DEF LibraryInv, CreateFolder
<1>3. LiveLinks' = LiveLinks
  BY <1>2 DEF LiveLinks
<1>4. FilesInv'
  BY <1>2, <1>3, FilesKept DEF LibraryInv, TreeInv, FilesInv, FilesShape
<1> QED
  BY <1>2, <1>4, DeletionUntouched DEF LibraryInv

LEMMA LinkAdded ==
    ASSUME LibraryInv, NEW l \in Links, NEW r \in LinkRow, AddsLink(l, r)
    PROVE  /\ TreeInv' /\ RowsGoOn
           /\ LiveLinks' = LiveLinks \cup {l} /\ l \notin LiveLinks /\ linkOf'[l] = r
           /\ \A k \in LiveLinks : linkOf'[k] = linkOf[k]
<1>1. linkOf \in [Links -> LinkRow]
  BY DEF LibraryInv, TreeInv, RowsShape
<1> QED
  BY <1>1, AddedLink DEF LibraryInv, AddsLink, LiveLinks

LEMMA FileMade ==
    ASSUME LibraryInv, NEW user \in Users, NEW parent \in Folders \cup {0}, NEW f \in LibraryFiles,
           CreateFile(user, parent, f)
    PROVE  LibraryInv'
<1> DEFINE r == [st |-> "live", parent |-> parent, owner |-> user, file |-> f, late |-> FALSE]
<1>1. r \in LinkRow /\ r.file = f /\ r.st = "live" /\ r.parent = parent /\ r.owner = user
  BY DEF LinkRow
<1> HIDE DEF r
<1>2. PICK l \in Links : AddsLink(l, r)
  BY <1>1 DEF CreateFile, AddsLink, Next1, r, renameVars
<1>3. /\ TreeInv' /\ RowsGoOn /\ LiveLinks' = LiveLinks \cup {l} /\ linkOf'[l] = r
      /\ \A k \in LiveLinks : linkOf'[k] = linkOf[k]
  BY <1>1, <1>2, LinkAdded
<1>4. /\ media' = [media EXCEPT ![f] = [st |-> "live", data |-> TRUE]] /\ media[f].st = "none"
      /\ UNCHANGED <<gate, clone, deleter, deletion>>
  BY DEF CreateFile
<1>5. /\ media' \in [LibraryFiles -> MediaRow] /\ media'[f].st = "live" /\ media'[f].data
      /\ \A g \in LibraryFiles : g # f => media'[g] = media[g]
  BY <1>4 DEF LibraryInv, FilesInv, FilesShape, MediaRow
<1>6. FilesInv'
  <2>1. FilesShape'
    BY <1>4, <1>5 DEF LibraryInv, FilesInv, FilesShape
  <2>2. LinksKeepFiles' /\ \A k \in LiveLinks' : linkOf'[k].file \in LibraryFiles
    BY <1>1, <1>3, <1>5 DEF LibraryInv, FilesInv, LinksKeepFiles
  <2>3. \A g \in LibraryFiles : media'[g].st = "live" => media'[g].data
    BY <1>5 DEF LibraryInv, FilesInv
  <2>4. clone'.pc = "checked" => clone'.file \in LibraryFiles
    BY <1>4 DEF LibraryInv, FilesInv
  <2>5. deleter.pc \in {"counted", "marked", "erased"} =>
            deleter.file # f /\ deleter.file \in LibraryFiles
    BY <1>4 DEF LibraryInv, FilesInv
  <2>6. deleter'.pc = "counted" =>
           /\ deleter'.file \in LibraryFiles /\ media'[deleter'.file].st = "live"
           /\ \A k \in LiveLinks' : linkOf'[k].file = deleter'.file => linkOf'[k].late
    BY <1>1, <1>3, <1>4, <1>5, <2>5 DEF LibraryInv, FilesInv
  <2>7. deleter'.pc \in {"marked", "erased"} =>
           deleter'.file \in LibraryFiles /\ media'[deleter'.file].st = "marked"
    BY <1>4, <1>5, <2>5 DEF LibraryInv, FilesInv
  <2> QED
    BY <2>1, <2>2, <2>3, <2>4, <2>6, <2>7 DEF FilesInv
<1> QED
  BY <1>3, <1>4, <1>6, DeletionUntouched DEF LibraryInv

LEMMA CloneMade == LibraryInv /\ CloneLinks => LibraryInv'
<1> SUFFICES ASSUME LibraryInv, CloneLinks PROVE LibraryInv'
  OBVIOUS
<1>0. /\ clone.pc = "checked" /\ clone.file \in LibraryFiles /\ clone' = NoClone
      /\ UNCHANGED <<folderOf, media, gate, deleter, deletion, renaming, restored>>
      /\ clone.user \in Users /\ clone.parent \in Folders \cup {0}
      /\ NoClone \in CloneRow /\ NoClone.pc = "idle"
  BY LibraryRows DEF CloneLinks, LibraryInv, FilesInv, FilesShape, CloneRow, renameVars
<1>1. CASE UNCHANGED linkOf
  <2>1. TreeInv' /\ RowsGoOn /\ LiveLinks' = LiveLinks /\ RowsShape
    BY <1>0, <1>1, RowsUntouched DEF LibraryInv
  <2>2. FilesShape' /\ \A l \in LiveLinks' : linkOf'[l] = linkOf[l]
    BY <1>0, <1>1 DEF LibraryInv, FilesInv, FilesShape
  <2>3. FilesInv'
    BY <1>0, <2>1, <2>2 DEF LibraryInv, FilesInv, LinksKeepFiles
  <2> QED
    BY <1>0, <2>1, <2>3, DeletionUntouched DEF LibraryInv
<1>2. CASE ValidateFolderDestination(clone.parent, clone.user) /\ ~UNCHANGED linkOf
  <2> DEFINE r == [st |-> "live", parent |-> clone.parent, owner |-> clone.user,
                   file |-> clone.file, late |-> Late(clone.file)]
  <2>1. r \in LinkRow /\ r.file = clone.file /\ r.st = "live" /\ r.parent = clone.parent
        /\ r.owner = clone.user /\ (r.late <=> Late(clone.file))
    <3>1. Late(clone.file) \in BOOLEAN
      BY DEF Late
    <3> QED
      BY <1>0, <3>1 DEF LinkRow
  <2>2. PICK l \in Next1(linkOf, Links) : linkOf' = [linkOf EXCEPT ![l] = r]
    BY <1>2 DEF CloneLinks
  <2> HIDE DEF r
  <2>3. AddsLink(l, r) /\ l \in Links
    BY <1>0, <1>2, <2>1, <2>2 DEF AddsLink, Next1
  <2>4. /\ TreeInv' /\ RowsGoOn /\ LiveLinks' = LiveLinks \cup {l} /\ linkOf'[l] = r
        /\ \A k \in LiveLinks : linkOf'[k] = linkOf[k]
    BY <2>1, <2>3, LinkAdded
  <2>5. FilesShape'
    BY <1>0 DEF LibraryInv, FilesInv, FilesShape
  <2>6. LinksKeepFiles' /\ \A k \in LiveLinks' : linkOf'[k].file \in LibraryFiles
    BY <1>0, <2>1, <2>4 DEF LibraryInv, FilesInv, LinksKeepFiles, Late
  <2>7. deleter'.pc = "counted" =>
           \A k \in LiveLinks' : linkOf'[k].file = deleter'.file => linkOf'[k].late
    BY <1>0, <2>1, <2>4 DEF LibraryInv, FilesInv, Late
  <2>8. FilesInv'
    BY <1>0, <2>5, <2>6, <2>7 DEF LibraryInv, FilesInv
  <2> QED
    BY <1>0, <2>4, <2>8, DeletionUntouched DEF LibraryInv
<1> QED
  BY <1>1, <1>2 DEF CloneLinks

LEMMA ItemsMoved ==
    ASSUME LibraryInv, NEW user \in Users, NEW target \in Folders \cup {0},
           NEW ds \in SUBSET Folders, NEW ls \in SUBSET Links, MoveItems(user, target, ds, ls)
    PROVE  LibraryInv'
<1>1. TreeInv' /\ RowsGoOn /\ LiveLinks' = LiveLinks /\ UNCHANGED <<media, gate, clone, deleter, deletion>>
  BY MovedRows DEF LibraryInv, MoveItems
<1>2. FilesInv'
  BY <1>1, FilesKept DEF LibraryInv, TreeInv, FilesInv, FilesShape
<1> QED
  BY <1>1, <1>2, DeletionUntouched DEF LibraryInv
(* The content.delete job. *)
LEMMA DeletionAlone ==
    ASSUME LibraryInv, UNCHANGED <<folderOf, linkOf, media, clone, deleter, renaming, restored>>, gate' \subseteq Users,
           DeletionInv'
    PROVE  LibraryInv'
<1>1. TreeInv' /\ RowsGoOn /\ LiveLinks' = LiveLinks /\ RowsShape
  BY RowsUntouched DEF LibraryInv
<1>2. FilesInv'
  BY <1>1, FilesKept DEF LibraryInv
<1> QED
  BY <1>1, <1>2 DEF LibraryInv

LEMMA DeletionEnqueued ==
    ASSUME LibraryInv, NEW user \in Users, NEW ls \in SUBSET Links, NEW ds \in SUBSET Folders,
           EnqueueDeletion(user, ls, ds)
    PROVE  LibraryInv'
<1>1. /\ deletion' = [NoDeletion EXCEPT !.pc = "idle", !.user = user, !.links = ls, !.folders = ds,
                                        !.task = NewTaskRow]
      /\ UNCHANGED <<folderOf, linkOf, media, gate, clone, deleter, renaming, restored>>
      /\ ls \subseteq LiveLinks /\ \A l \in ls : May(user, linkOf[l].owner)
      /\ ds \subseteq LiveFolders /\ \A d \in ds : May(user, folderOf[d].owner)
  BY DEF EnqueueDeletion, DeletableLinks, renameVars
<1>2. /\ deletion' \in DeletionRow /\ deletion'.pc = "idle" /\ deletion'.user = user
      /\ deletion'.links = ls /\ deletion'.folders = ds /\ deletion'.task.st = "queued"
  BY <1>1, LibraryRows, TaskNames DEF DeletionRow
<1>3. DeletionInv'
  BY <1>1, <1>2 DEF DeletionInv, DeletionComplete, LiveLinks, LiveFolders, May
<1> QED
  BY <1>1, <1>3, DeletionAlone DEF LibraryInv, FilesInv, FilesShape

LEMMA DeletionGoes ==
    ASSUME LibraryInv, DeletionClaimed \/ DeletionCommits \/ CancelDeletion \/ RetryDeletion
    PROVE  LibraryInv'
<1>0. /\ deletion \in DeletionRow /\ deletion.task \in TaskRows
      /\ UNCHANGED <<folderOf, linkOf, media, clone, deleter, gate, renaming, restored>>
      /\ gate \subseteq Users
      /\ (deletion.pc = "none" => deletion.task.st = "none")
      /\ (deletion.pc \notin {"none", "idle"} => deletion.task.st \in Under)
  BY DEF LibraryInv, DeletionInv, DeletionRow, DeletionClaimed, DeletionCommits, CancelDeletion,
         RetryDeletion, FilesInv, FilesShape, renameVars
<1>1. TreeInv /\ TreeInv' /\ RowsGoOn /\ DeletionInv
  BY <1>0, RowsUntouched DEF LibraryInv
<1>2. CASE DeletionClaimed
  <2>1. /\ deletion' = [deletion EXCEPT !.pc = "validate", !.task = Claimed(deletion.task)]
        /\ Claimed(deletion.task) \in TaskRows /\ Claimed(deletion.task).st = "running"
    BY <1>0, <1>2, TaskClaimed DEF DeletionClaimed
  <2> HIDE DEF Claimed
  <2>2. /\ deletion' \in DeletionRow /\ deletion'.links = deletion.links
        /\ deletion'.folders = deletion.folders /\ deletion'.user = deletion.user
        /\ deletion'.pc = "validate" /\ deletion'.task.st = "running"
    BY <1>0, <2>1 DEF DeletionRow
  <2>3. DeletionInv'
    BY <1>1, <2>2, DeletionGoesOn DEF Under
  <2> QED
    BY <1>0, <2>3, DeletionAlone
<1>3. CASE DeletionCommits
  <2>1. CASE CommitAllowed(deletion.task)
    <3>1. /\ deletion' = [deletion EXCEPT !.pc = "links", !.task.commit = TRUE]
          /\ deletion.pc = "commit"
      BY <1>3, <2>1 DEF DeletionCommits
    <3>2. /\ deletion' \in DeletionRow /\ deletion'.links = deletion.links
          /\ deletion'.folders = deletion.folders /\ deletion'.user = deletion.user
          /\ deletion'.pc = "links" /\ deletion'.task.st = deletion.task.st
          /\ deletion'.leftLinks = deletion.leftLinks /\ deletion'.leftFolders = deletion.leftFolders
      BY <1>0, <3>1, TaskNames DEF DeletionRow
    <3>3. DeletionInv'
      BY <1>0, <1>1, <3>1, <3>2, DeletionGoesOn
    <3> QED
      BY <1>0, <3>3, DeletionAlone
  <2>2. CASE ~CommitAllowed(deletion.task)
    <3> DEFINE t == FinishedRow(deletion.task, "canceled")
    <3>1. /\ deletion' = [deletion EXCEPT !.pc = "idle", !.leftLinks = {}, !.leftFolders = {}, !.task = t]
          /\ deletion.pc = "commit"
      BY <1>3, <2>2 DEF DeletionCommits, DeletionReturns
    <3>2. t \in TaskRows /\ t.st # "succeeded"
      BY <1>0, <3>1, TaskFinished
    <3> HIDE DEF t
    <3>3. /\ deletion' \in DeletionRow /\ deletion'.links = deletion.links
          /\ deletion'.folders = deletion.folders /\ deletion'.user = deletion.user
          /\ deletion'.pc = "idle" /\ deletion'.task.st # "succeeded"
      BY <1>0, <3>1, <3>2 DEF DeletionRow
    <3>4. DeletionInv'
      BY <1>1, <3>3, DeletionGoesOn
    <3> QED
      BY <1>0, <3>4, DeletionAlone
  <2> QED
    BY <2>1, <2>2
<1>4. CASE CancelDeletion \/ RetryDeletion
  <2>1. PICK t \in TaskRows :
            /\ deletion' = [deletion EXCEPT !.task = t]
            /\ t.st = "succeeded" => deletion.task.st = "succeeded"
            /\ t.st = "none" <=> deletion.task.st = "none"
            /\ deletion.task.st \in Under => t.st \in Under
    <3>1. CASE CancelDeletion
      BY <1>0, <3>1, TaskCanceled DEF CancelDeletion
    <3>2. CASE RetryDeletion
      BY <1>0, <3>2, TaskRetried DEF RetryDeletion, Under
    <3> QED
      BY <1>4, <3>1, <3>2
  <2>2. /\ deletion' \in DeletionRow /\ deletion'.links = deletion.links
        /\ deletion'.folders = deletion.folders /\ deletion'.user = deletion.user
        /\ deletion'.pc = deletion.pc /\ deletion'.task = t
        /\ deletion'.leftLinks = deletion.leftLinks /\ deletion'.leftFolders = deletion.leftFolders
    BY <1>0, <2>1 DEF DeletionRow
  <2>3. DeletionInv'
    BY <1>0, <1>1, <2>1, <2>2, DeletionGoesOn
  <2> QED
    BY <1>0, <2>3, DeletionAlone
<1> QED
  BY <1>2, <1>3, <1>4

LEMMA DeletionLooks == LibraryInv /\ DeletionValidates => LibraryInv'
<1> SUFFICES ASSUME LibraryInv, DeletionValidates PROVE LibraryInv'
  OBVIOUS
<1>0. /\ deletion \in DeletionRow /\ deletion.pc = "validate"
      /\ UNCHANGED <<folderOf, linkOf, media, clone, deleter, gate, renaming, restored>> /\ gate \subseteq Users
      /\ deletion' = [deletion EXCEPT !.pc = "commit",
                                      !.leftLinks = RemainingDeletionIDs(linkOf, deletion.links),
                                      !.leftFolders = RemainingDeletionIDs(folderOf, deletion.folders)]
  BY DEF LibraryInv, DeletionInv, DeletionValidates, FilesInv, FilesShape, renameVars
<1>1. /\ RemainingDeletionIDs(linkOf, deletion.links) \in SUBSET Links
      /\ deletion.links \cap LiveLinks \subseteq RemainingDeletionIDs(linkOf, deletion.links)
      /\ RemainingDeletionIDs(folderOf, deletion.folders) \in SUBSET Folders
      /\ deletion.folders \cap LiveFolders \subseteq RemainingDeletionIDs(folderOf, deletion.folders)
  BY <1>0 DEF LibraryInv, DeletionInv, DeletionRow, RemainingDeletionIDs, LiveLinks, LiveFolders
<1>2. /\ deletion' \in DeletionRow /\ deletion'.links = deletion.links
      /\ deletion'.folders = deletion.folders /\ deletion'.user = deletion.user
      /\ deletion'.pc = "commit" /\ deletion'.task = deletion.task
      /\ deletion.links \cap LiveLinks \subseteq deletion'.leftLinks
      /\ deletion.folders \cap LiveFolders \subseteq deletion'.leftFolders
  BY <1>0, <1>1 DEF DeletionRow
<1>3. /\ LiveLinks' = LiveLinks /\ LiveFolders' = LiveFolders
      /\ SoundLinks' = SoundLinks /\ SoundFolders' = SoundFolders
      /\ SoundLinks \subseteq LiveLinks /\ SoundFolders \subseteq LiveFolders
  BY <1>0 DEF LiveLinks, LiveFolders, SoundLinks, SoundFolders
<1>4. DeletionInv'
  BY <1>0, <1>2, <1>3 DEF LibraryInv, DeletionInv, DeletionComplete, May
<1> QED
  BY <1>0, <1>4, DeletionAlone

(* A handler that returns with an error. *)
LEMMA DeletionFails ==
    ASSUME LibraryInv, NEW how, how # "ok", deletion.pc \notin {"none", "idle"},
           deletion' = DeletionReturns(deletion, how),
           UNCHANGED <<folderOf, linkOf, media, clone, deleter, gate, renaming, restored>>
    PROVE  LibraryInv'
<1> DEFINE t == FinishedRow(deletion.task, how)
<1>0. /\ deletion \in DeletionRow /\ deletion.task \in TaskRows /\ deletion.task.st \in Under
      /\ gate \subseteq Users
  BY DEF LibraryInv, DeletionInv, DeletionRow, FilesInv, FilesShape
<1>1. deletion' = [deletion EXCEPT !.pc = "idle", !.leftLinks = {}, !.leftFolders = {}, !.task = t]
  BY DEF DeletionReturns
<1>2. t \in TaskRows /\ t.st # "succeeded"
  BY <1>0, TaskFinished
<1> HIDE DEF t
<1>3. /\ deletion' \in DeletionRow /\ deletion'.links = deletion.links
      /\ deletion'.folders = deletion.folders /\ deletion'.user = deletion.user
      /\ deletion'.pc = "idle" /\ deletion'.task.st # "succeeded"
  BY <1>0, <1>1, <1>2 DEF DeletionRow
<1>4. TreeInv /\ TreeInv' /\ RowsGoOn /\ DeletionInv
  BY RowsUntouched DEF LibraryInv
<1>5. DeletionInv'
  BY <1>3, <1>4, DeletionGoesOn
<1> QED
  BY <1>0, <1>5, DeletionAlone
LEMMA LinksGo == LibraryInv /\ DeleteFiles => LibraryInv'
<1> SUFFICES ASSUME LibraryInv, DeleteFiles PROVE LibraryInv'
  OBVIOUS
<1>0. /\ deletion \in DeletionRow /\ deletion.pc = "links" /\ deletion.task.st \in Under
      /\ UNCHANGED <<folderOf, media, clone, deleter, gate, renaming, restored>> /\ gate \subseteq Users
      /\ folderOf \in [Folders -> FolderRow]
  BY DEF LibraryInv, DeletionInv, DeleteFiles, FilesInv, FilesShape, TreeInv, RowsShape, renameVars
<1>1. CASE /\ DeletableLinks(deletion.user, deletion.leftLinks)
           /\ linkOf' = Gone(linkOf, Links, deletion.leftLinks)
           /\ deletion' = [deletion EXCEPT !.pc = "folders"]
  <2>1. RemovesRows({}, deletion.leftLinks)
    <3>1. folderOf' = Gone(folderOf, Folders, {})
      BY <1>0 DEF Gone
    <3>2. deletion.leftLinks \subseteq LiveLinks
      BY <1>1 DEF DeletableLinks
    <3> QED
      BY <1>0, <1>1, <3>1, <3>2 DEF RemovesRows, ClosedDownwards
  <2>2. /\ TreeInv' /\ RowsGoOn /\ LiveFolders' = LiveFolders \ {}
        /\ LiveLinks' = LiveLinks \ deletion.leftLinks
    BY <2>1, RemovedRows DEF LibraryInv
  <2>3. FilesInv'
    BY <1>0, <2>2, FilesKept DEF LibraryInv, TreeInv
  <2>4. /\ deletion' \in DeletionRow /\ deletion'.links = deletion.links
        /\ deletion'.folders = deletion.folders /\ deletion'.user = deletion.user
        /\ deletion'.pc = "folders" /\ deletion'.task = deletion.task
        /\ deletion'.leftFolders = deletion.leftFolders
    BY <1>0, <1>1 DEF DeletionRow
  <2>5. /\ \A l \in deletion.links : linkOf'[l].st # "none" /\ May(deletion.user, linkOf'[l].owner)
        /\ \A d \in deletion.folders : folderOf'[d].st # "none" /\ May(deletion.user, folderOf'[d].owner)
        /\ deletion.folders \cap SoundFolders' \subseteq deletion.folders \cap SoundFolders
        /\ deletion.links \cap SoundLinks \subseteq deletion.leftLinks
        /\ deletion.folders \cap SoundFolders \subseteq deletion.leftFolders
        /\ deletion.task.st # "succeeded"
    BY <1>0, <2>2, NothingComesBack DEF LibraryInv, DeletionInv, Under
  <2>6. DeletionInv'
    BY <1>0, <2>2, <2>4, <2>5 DEF DeletionInv, DeletionComplete, May, SoundLinks
  <2> QED
    BY <2>2, <2>3, <2>6 DEF LibraryInv
<1>2. ASSUME NEW how \in {"permanent", "transient"}, deletion' = DeletionReturns(deletion, how),
             UNCHANGED linkOf
      PROVE  LibraryInv'
  BY <1>0, <1>2, DeletionFails
<1> QED
  BY <1>1, <1>2 DEF DeleteFiles

LEMMA FoldersGo == LibraryInv /\ DeleteFolders => LibraryInv'
<1> SUFFICES ASSUME LibraryInv, DeleteFolders PROVE LibraryInv'
  OBVIOUS
<1>0. /\ deletion \in DeletionRow /\ deletion.pc = "folders" /\ deletion.task.st \in Under
      /\ deletion.task \in TaskRows /\ deletion.leftFolders \in SUBSET Folders
      /\ UNCHANGED <<media, clone, deleter, gate, renaming, restored>> /\ gate \subseteq Users
  BY DEF LibraryInv, DeletionInv, DeletionRow, DeleteFolders, FilesInv, FilesShape, renameVars
<1> DEFINE ds == CollectFolderDeletion(deletion.leftFolders)
           t == FinishedRow(deletion.task, "ok")
<1>1. CASE /\ FoldersMayGo
           /\ folderOf' = Gone(folderOf, Folders, ds) /\ linkOf' = Gone(linkOf, Links, LinksIn(ds))
           /\ deletion' = DeletionReturns(deletion, "ok")
  <2>1. deletion.leftFolders \subseteq LiveFolders
    BY <1>1 DEF FoldersMayGo, DeletableFolders
  <2>2. deletion.leftFolders \subseteq ds /\ ds \subseteq LiveFolders /\ ClosedDownwards(ds)
    BY <1>0, <2>1, Collected
  <2>3. deletion' = [deletion EXCEPT !.pc = "idle", !.leftLinks = {}, !.leftFolders = {}, !.task = t]
    BY <1>1 DEF DeletionReturns
  <2>4. t \in TaskRows
    BY <1>0, TaskFinished
  <2>5. folderOf' = Gone(folderOf, Folders, ds) /\ linkOf' = Gone(linkOf, Links, LinksIn(ds))
    BY <1>1
  <2> HIDE DEF ds, t
  <2>6. RemovesRows(ds, LinksIn(ds))
    BY <1>0, <2>2, <2>5 DEF RemovesRows, LinksIn
  <2>7. /\ TreeInv' /\ RowsGoOn /\ LiveFolders' = LiveFolders \ ds
        /\ LiveLinks' = LiveLinks \ LinksIn(ds)
    BY <2>6, RemovedRows DEF LibraryInv
  <2>8. FilesInv'
    BY <1>0, <2>7, FilesKept DEF LibraryInv, TreeInv
  <2>9. /\ deletion' \in DeletionRow /\ deletion'.links = deletion.links
        /\ deletion'.folders = deletion.folders /\ deletion'.user = deletion.user
        /\ deletion'.pc = "idle"
    BY <1>0, <2>3, <2>4 DEF DeletionRow
  <2>10. /\ \A l \in deletion.links : linkOf'[l].st # "none" /\ May(deletion.user, linkOf'[l].owner)
         /\ \A d \in deletion.folders : folderOf'[d].st # "none" /\ May(deletion.user, folderOf'[d].owner)
         /\ deletion.links \cap SoundLinks' = {}
         /\ deletion.folders \cap SoundFolders' = {}
    BY <1>0, <2>2, <2>7, NothingComesBack DEF LibraryInv, DeletionInv, SoundFolders
  <2>11. DeletionInv'
    BY <2>9, <2>10 DEF DeletionInv, DeletionComplete, May, SoundLinks, SoundFolders
  <2> QED
    BY <2>7, <2>8, <2>11 DEF LibraryInv
<1>2. ASSUME NEW how \in {"permanent", "transient"}, deletion' = DeletionReturns(deletion, how),
             UNCHANGED <<folderOf, linkOf>>
      PROVE  LibraryInv'
  BY <1>0, <1>2, DeletionFails
<1> QED
  BY <1>1, <1>2 DEF DeleteFolders

(* The deleter. *)
LEMMA DeleterGoes ==
    ASSUME LibraryInv,
           \/ DeleterLists \/ (\E f \in LibraryFiles : DeleterCounts(f))
           \/ DeleterMarks \/ DeleteStoredFile \/ DeleterForgets
    PROVE  LibraryInv'
<1>0. /\ UNCHANGED <<folderOf, linkOf, gate, clone, deletion, renaming, restored>>
      /\ media \in [LibraryFiles -> MediaRow] /\ deleter \in DeleterRow /\ clone \in CloneRow
      /\ gate \subseteq Users
  <2>1. UNCHANGED <<folderOf, linkOf, gate, clone, deletion, renaming, restored>>
    BY Zenon DEF DeleterLists, DeleterCounts, DeleterMarks, DeleteStoredFile, DeleterForgets, renameVars
  <2> QED
    BY <2>1 DEF LibraryInv, FilesInv, FilesShape
<1>1. /\ TreeInv' /\ RowsGoOn /\ LiveLinks' = LiveLinks /\ DeletionInv'
  BY <1>0, RowsUntouched, DeletionUntouched DEF LibraryInv
<1>2. NextFile("next") \in DeleterRow /\ NextFile("next").pc \in {"next", "idle"}
  BY <1>0, LibraryRows DEF NextFile, DeleterRow
<1>3. ASSUME UNCHANGED media, deleter' \in DeleterRow,
             deleter'.pc = "counted" => deleter'.file \in LibraryFiles /\ ~Referenced(deleter'.file)
                                        /\ media[deleter'.file].st = "live",
             deleter'.pc \in {"marked", "erased"} =>
                 deleter'.file \in LibraryFiles /\ media[deleter'.file].st = "marked"
      PROVE  LibraryInv'
  <2>1. FilesInv'
    BY <1>0, <1>1, <1>3 DEF LibraryInv, FilesInv, FilesShape, LinksKeepFiles, Referenced
  <2> QED
    BY <1>1, <2>1 DEF LibraryInv
<1>4. CASE DeleterLists
  <2>1. UNCHANGED media /\ deleter' \in DeleterRow /\ deleter'.pc = "next"
    <3> DEFINE S == {f \in LibraryFiles : media[f].st = "marked" \/ (media[f].st = "live" /\ ~ Referenced(f))}
    <3>1. UNCHANGED media /\ deleter' = [NoDeleter EXCEPT !.pc = "next", !.left = S]
      BY <1>4 DEF DeleterLists
    <3>2. S \in SUBSET LibraryFiles
      OBVIOUS
    <3> HIDE DEF S
    <3> QED
      BY <3>1, <3>2 DEF NoDeleter, DeleterRow
  <2> QED
    BY <1>3, <2>1
<1>5. ASSUME NEW f \in LibraryFiles, DeleterCounts(f) PROVE LibraryInv'
  <2>1. /\ UNCHANGED media /\ deleter.pc = "next"
        /\ \/ media[f].st = "marked" /\ deleter' = [deleter EXCEPT !.pc = "marked", !.file = f]
           \/ /\ media[f].st = "live" /\ ~Referenced(f)
              /\ deleter' = [deleter EXCEPT !.pc = "counted", !.file = f]
           \/ deleter' = NoDeleter
           \/ deleter' = [deleter EXCEPT !.left = deleter.left \ {f}]
    BY <1>5, Zenon DEF DeleterCounts
  <2>2. /\ deleter' \in DeleterRow
        /\ deleter'.pc = "counted" => deleter'.file = f /\ ~Referenced(f) /\ media[f].st = "live"
        /\ deleter'.pc \in {"marked", "erased"} => deleter'.file = f /\ media[f].st = "marked"
    BY <1>0, <2>1, LibraryRows DEF DeleterRow
  <2> QED
    BY <1>3, <2>1, <2>2
<1>6. ASSUME NEW f \in LibraryFiles, NEW r \in MediaRow, media' = [media EXCEPT ![f] = r],
             r.st \in {"marked", "gone"},
             \A l \in LiveLinks : linkOf[l].file = f => linkOf[l].late,
             deleter' \in DeleterRow, deleter'.pc # "counted",
             deleter'.pc \in {"marked", "erased"} => deleter'.file = f /\ r.st = "marked"
      PROVE  LibraryInv'
  <2>1. media' \in [LibraryFiles -> MediaRow] /\ media'[f] = r
        /\ \A g \in LibraryFiles : g # f => media'[g] = media[g]
    BY <1>0, <1>6
  <2>2. FilesInv'
    BY <1>0, <1>1, <1>6, <2>1 DEF LibraryInv, FilesInv, FilesShape, LinksKeepFiles
  <2> QED
    BY <1>1, <2>2 DEF LibraryInv
<1>7. CASE DeleterMarks
  <2>1. /\ deleter.file \in LibraryFiles
        /\ media' = [media EXCEPT ![deleter.file] = [media[deleter.file] EXCEPT !.st = "marked"]]
        /\ deleter' = [deleter EXCEPT !.pc = "marked"]
        /\ \A l \in LiveLinks : linkOf[l].file = deleter.file => linkOf[l].late
    BY <1>7 DEF DeleterMarks, LibraryInv, FilesInv
  <2>2. media[deleter.file] \in MediaRow
    BY <1>0, <2>1
  <2>3. [media[deleter.file] EXCEPT !.st = "marked"] \in MediaRow
        /\ [media[deleter.file] EXCEPT !.st = "marked"].st = "marked"
        /\ deleter' \in DeleterRow /\ deleter'.pc = "marked" /\ deleter'.file = deleter.file
    BY <1>0, <2>1, <2>2 DEF MediaRow, DeleterRow
  <2> QED
    BY <1>6, <2>1, <2>3
<1>8. deleter.pc \in {"marked", "erased"} =>
          /\ deleter.file \in LibraryFiles /\ media[deleter.file] \in MediaRow
          /\ media[deleter.file].st = "marked"
          /\ \A l \in LiveLinks : linkOf[l].file = deleter.file => linkOf[l].late
  BY <1>0 DEF LibraryInv, FilesInv, LinksKeepFiles
<1>9. CASE DeleteStoredFile
  <2>1. CASE /\ media' = [media EXCEPT ![deleter.file].data = FALSE]
             /\ deleter' = [deleter EXCEPT !.pc = "erased"]
    <3> DEFINE r == [media[deleter.file] EXCEPT !.data = FALSE]
    <3>1. deleter.pc = "marked" /\ media' = [media EXCEPT ![deleter.file] = r]
      BY <1>9, <2>1 DEF DeleteStoredFile
    <3>2. r \in MediaRow /\ r.st = "marked"
      BY <1>8, <3>1 DEF MediaRow
    <3>3. deleter' \in DeleterRow /\ deleter'.pc = "erased" /\ deleter'.file = deleter.file
      BY <1>0, <2>1 DEF DeleterRow
    <3> HIDE DEF r
    <3> QED
      BY <1>6, <1>8, <3>1, <3>2, <3>3
  <2>2. CASE deleter' = NextFile("next") /\ UNCHANGED media
    BY <1>2, <1>3, <2>2
  <2> QED
    BY <1>9, <2>1, <2>2 DEF DeleteStoredFile
<1>10. CASE DeleterForgets
  <2> DEFINE r == [media[deleter.file] EXCEPT !.st = "gone"]
  <2>1. deleter.pc = "erased" /\ media' = [media EXCEPT ![deleter.file] = r]
        /\ deleter' = NextFile("next")
    BY <1>10 DEF DeleterForgets
  <2>2. r \in MediaRow /\ r.st = "gone"
    BY <1>8, <2>1 DEF MediaRow
  <2> HIDE DEF r
  <2> QED
    BY <1>2, <1>6, <1>8, <2>1, <2>2
<1> QED
  BY <1>4, <1>5, <1>7, <1>9, <1>10
LEMMA LibraryCrashes == LibraryInv /\ LibraryCrash => LibraryInv'
<1> SUFFICES ASSUME LibraryInv, LibraryCrash PROVE LibraryInv'
  OBVIOUS
<1>0. /\ UNCHANGED <<folderOf, linkOf, restored, media>> /\ gate' = {} /\ renaming' = NoRename
      /\ clone' = NoClone /\ deleter' = NoDeleter
      /\ deletion \in DeletionRow /\ deletion.task \in TaskRows
      /\ (deletion.pc = "none" => deletion.task.st = "none")
      /\ \/ deletion.pc = "none" /\ deletion' = deletion
         \/ deletion' = [deletion EXCEPT !.pc = "idle", !.leftLinks = {}, !.leftFolders = {},
                                         !.task = RecoveredRow(deletion.task)]
  BY DEF LibraryCrash, LibraryInv, DeletionInv, DeletionRow
<1>1. /\ TreeInv' /\ RowsGoOn /\ LiveLinks' = LiveLinks /\ TreeInv /\ DeletionInv
  BY <1>0, RowsUntouched DEF LibraryInv
<1>2. FilesInv'
  BY <1>0, <1>1, LibraryRows DEF LibraryInv, FilesInv, FilesShape, LinksKeepFiles
<1>3. CASE deletion.pc = "none" /\ deletion' = deletion
  BY <1>1, <1>2, <1>3, DeletionUntouched DEF LibraryInv
<1>4. CASE deletion' = [deletion EXCEPT !.pc = "idle", !.leftLinks = {}, !.leftFolders = {},
                                         !.task = RecoveredRow(deletion.task)]
  <2> DEFINE t == RecoveredRow(deletion.task)
  <2>1. t \in TaskRows /\ (t.st = "succeeded" <=> deletion.task.st = "succeeded")
    BY <1>0, TaskRecovered
  <2>2. deletion' = [deletion EXCEPT !.pc = "idle", !.leftLinks = {}, !.leftFolders = {}, !.task = t]
    BY <1>4
  <2> HIDE DEF t
  <2>3. /\ deletion' \in DeletionRow /\ deletion'.links = deletion.links
        /\ deletion'.folders = deletion.folders /\ deletion'.user = deletion.user
        /\ deletion'.pc = "idle" /\ deletion'.task = t
    BY <1>0, <2>1, <2>2 DEF DeletionRow
  <2>4. DeletionInv'
    BY <1>1, <2>1, <2>3, DeletionGoesOn
  <2> QED
    BY <1>1, <1>2, <2>4 DEF LibraryInv
<1> QED
  BY <1>0, <1>3, <1>4

(* The gate, and a clone between its check and its insert. *)
LEMMA RequestsWait ==
    ASSUME LibraryInv,
           \/ \E user \in Users : StageBegins(user) \/ StageEnds(user)
           \/ \E user \in Users, parent \in Folders \cup {0}, f \in LibraryFiles :
                  CloneFileByHash(user, parent, f)
    PROVE  LibraryInv'
<1>0. /\ UNCHANGED <<folderOf, linkOf, media, deleter, deletion, renaming, restored>>
      /\ gate' \subseteq Users /\ clone' \in CloneRow
      /\ clone'.pc = "checked" => clone'.file \in LibraryFiles
  <2>1. clone \in CloneRow /\ gate \subseteq Users
        /\ (clone.pc = "checked" => clone.file \in LibraryFiles)
    BY DEF LibraryInv, FilesInv, FilesShape
  <2>2. ASSUME NEW user \in Users, StageBegins(user) \/ StageEnds(user)
        PROVE  /\ UNCHANGED <<folderOf, linkOf, media, deleter, deletion, clone, renaming, restored>>
               /\ gate' \subseteq Users
    BY <2>1, <2>2 DEF StageBegins, StageEnds, renameVars
  <2>3. ASSUME NEW user \in Users, NEW parent \in Folders \cup {0}, NEW f \in LibraryFiles,
               CloneFileByHash(user, parent, f)
        PROVE  /\ UNCHANGED <<folderOf, linkOf, media, deleter, deletion, gate, renaming, restored>>
               /\ clone' \in CloneRow /\ clone'.file \in LibraryFiles
    BY <2>3 DEF CloneFileByHash, CloneRow, renameVars
  <2> QED
    BY <2>1, <2>2, <2>3
<1>1. /\ TreeInv' /\ RowsGoOn /\ LiveLinks' = LiveLinks /\ TreeInv /\ DeletionInv
  BY <1>0, RowsUntouched DEF LibraryInv
<1>2. FilesInv'
  BY <1>0, <1>1 DEF LibraryInv, FilesInv, FilesShape, LinksKeepFiles
<1> QED
  BY <1>0, <1>1, <1>2, DeletionUntouched DEF LibraryInv

(* Renames.  A load keeps the rows; a save that finds the row as it was    *)
(* loaded changes nothing, and any other puts it among the restored ones.  *)
LEMMA RenameLoads ==
    ASSUME LibraryInv, (\E d \in Folders : LoadFolder(d)) \/ (\E l \in Links : LoadLink(l))
    PROVE  LibraryInv'
<1>0. UNCHANGED <<folderOf, linkOf, media, gate, clone, deleter, deletion, restored>>
  BY DEF LoadFolder, LoadLink
<1>1. RowsGoOn /\ RowsShape /\ LiveLinks' = LiveLinks
  BY <1>0 DEF RowsGoOn, LinkGoesOn, FolderGoesOn, LibraryInv, TreeInv, LiveLinks
<1>2. RenameInv'
  <2>1. ASSUME NEW d \in Folders, LoadFolder(d) PROVE RenameInv'
    <3>1. /\ renaming' = [kind |-> "folder", item |-> d, parent |-> folderOf[d].parent]
          /\ folderOf[d].st = "live" /\ folderOf[d].parent \in Folders \cup {0}
      BY <1>1, <2>1 DEF LoadFolder, LiveFolders, RowsShape, FolderRow
    <3> QED
      BY <1>0, <3>1 DEF RenameInv, RenameRow
  <2>2. ASSUME NEW l \in Links, LoadLink(l) PROVE RenameInv'
    <3>1. /\ renaming' = [kind |-> "link", item |-> l, parent |-> linkOf[l].parent]
          /\ linkOf[l].st = "live" /\ linkOf[l].parent \in Folders \cup {0}
          /\ linkOf[l].file \in LibraryFiles
      BY <1>1, <2>2 DEF LoadLink, LiveLinks, RowsShape, LinkRow, LibraryInv, FilesInv
    <3> QED
      BY <1>0, <3>1 DEF RenameInv, RenameRow
  <2> QED
    BY <2>1, <2>2
<1>3. TreeInv'
  BY <1>0, <1>2 DEF LibraryInv, TreeInv, RowsShape, Rooted, InPlace, LiveFolders, LiveLinks,
                    SoundFolders, SoundLinks
<1>4. FilesInv'
  BY <1>0, <1>1, FilesKept DEF LibraryInv, FilesInv, FilesShape
<1> QED
  BY <1>0, <1>1, <1>3, <1>4, DeletionUntouched DEF LibraryInv

LEMMA FolderSaved == LibraryInv /\ SaveFolder => LibraryInv'
<1> SUFFICES ASSUME LibraryInv, SaveFolder PROVE LibraryInv'
  OBVIOUS
<1> DEFINE d == renaming.item
<1>0. /\ d \in Folders /\ folderOf[d].st # "none" /\ renaming.parent \in Folders \cup {0}
      /\ UNCHANGED <<linkOf, media, gate, clone, deleter, deletion>> /\ renaming' = NoRename
      /\ folderOf \in [Folders -> FolderRow] /\ RowsShape /\ gate \subseteq Users
  BY DEF LibraryInv, TreeInv, RenameInv, RenameRow, RowsShape, SaveFolder, FilesInv, FilesShape
<1>1. TreeInv' /\ RowsGoOn
  <2>1. CASE folderOf' = folderOf
    BY <1>0, <2>1, RowsUntouched DEF LibraryInv, SaveFolder
  <2>2. CASE folderOf' # folderOf
    <3>0. restored' = [restored EXCEPT !.folders = restored.folders \cup {d}]
      BY <2>2 DEF SaveFolder
    <3>1. /\ folderOf' = [folderOf EXCEPT ![d] = [folderOf[d] EXCEPT !.st = "live",
                                                                    !.parent = renaming.parent]]
          /\ folderOf[d] \in FolderRow
      BY <1>0 DEF SaveFolder
    <3> HIDE DEF d
    <3>2. /\ restored'.folders = restored.folders \cup {d} /\ restored'.links = restored.links
          /\ restored' \in [folders : SUBSET Folders, links : SUBSET Links]
      BY <1>0, <3>0 DEF RowsShape
    <3>3. /\ folderOf'[d].st = "live" /\ folderOf'[d].owner = folderOf[d].owner
          /\ folderOf'[d] \in FolderRow /\ folderOf' \in [Folders -> FolderRow]
          /\ \A e \in Folders : e # d => folderOf'[e] = folderOf[e]
      BY <1>0, <3>1 DEF FolderRow
    <3>4. RowsShape' /\ RowsGoOn
      BY <1>0, <3>2, <3>3 DEF RowsShape, RowsGoOn, LinkGoesOn, FolderGoesOn
    <3>5. /\ LiveFolders \subseteq LiveFolders' /\ SoundLinks' = SoundLinks
          /\ SoundFolders' = SoundFolders \ {d}
      BY <1>0, <3>2, <3>3 DEF LiveFolders, LiveLinks, SoundLinks, SoundFolders
    <3>6. \A p, o : InPlace(p, o) => InPlace(p, o)'
      BY <3>3, <3>5 DEF InPlace, LiveFolders
    <3>7. \A e \in SoundFolders' : e \in SoundFolders /\ folderOf'[e] = folderOf[e]
      BY <3>3, <3>5 DEF SoundFolders, LiveFolders
    <3>8. /\ \A e \in SoundFolders' : InPlace(folderOf[e].parent, folderOf[e].owner)'
          /\ \A l \in SoundLinks' : InPlace(linkOf[l].parent, linkOf[l].owner)'
      BY <1>0, <3>5, <3>6, <3>7 DEF LibraryInv, TreeInv
    <3>9. Rooted'
      BY <3>7 DEF LibraryInv, TreeInv, Rooted
    <3> QED
      BY <1>0, <3>4, <3>8, <3>9, RenameGoesOn DEF LibraryInv, TreeInv
  <2> QED
    BY <2>1, <2>2
<1>2. LiveLinks' = LiveLinks
  BY <1>0 DEF LiveLinks
<1>3. FilesInv'
  BY <1>0, <1>1, <1>2, FilesKept DEF LibraryInv
<1> QED
  BY <1>0, <1>1, <1>3, DeletionUntouched DEF LibraryInv

LEMMA LinkSaved == LibraryInv /\ SaveLink => LibraryInv'
<1> SUFFICES ASSUME LibraryInv, SaveLink PROVE LibraryInv'
  OBVIOUS
<1> DEFINE l == renaming.item
           r == [linkOf[l] EXCEPT !.st = "live", !.parent = renaming.parent,
                                  !.late = IF linkOf[l].st = "live" THEN linkOf[l].late
                                           ELSE Late(linkOf[l].file)]
<1>0. /\ l \in Links /\ linkOf[l].st # "none" /\ renaming.parent \in Folders \cup {0}
      /\ linkOf[l].file \in LibraryFiles
      /\ UNCHANGED <<folderOf, media, gate, clone, deleter, deletion>> /\ renaming' = NoRename
      /\ linkOf \in [Links -> LinkRow] /\ RowsShape
  BY DEF LibraryInv, TreeInv, RenameInv, RenameRow, RowsShape, SaveLink
<1>1. linkOf' = [linkOf EXCEPT ![l] = r]
  BY DEF SaveLink
<1>2. /\ r \in LinkRow /\ r.st = "live" /\ r.owner = linkOf[l].owner /\ r.file = linkOf[l].file
      /\ linkOf[l].st = "live" => r.late = linkOf[l].late
      /\ linkOf[l].st # "live" => (r.late <=> Late(linkOf[l].file))
  <2>1. linkOf[l] \in LinkRow /\ Late(linkOf[l].file) \in BOOLEAN
    BY <1>0 DEF Late
  <2> QED
    BY <1>0, <2>1 DEF LinkRow
<1>3. restored' = restored \/ restored' = [restored EXCEPT !.links = restored.links \cup {l}]
  BY DEF SaveLink
<1>4. linkOf' = linkOf => restored' = restored
  BY DEF SaveLink
<1>5. linkOf' # linkOf => restored' = [restored EXCEPT !.links = restored.links \cup {l}]
  BY DEF SaveLink
<1> HIDE DEF l, r
<1>6. /\ linkOf'[l] = r /\ linkOf' \in [Links -> LinkRow]
      /\ \A k \in Links : k # l => linkOf'[k] = linkOf[k]
      /\ LiveLinks' = LiveLinks \cup {l}
  BY <1>0, <1>1, <1>2 DEF LiveLinks
<1>7. TreeInv' /\ RowsGoOn
  <2>1. CASE linkOf' = linkOf
    BY <1>0, <1>4, <2>1, RowsUntouched DEF LibraryInv
  <2>2. CASE linkOf' # linkOf
    <3>1. /\ restored'.links = restored.links \cup {l} /\ restored'.folders = restored.folders
          /\ restored' \in [folders : SUBSET Folders, links : SUBSET Links]
      BY <1>0, <1>5, <2>2 DEF RowsShape
    <3>2. RowsShape' /\ RowsGoOn
      BY <1>0, <1>2, <1>6, <3>1 DEF RowsShape, RowsGoOn, LinkGoesOn, FolderGoesOn, LiveLinks
    <3>3. /\ LiveFolders' = LiveFolders /\ SoundFolders' = SoundFolders
          /\ \A k \in SoundLinks' : k \in SoundLinks /\ linkOf'[k] = linkOf[k]
      BY <1>0, <1>6, <3>1 DEF LiveFolders, LiveLinks, SoundFolders, SoundLinks
    <3>4. Rooted' /\ \A e \in SoundFolders' : InPlace(folderOf[e].parent, folderOf[e].owner)'
      BY <1>0, <3>3 DEF LibraryInv, TreeInv, Rooted, InPlace
    <3>5. \A k \in SoundLinks' : InPlace(linkOf[k].parent, linkOf[k].owner)'
      BY <1>0, <3>3 DEF LibraryInv, TreeInv, InPlace
    <3> QED
      BY <1>0, <3>2, <3>4, <3>5, RenameGoesOn DEF LibraryInv, TreeInv
  <2> QED
    BY <2>1, <2>2
<1>8. \A k \in LiveLinks' : \/ k \in LiveLinks /\ linkOf'[k].late = linkOf[k].late
                                           /\ linkOf'[k].file = linkOf[k].file
                            \/ /\ linkOf'[k].file \in LibraryFiles
                               /\ linkOf'[k].late <=> Late(linkOf'[k].file)
  BY <1>0, <1>2, <1>6 DEF LiveLinks
<1>9. FilesInv'
  <2>1. FilesShape' /\ UNCHANGED <<media, clone, deleter>>
    BY <1>0 DEF LibraryInv, FilesInv, FilesShape
  <2>2. LinksKeepFiles' /\ \A k \in LiveLinks' : linkOf'[k].file \in LibraryFiles
    BY <1>8, <2>1 DEF LibraryInv, FilesInv, LinksKeepFiles, Late
  <2>3. deleter'.pc = "counted" =>
           \A k \in LiveLinks' : linkOf'[k].file = deleter'.file => linkOf'[k].late
    BY <1>8, <2>1 DEF LibraryInv, FilesInv, Late
  <2> QED
    BY <2>1, <2>2, <2>3 DEF LibraryInv, FilesInv
<1> QED
  BY <1>0, <1>7, <1>9, DeletionUntouched DEF LibraryInv

LEMMA LibraryStep == LibraryInv /\ [LibraryNext]_libraryVars => LibraryInv'
<1> SUFFICES ASSUME LibraryInv, [LibraryNext]_libraryVars PROVE LibraryInv'
  OBVIOUS
<1>1. CASE \E user \in Users, parent \in Folders \cup {0} :
              \/ CreateFolder(user, parent)
              \/ \E f \in LibraryFiles : CreateFile(user, parent, f)
              \/ \E ds \in SUBSET Folders, ls \in SUBSET Links : MoveItems(user, parent, ds, ls)
  BY <1>1, FolderMade, FileMade, ItemsMoved
<1>2. CASE \E user \in Users, ls \in SUBSET Links, ds \in SUBSET Folders : EnqueueDeletion(user, ls, ds)
  BY <1>2, DeletionEnqueued
<1>3. CASE \/ \E user \in Users : StageBegins(user) \/ StageEnds(user)
           \/ \E user \in Users, parent \in Folders \cup {0}, f \in LibraryFiles :
                  CloneFileByHash(user, parent, f)
  BY <1>3, RequestsWait
<1>4. CASE DeletionClaimed \/ DeletionCommits \/ CancelDeletion \/ RetryDeletion
  BY <1>4, DeletionGoes
<1>5. CASE \/ DeleterLists \/ (\E f \in LibraryFiles : DeleterCounts(f))
           \/ DeleterMarks \/ DeleteStoredFile \/ DeleterForgets
  BY <1>5, DeleterGoes
<1>6. CASE CloneLinks \/ DeletionValidates \/ DeleteFiles \/ DeleteFolders \/ LibraryCrash
  BY <1>6, CloneMade, DeletionLooks, LinksGo, FoldersGo, LibraryCrashes
<1>7. CASE \/ (\E d \in Folders : LoadFolder(d)) \/ (\E l \in Links : LoadLink(l))
           \/ SaveFolder \/ SaveLink
  BY <1>7, RenameLoads, FolderSaved, LinkSaved
<1>8. CASE UNCHANGED libraryVars
  <2>1. UNCHANGED <<folderOf, linkOf, media, clone, deleter, gate, deletion, renaming, restored>>
    BY <1>8 DEF libraryVars, renameVars
  <2>2. DeletionInv'
    BY <2>1, RowsUntouched, DeletionUntouched DEF LibraryInv
  <2> QED
    BY <2>1, <2>2, DeletionAlone DEF LibraryInv, FilesInv, FilesShape
<1> QED
  BY <1>1, <1>2, <1>3, <1>4, <1>5, <1>6, <1>7, <1>8 DEF LibraryNext

LEMMA LibraryAlways == LibrarySpec => []LibraryInv
  BY LibraryInitial, LibraryStep, PTL DEF LibrarySpec

(* For every set of folders, links, users and files and every number of     *)
(* requests, failures and crashes: every folder and link that no rename put *)
(* back lies in a folder of its owner that exists, every circle of folders  *)
(* goes through one that a rename put back, and a link whose file the       *)
(* deleter had not counted yet keeps it (MoveItems, DeleteFolders,          *)
(* CreateFolder, CreateFile, UpdateFolder, UpdateFile, runDeleter).         *)
THEOREM LibraryHangsTogether == LibrarySpec => []LibrarySound
<1>1. LibraryInv => LibrarySound
  BY TreeIsSound DEF LibraryInv, FilesInv, LibrarySound
<1> QED
  BY <1>1, LibraryAlways, PTL

(* For the same instances: a content.delete job that has succeeded has      *)
(* deleted all that was selected; what is there again was put back by a     *)
(* rename (contentDeleteHandler, UpdateFolder, UpdateFile).                 *)
THEOREM DeletionsAreComplete == LibrarySpec => []DeletionComplete
<1>1. LibraryInv => DeletionComplete
  BY DEF LibraryInv, DeletionInv
<1> QED
  BY <1>1, LibraryAlways, PTL

-----------------------------------------------------------------------------
LEMMA MaxOfFinite ==
    ASSUME NEW S, S \subseteq Nat, S # {}, IsFiniteSet(S)
    PROVE  Max(S) \in S /\ \A m \in S : Max(S) >= m
<1> DEFINE Has(U) == \E x \in U : \A y \in U : x >= y
           T == {n \in Nat : \E U \in SUBSET S : IsFiniteSet(U) /\ U # {} /\ Cardinality(U) = n /\ ~Has(U)}
<1>1. CASE T = {}
  <2>1. Cardinality(S) \in Nat
    BY FS_CardinalityType
  <2>2. Has(S)
    BY <1>1, <2>1
  <2> QED
    BY <2>2 DEF Max
<1>2. CASE T # {}
  <2>1. PICK n \in T : \A m \in T : n <= m
    BY <1>2, LeastNumber
  <2>2. PICK U \in SUBSET S : IsFiniteSet(U) /\ U # {} /\ Cardinality(U) = n /\ ~Has(U)
    BY <2>1
  <2>3. PICK x \in U : TRUE
    BY <2>2
  <2> DEFINE V == U \ {x}
  <2>4. IsFiniteSet(V) /\ Cardinality(V) = n - 1 /\ n \in Nat /\ Cardinality(V) \in Nat
    BY <2>2, <2>3, FS_RemoveElement, FS_CardinalityType
  <2>5. CASE V = {}
    <3>1. U = {x} /\ x \in Nat
      BY <2>3, <2>5
    <3> QED
      BY <2>2, <3>1
  <2>6. CASE V # {}
    <3>1. Has(V)
      <4>1. n - 1 \notin T
        BY <2>1, <2>4
      <4>2. V \in SUBSET S
        BY <2>2
      <4> HIDE DEF V, Has
      <4> QED
        BY <2>4, <2>6, <4>1, <4>2
    <3>2. PICK z \in V : \A y \in V : z >= y
      BY <3>1
    <3>3. z \in U /\ x \in Nat /\ z \in Nat /\ U \subseteq Nat
      BY <2>3, <3>2
    <3>4. CASE x >= z
      BY <2>2, <2>3, <3>2, <3>3, <3>4
    <3>5. CASE ~(x >= z)
      BY <2>2, <2>3, <3>2, <3>3, <3>5
    <3> QED
      BY <3>4, <3>5
  <2> QED
    BY <2>5, <2>6
<1> QED
  BY <1>1, <1>2

-----------------------------------------------------------------------------
(* The administration of storage.                                          *)
MountRow == [there : {"new", "yes", "gone"}, mounted : BOOLEAN, error : BOOLEAN,
             place : Places \cup {"none"}]
AdminPcs == {"idle", "register", "unregister", "mount", "begin", "load", "loaded", "scanning", "pool"}
AdminRow == [pc : AdminPcs, mount : AdminMounts \cup {"none"}, pool : AdminPools \cup {"none"},
             was : BOOLEAN, own : BOOLEAN, last : Nat, batch : SUBSET AdminFiles,
             place : Places \cup {"none"}]
UploadingRow == [pc : {"idle", "picked", "published"}, from : SUBSET AdminMounts,
                 mount : AdminMounts \cup {"none"}, place : Places \cup {"none"}]
MovingRow == [pc : {"no", "copy", "moved"}, src : AdminMounts \cup {"none"},
              to : AdminMounts \cup {"none"}, pools : SUBSET Pools]
StoredRow == [at : AdminMounts \cup {"none"}, state : {"none", "available", "unavailable"}]
PoolRow == [there : BOOLEAN, default : BOOLEAN, members : SUBSET AdminMounts]

AdminShape ==
    /\ mountRow \in [AdminMounts -> MountRow]
    /\ runtimeStore \in [AdminMounts -> Places \cup {"none"}]
    /\ storedFile \in [AdminFiles -> StoredRow]
    /\ objects \in [AdminFiles -> SUBSET Places]
    /\ admins \in [Admins -> AdminRow]
    /\ uploading \in [AdminFiles -> UploadingRow]
    /\ moving \in [AdminFiles -> MovingRow]
    /\ poolRow \in [Pools -> PoolRow]

(* The pools: a pool that is the default one exists, the local one always  *)
(* does, and until an outdated save there is one default.                  *)
Defaults == {p \in Pools : poolRow[p].there /\ poolRow[p].default}
PoolsInv ==
    /\ poolRow["local"].there
    /\ \A p \in Pools : poolRow[p].default => poolRow[p].there
    /\ ~ outdated => \E p \in Pools : Defaults = {p}
    /\ \A a \in Admins : admins[a].pc = "pool" => admins[a].pool \in AdminPools
(* The mounts: one that is mounted exists, and unless it was torn its store *)
(* is registered exactly while it is mounted, or while the administrator    *)
(* who holds its lock is half done.                                         *)
MountOK(m) ==
    /\ mountRow[m].mounted => Exists(m)
    /\ Exists(m) => mountRow[m].place \in Places
    /\ m \notin torn => /\ Registered(m) /\ ~ Writer(m) => mountRow[m].mounted
                        /\ Registered(m) /\ mountRow[m].mounted => runtimeStore[m] = mountRow[m].place

(* An administrator's request between two of its steps.                    *)
Scans == {"begin", "load", "loaded"}
AdminOK(a) ==
    LET m == admins[a].mount
    IN /\ admins[a].pc \in Scans \cup {"register", "unregister", "mount", "scanning"} => m \in AdminMounts
       /\ admins[a].pc = "register" =>
            /\ admins[a].place \in Places
            /\ m \notin torn => mountRow[m].mounted /\ mountRow[m].place = admins[a].place
       /\ admins[a].pc = "unregister" => Exists(m) /\ (m \notin torn => ~ mountRow[m].mounted)
       /\ admins[a].pc = "mount" =>
            /\ Exists(m)
            /\ m \notin torn => ~ mountRow[m].mounted /\ runtimeStore[m] = mountRow[m].place
       /\ admins[a].pc = "scanning" =>
            /\ admins[a].place \in Places
            /\ m \notin torn => mountRow[m].mounted /\ runtimeStore[m] = admins[a].place

(* An upload whose file is not recorded, and whose objects are where the    *)
(* mount it holds opens.                                                    *)
UploadOK(f) ==
    LET m == uploading[f].mount
    IN /\ uploading[f].pc # "idle" => storedFile[f].state = "none"
       /\ uploading[f].pc = "published" =>
            /\ m \in AdminMounts /\ uploading[f].place \in objects[f]
            /\ m \notin torn => mountRow[m].mounted /\ runtimeStore[m] = uploading[f].place

(* A file, the mount its row names and the one its migration moves it to.                                     *)
FileOK(f) ==
    /\ storedFile[f].state = "none" <=> storedFile[f].at = "none"
    /\ moving[f].pc # "no" => moving[f].to \in AdminMounts
    /\ storedFile[f].state = "available" /\ storedFile[f].at \notin torn =>
         mountRow[storedFile[f].at].mounted /\ runtimeStore[storedFile[f].at] \in objects[f]

(* The lifecycle locks of the mounts exclude each other.                    *)
LocksOK ==
    /\ \A m \in AdminMounts : ~ (Readers(m) /\ Writer(m))
    /\ \A a, b \in Admins : /\ a # b /\ admins[a].pc \in {"unregister", "mount"}
                            /\ admins[b].pc \in {"unregister", "mount"}
                            => admins[a].mount # admins[b].mount

ReadableInv ==
    /\ \A m \in AdminMounts : MountOK(m)
    /\ \A a \in Admins : AdminOK(a)
    /\ \A f \in AdminFiles : UploadOK(f) /\ FileOK(f)
    /\ LocksOK

LEMMA MountRowChange ==
    ASSUME NEW r \in MountRow
    PROVE  /\ \A b \in BOOLEAN : [r EXCEPT !.mounted = b] \in MountRow /\ [r EXCEPT !.error = b] \in MountRow
           /\ \A w \in Places : [r EXCEPT !.place = w] \in MountRow
           /\ [NoMountRow EXCEPT !.there = "gone"] \in MountRow
  BY DEF MountRow, NoMountRow

LEMMA UnavailableRows ==
    ASSUME storedFile \in [AdminFiles -> StoredRow], NEW fs
    PROVE  Unavailable(fs) \in [AdminFiles -> StoredRow]
<1>1. ASSUME NEW f \in AdminFiles PROVE [storedFile[f] EXCEPT !.state = "unavailable"] \in StoredRow
  BY DEF StoredRow
<1>2. DEFINE g(f) == [storedFile[f] EXCEPT !.state = "unavailable"]
<1>3. Unavailable(fs) = [f \in AdminFiles |-> IF f \in fs THEN g(f) ELSE storedFile[f]]
  BY DEF Unavailable
<1>4. \A f \in AdminFiles : g(f) \in StoredRow
  BY <1>1
<1> HIDE DEF g
<1> QED
  BY <1>3, <1>4

LEMMA CreateStorageMountStep ==
    ASSUME StorageAdminAssumption, AdminShape, ReadableInv, NEW a \in Admins, NEW m \in AdminMounts, NEW where \in Places, CreateStorageMount(a, m, where)
    PROVE  AdminShape' /\ ReadableInv'
<1>1. AdminShape'
  BY StorageAdminAssumption DEF CreateStorageMount, AdminShape, MountRow, AdminRow, StoredRow, UploadingRow, PoolRow, Sets, AdminPcs, NoAdmin, Scan, Unavailable, NoMountRow, Exists, Idle, ReadableInv, AdminOK
<1>2. ASSUME NEW n \in AdminMounts PROVE MountOK(n)'
  BY StorageAdminAssumption DEF AdminShape, CreateStorageMount, MountOK, AdminOK, ReadableInv, LocksOK, Sets, NoAdmin, Scan, Writer, Readers, WriteLock, ReadLock, Exists, Registered, Idle, MountRow, AdminRow, NoMountRow
<1>3. ASSUME NEW b \in Admins PROVE AdminOK(b)'
  BY StorageAdminAssumption DEF AdminShape, CreateStorageMount, MountOK, AdminOK, ReadableInv, LocksOK, Sets, NoAdmin, Scan, Writer, Readers, WriteLock, ReadLock, Exists, Registered, Idle, MountRow, AdminRow, NoMountRow, Scans
<1>4. ASSUME NEW f \in AdminFiles PROVE UploadOK(f)'
  BY StorageAdminAssumption DEF AdminShape, CreateStorageMount, MountOK, AdminOK, UploadOK, FileOK, ReadableInv, LocksOK, Sets, NoAdmin, Scan, Writer, Readers, WriteLock, ReadLock, Exists, Registered, Idle, MountRow, AdminRow, UploadingRow, StoredRow, Unavailable, OnMount
<1>5. ASSUME NEW f \in AdminFiles PROVE FileOK(f)'
  BY StorageAdminAssumption DEF AdminShape, CreateStorageMount, MountOK, AdminOK, UploadOK, FileOK, ReadableInv, LocksOK, Sets, NoAdmin, Scan, Writer, Readers, WriteLock, ReadLock, Exists, Registered, Idle, MountRow, AdminRow, UploadingRow, StoredRow, Unavailable, OnMount
<1>6. LocksOK'
  BY StorageAdminAssumption DEF AdminShape, CreateStorageMount, LocksOK, ReadableInv, Sets, NoAdmin, Scan, Writer, Readers, WriteLock, ReadLock, Idle, AdminRow
<1> QED
  BY <1>1, <1>2, <1>3, <1>4, <1>5, <1>6 DEF ReadableInv

LEMMA CreateRegistersStep ==
    ASSUME StorageAdminAssumption, AdminShape, ReadableInv, NEW a \in Admins, CreateRegisters(a)
    PROVE  AdminShape' /\ ReadableInv'
<1>1. AdminShape'
  BY StorageAdminAssumption DEF CreateRegisters, AdminShape, MountRow, AdminRow, StoredRow, UploadingRow, PoolRow, Sets, AdminPcs, NoAdmin, Scan, Unavailable, NoMountRow, Exists, Idle, ReadableInv, AdminOK
<1>2. ASSUME NEW n \in AdminMounts PROVE MountOK(n)'
  BY StorageAdminAssumption DEF AdminShape, CreateRegisters, MountOK, AdminOK, ReadableInv, LocksOK, Sets, NoAdmin, Scan, Writer, Readers, WriteLock, ReadLock, Exists, Registered, Idle, MountRow, AdminRow, NoMountRow
<1>3. ASSUME NEW b \in Admins PROVE AdminOK(b)'
  BY StorageAdminAssumption DEF AdminShape, CreateRegisters, MountOK, AdminOK, ReadableInv, LocksOK, Sets, NoAdmin, Scan, Writer, Readers, WriteLock, ReadLock, Exists, Registered, Idle, MountRow, AdminRow, NoMountRow, Scans
<1>4. ASSUME NEW f \in AdminFiles PROVE UploadOK(f)'
  BY StorageAdminAssumption DEF AdminShape, CreateRegisters, MountOK, AdminOK, UploadOK, FileOK, ReadableInv, LocksOK, Sets, NoAdmin, Scan, Writer, Readers, WriteLock, ReadLock, Exists, Registered, Idle, MountRow, AdminRow, UploadingRow, StoredRow, Unavailable, OnMount
<1>5. ASSUME NEW f \in AdminFiles PROVE FileOK(f)'
  <2>1. PICK m \in AdminMounts : m = admins[a].mount
    BY DEF CreateRegisters, ReadableInv, AdminOK, Scans
  <2>2. /\ FileOK(f) /\ MountOK(m) /\ AdminOK(a) /\ AdminShape /\ LocksOK
        /\ UNCHANGED <<mountRow, storedFile, objects, moving, torn>>
        /\ runtimeStore' = [runtimeStore EXCEPT ![m] = admins[a].place]
    BY <2>1 DEF CreateRegisters, ReadableInv
  <2>3. CASE storedFile[f].at = m
    BY <2>1, <2>2, <2>3, StorageAdminAssumption DEF CreateRegisters, FileOK, MountOK, AdminOK, AdminShape, Registered, StoredRow
  <2>4. CASE storedFile[f].at # m
    BY <2>1, <2>2, <2>4, StorageAdminAssumption DEF FileOK, AdminShape, StoredRow
  <2> QED
    BY <2>3, <2>4
<1>6. LocksOK'
  BY StorageAdminAssumption DEF AdminShape, CreateRegisters, LocksOK, ReadableInv, Sets, NoAdmin, Scan, Writer, Readers, WriteLock, ReadLock, Idle, AdminRow
<1> QED
  BY <1>1, <1>2, <1>3, <1>4, <1>5, <1>6 DEF ReadableInv

LEMMA UpdateStorageMountStep ==
    ASSUME StorageAdminAssumption, AdminShape, ReadableInv, NEW a \in Admins, NEW m \in AdminMounts, NEW where \in Places, UpdateStorageMount(a, m, where)
    PROVE  AdminShape' /\ ReadableInv'
<1>1. AdminShape'
  <2>1. PICK r \in MountRow : mountRow' = [mountRow EXCEPT ![m] = r]
    <3> DEFINE r == [[mountRow[m] EXCEPT !.place = where] EXCEPT !.error = FALSE]
    <3>1. r \in MountRow
      <4>1. mountRow[m] \in MountRow /\ TRUE \in BOOLEAN /\ FALSE \in BOOLEAN
        BY DEF AdminShape
      <4> QED
        BY <4>1, MountRowChange
    <3>2. mountRow' = [mountRow EXCEPT ![m] = r]
      BY DEF UpdateStorageMount, AdminShape, MountRow
    <3> QED
      BY <3>1, <3>2
  <2>2. mountRow' \in [AdminMounts -> MountRow]
    BY <2>1 DEF AdminShape
  <2>3. /\ storedFile' \in [AdminFiles -> StoredRow] /\ runtimeStore' \in [AdminMounts -> Places \cup {"none"}]
        /\ admins' \in [Admins -> AdminRow] /\ poolRow' \in [Pools -> PoolRow]
    BY DEF UpdateStorageMount, AdminShape, AdminRow, StoredRow, PoolRow, Sets, AdminPcs, NoAdmin, Scan, Unavailable, Idle
  <2> QED
    BY <2>2, <2>3 DEF AdminShape, UpdateStorageMount
<1>2. ASSUME NEW n \in AdminMounts PROVE MountOK(n)'
  BY StorageAdminAssumption DEF AdminShape, UpdateStorageMount, MountOK, AdminOK, ReadableInv, LocksOK, Sets, NoAdmin, Scan, Writer, Readers, WriteLock, ReadLock, Exists, Registered, Idle, MountRow, AdminRow, NoMountRow
<1>3. ASSUME NEW b \in Admins PROVE AdminOK(b)'
  BY StorageAdminAssumption DEF AdminShape, UpdateStorageMount, MountOK, AdminOK, ReadableInv, LocksOK, Sets, NoAdmin, Scan, Writer, Readers, WriteLock, ReadLock, Exists, Registered, Idle, MountRow, AdminRow, NoMountRow, Scans
<1>4. ASSUME NEW f \in AdminFiles PROVE UploadOK(f)'
  BY StorageAdminAssumption DEF AdminShape, UpdateStorageMount, MountOK, AdminOK, UploadOK, FileOK, ReadableInv, LocksOK, Sets, NoAdmin, Scan, Writer, Readers, WriteLock, ReadLock, Exists, Registered, Idle, MountRow, AdminRow, UploadingRow, StoredRow, Unavailable, OnMount
<1>5. ASSUME NEW f \in AdminFiles PROVE FileOK(f)'
  BY StorageAdminAssumption DEF AdminShape, UpdateStorageMount, MountOK, AdminOK, UploadOK, FileOK, ReadableInv, LocksOK, Sets, NoAdmin, Scan, Writer, Readers, WriteLock, ReadLock, Exists, Registered, Idle, MountRow, AdminRow, UploadingRow, StoredRow, Unavailable, OnMount
<1>6. LocksOK'
  BY StorageAdminAssumption DEF AdminShape, UpdateStorageMount, LocksOK, ReadableInv, Sets, NoAdmin, Scan, Writer, Readers, WriteLock, ReadLock, Idle, AdminRow
<1> QED
  BY <1>1, <1>2, <1>3, <1>4, <1>5, <1>6 DEF ReadableInv

LEMMA UnmountStorageMountStep ==
    ASSUME StorageAdminAssumption, AdminShape, ReadableInv, NEW a \in Admins, NEW m \in AdminMounts, UnmountStorageMount(a, m)
    PROVE  AdminShape' /\ ReadableInv'
<1>1. AdminShape'
  <2>1. PICK r \in MountRow : mountRow' = [mountRow EXCEPT ![m] = r]
    <3> DEFINE r == [[mountRow[m] EXCEPT !.mounted = FALSE] EXCEPT !.error = TRUE]
    <3>1. r \in MountRow
      <4>1. mountRow[m] \in MountRow /\ TRUE \in BOOLEAN /\ FALSE \in BOOLEAN
        BY DEF AdminShape
      <4> QED
        BY <4>1, MountRowChange
    <3>2. mountRow' = [mountRow EXCEPT ![m] = r]
      BY DEF UnmountStorageMount, AdminShape, MountRow
    <3> QED
      BY <3>1, <3>2
  <2>2. mountRow' \in [AdminMounts -> MountRow]
    BY <2>1 DEF AdminShape
  <2>3. /\ storedFile' \in [AdminFiles -> StoredRow] /\ runtimeStore' \in [AdminMounts -> Places \cup {"none"}]
        /\ admins' \in [Admins -> AdminRow] /\ poolRow' \in [Pools -> PoolRow]
    BY UnavailableRows DEF UnmountStorageMount, AdminShape, AdminRow, Sets, AdminPcs, NoAdmin
  <2> QED
    BY <2>2, <2>3 DEF AdminShape, UnmountStorageMount
<1>2. ASSUME NEW n \in AdminMounts PROVE MountOK(n)'
  BY StorageAdminAssumption DEF AdminShape, UnmountStorageMount, MountOK, AdminOK, ReadableInv, LocksOK, Sets, NoAdmin, Scan, Writer, Readers, WriteLock, ReadLock, Exists, Registered, Idle, MountRow, AdminRow, NoMountRow
<1>3. ASSUME NEW b \in Admins PROVE AdminOK(b)'
  BY StorageAdminAssumption DEF AdminShape, UnmountStorageMount, MountOK, AdminOK, ReadableInv, LocksOK, Sets, NoAdmin, Scan, Writer, Readers, WriteLock, ReadLock, Exists, Registered, Idle, MountRow, AdminRow, NoMountRow, Scans
<1>4. ASSUME NEW f \in AdminFiles PROVE UploadOK(f)'
  BY StorageAdminAssumption DEF AdminShape, UnmountStorageMount, MountOK, AdminOK, UploadOK, FileOK, ReadableInv, LocksOK, Sets, NoAdmin, Scan, Writer, Readers, WriteLock, ReadLock, Exists, Registered, Idle, MountRow, AdminRow, UploadingRow, StoredRow, Unavailable, OnMount
<1>5. ASSUME NEW f \in AdminFiles PROVE FileOK(f)'
  BY StorageAdminAssumption DEF AdminShape, UnmountStorageMount, MountOK, AdminOK, UploadOK, FileOK, ReadableInv, LocksOK, Sets, NoAdmin, Scan, Writer, Readers, WriteLock, ReadLock, Exists, Registered, Idle, MountRow, AdminRow, UploadingRow, StoredRow, Unavailable, OnMount
<1>6. LocksOK'
  BY StorageAdminAssumption DEF AdminShape, UnmountStorageMount, LocksOK, ReadableInv, Sets, NoAdmin, Scan, Writer, Readers, WriteLock, ReadLock, Idle, AdminRow
<1> QED
  BY <1>1, <1>2, <1>3, <1>4, <1>5, <1>6 DEF ReadableInv

LEMMA UnmountUnregistersStep ==
    ASSUME StorageAdminAssumption, AdminShape, ReadableInv, NEW a \in Admins, UnmountUnregisters(a)
    PROVE  AdminShape' /\ ReadableInv'
<1>1. AdminShape'
  BY StorageAdminAssumption DEF UnmountUnregisters, AdminShape, MountRow, AdminRow, StoredRow, UploadingRow, PoolRow, Sets, AdminPcs, NoAdmin, Scan, Unavailable, NoMountRow, Exists, Idle, ReadableInv, AdminOK
<1>2. ASSUME NEW n \in AdminMounts PROVE MountOK(n)'
  BY StorageAdminAssumption DEF AdminShape, UnmountUnregisters, MountOK, AdminOK, ReadableInv, LocksOK, Sets, NoAdmin, Scan, Writer, Readers, WriteLock, ReadLock, Exists, Registered, Idle, MountRow, AdminRow, NoMountRow
<1>3. ASSUME NEW b \in Admins PROVE AdminOK(b)'
  BY StorageAdminAssumption DEF AdminShape, UnmountUnregisters, MountOK, AdminOK, ReadableInv, LocksOK, Sets, NoAdmin, Scan, Writer, Readers, WriteLock, ReadLock, Exists, Registered, Idle, MountRow, AdminRow, NoMountRow, Scans
<1>4. ASSUME NEW f \in AdminFiles PROVE UploadOK(f)'
  BY StorageAdminAssumption DEF AdminShape, UnmountUnregisters, MountOK, AdminOK, UploadOK, FileOK, ReadableInv, LocksOK, Sets, NoAdmin, Scan, Writer, Readers, WriteLock, ReadLock, Exists, Registered, Idle, MountRow, AdminRow, UploadingRow, StoredRow, Unavailable, OnMount
<1>5. ASSUME NEW f \in AdminFiles PROVE FileOK(f)'
  <2>1. PICK m \in AdminMounts : m = admins[a].mount
    BY DEF UnmountUnregisters, ReadableInv, AdminOK, Scans
  <2>2. /\ FileOK(f) /\ MountOK(m) /\ AdminOK(a) /\ AdminShape /\ LocksOK
        /\ UNCHANGED <<mountRow, storedFile, objects, moving, torn>>
        /\ runtimeStore' = [runtimeStore EXCEPT ![m] = "none"]
    BY <2>1 DEF UnmountUnregisters, ReadableInv
  <2>3. CASE storedFile[f].at = m
    BY <2>1, <2>2, <2>3, StorageAdminAssumption DEF UnmountUnregisters, FileOK, MountOK, AdminOK, AdminShape, Registered, StoredRow
  <2>4. CASE storedFile[f].at # m
    BY <2>1, <2>2, <2>4, StorageAdminAssumption DEF FileOK, AdminShape, StoredRow
  <2> QED
    BY <2>3, <2>4
<1>6. LocksOK'
  BY StorageAdminAssumption DEF AdminShape, UnmountUnregisters, LocksOK, ReadableInv, Sets, NoAdmin, Scan, Writer, Readers, WriteLock, ReadLock, Idle, AdminRow
<1> QED
  BY <1>1, <1>2, <1>3, <1>4, <1>5, <1>6 DEF ReadableInv

LEMMA DeleteStorageMountStep ==
    ASSUME StorageAdminAssumption, AdminShape, ReadableInv, NEW a \in Admins, NEW m \in AdminMounts, DeleteStorageMount(a, m)
    PROVE  AdminShape' /\ ReadableInv'
<1>1. AdminShape'
  <2>1. PICK r \in MountRow : mountRow' = [mountRow EXCEPT ![m] = r]
    <3> DEFINE r == [NoMountRow EXCEPT !.there = "gone"]
    <3>1. r \in MountRow
      <4>1. mountRow[m] \in MountRow /\ TRUE \in BOOLEAN /\ FALSE \in BOOLEAN
        BY DEF AdminShape
      <4> QED
        BY <4>1, MountRowChange
    <3>2. mountRow' = [mountRow EXCEPT ![m] = r]
      BY DEF DeleteStorageMount, AdminShape, MountRow
    <3> QED
      BY <3>1, <3>2
  <2>2. mountRow' \in [AdminMounts -> MountRow]
    BY <2>1 DEF AdminShape
  <2>4. /\ UNCHANGED <<runtimeStore, admins>> /\ storedFile' = Unavailable(OnMount(m))
        /\ poolRow' = [p \in Pools |-> [poolRow[p] EXCEPT !.members = @ \ {m}]]
    BY DEF DeleteStorageMount
  <2>3. /\ storedFile' \in [AdminFiles -> StoredRow] /\ runtimeStore' \in [AdminMounts -> Places \cup {"none"}]
        /\ admins' \in [Admins -> AdminRow] /\ poolRow' \in [Pools -> PoolRow]
    BY <2>4, UnavailableRows DEF AdminShape, PoolRow
  <2> QED
    BY <2>2, <2>3 DEF AdminShape, DeleteStorageMount
<1>2. ASSUME NEW n \in AdminMounts PROVE MountOK(n)'
  BY StorageAdminAssumption DEF AdminShape, DeleteStorageMount, MountOK, AdminOK, ReadableInv, LocksOK, Sets, NoAdmin, Scan, Writer, Readers, WriteLock, ReadLock, Exists, Registered, Idle, MountRow, AdminRow, NoMountRow
<1>3. ASSUME NEW b \in Admins PROVE AdminOK(b)'
  BY StorageAdminAssumption DEF AdminShape, DeleteStorageMount, MountOK, AdminOK, ReadableInv, LocksOK, Sets, NoAdmin, Scan, Writer, Readers, WriteLock, ReadLock, Exists, Registered, Idle, MountRow, AdminRow, NoMountRow, Scans
<1>4. ASSUME NEW f \in AdminFiles PROVE UploadOK(f)'
  BY StorageAdminAssumption DEF AdminShape, DeleteStorageMount, MountOK, AdminOK, UploadOK, FileOK, ReadableInv, LocksOK, Sets, NoAdmin, Scan, Writer, Readers, WriteLock, ReadLock, Exists, Registered, Idle, MountRow, AdminRow, UploadingRow, StoredRow, Unavailable, OnMount
<1>5. ASSUME NEW f \in AdminFiles PROVE FileOK(f)'
  BY StorageAdminAssumption DEF AdminShape, DeleteStorageMount, MountOK, AdminOK, UploadOK, FileOK, ReadableInv, LocksOK, Sets, NoAdmin, Scan, Writer, Readers, WriteLock, ReadLock, Exists, Registered, Idle, MountRow, AdminRow, UploadingRow, StoredRow, Unavailable, OnMount
<1>6. LocksOK'
  BY StorageAdminAssumption DEF AdminShape, DeleteStorageMount, LocksOK, ReadableInv, Sets, NoAdmin, Scan, Writer, Readers, WriteLock, ReadLock, Idle, AdminRow
<1> QED
  BY <1>1, <1>2, <1>3, <1>4, <1>5, <1>6 DEF ReadableInv

LEMMA RemountStorageMountStep ==
    ASSUME StorageAdminAssumption, AdminShape, ReadableInv, NEW a \in Admins, NEW m \in AdminMounts, RemountStorageMount(a, m)
    PROVE  AdminShape' /\ ReadableInv'
<1>1. AdminShape'
  BY StorageAdminAssumption DEF RemountStorageMount, AdminShape, MountRow, AdminRow, StoredRow, UploadingRow, PoolRow, Sets, AdminPcs, NoAdmin, Scan, Unavailable, NoMountRow, Exists, Idle, ReadableInv, AdminOK
<1>2. ASSUME NEW n \in AdminMounts PROVE MountOK(n)'
  BY StorageAdminAssumption DEF AdminShape, RemountStorageMount, MountOK, AdminOK, ReadableInv, LocksOK, Sets, NoAdmin, Scan, Writer, Readers, WriteLock, ReadLock, Exists, Registered, Idle, MountRow, AdminRow, NoMountRow
<1>3. ASSUME NEW b \in Admins PROVE AdminOK(b)'
  BY StorageAdminAssumption DEF AdminShape, RemountStorageMount, MountOK, AdminOK, ReadableInv, LocksOK, Sets, NoAdmin, Scan, Writer, Readers, WriteLock, ReadLock, Exists, Registered, Idle, MountRow, AdminRow, NoMountRow, Scans
<1>4. ASSUME NEW f \in AdminFiles PROVE UploadOK(f)'
  BY StorageAdminAssumption DEF AdminShape, RemountStorageMount, MountOK, AdminOK, UploadOK, FileOK, ReadableInv, LocksOK, Sets, NoAdmin, Scan, Writer, Readers, WriteLock, ReadLock, Exists, Registered, Idle, MountRow, AdminRow, UploadingRow, StoredRow, Unavailable, OnMount
<1>5. ASSUME NEW f \in AdminFiles PROVE FileOK(f)'
  BY StorageAdminAssumption DEF AdminShape, RemountStorageMount, MountOK, AdminOK, UploadOK, FileOK, ReadableInv, LocksOK, Sets, NoAdmin, Scan, Writer, Readers, WriteLock, ReadLock, Exists, Registered, Idle, MountRow, AdminRow, UploadingRow, StoredRow, Unavailable, OnMount
<1>6. LocksOK'
  BY StorageAdminAssumption DEF AdminShape, RemountStorageMount, LocksOK, ReadableInv, Sets, NoAdmin, Scan, Writer, Readers, WriteLock, ReadLock, Idle, AdminRow
<1> QED
  BY <1>1, <1>2, <1>3, <1>4, <1>5, <1>6 DEF ReadableInv

LEMMA CheckStorageMountStep ==
    ASSUME StorageAdminAssumption, AdminShape, ReadableInv, NEW m \in AdminMounts, NEW failed \in BOOLEAN, CheckStorageMount(m, failed)
    PROVE  AdminShape' /\ ReadableInv'
<1>1. AdminShape'
  <2>1. PICK r \in MountRow : mountRow' = [mountRow EXCEPT ![m] = r]
    <3> DEFINE r == [mountRow[m] EXCEPT !.error = failed]
    <3>1. r \in MountRow
      <4>1. mountRow[m] \in MountRow /\ TRUE \in BOOLEAN /\ FALSE \in BOOLEAN
        BY DEF AdminShape
      <4> QED
        BY <4>1, MountRowChange
    <3>2. mountRow' = [mountRow EXCEPT ![m] = r]
      BY DEF CheckStorageMount, AdminShape, MountRow
    <3> QED
      BY <3>1, <3>2
  <2>2. mountRow' \in [AdminMounts -> MountRow]
    BY <2>1 DEF AdminShape
  <2>3. /\ storedFile' \in [AdminFiles -> StoredRow] /\ runtimeStore' \in [AdminMounts -> Places \cup {"none"}]
        /\ admins' \in [Admins -> AdminRow] /\ poolRow' \in [Pools -> PoolRow]
    BY DEF CheckStorageMount, AdminShape, AdminRow, StoredRow, PoolRow, Sets, AdminPcs, NoAdmin, Scan, Unavailable, Idle
  <2> QED
    BY <2>2, <2>3 DEF AdminShape, CheckStorageMount
<1>2. ASSUME NEW n \in AdminMounts PROVE MountOK(n)'
  BY StorageAdminAssumption DEF AdminShape, CheckStorageMount, MountOK, AdminOK, ReadableInv, LocksOK, Sets, NoAdmin, Scan, Writer, Readers, WriteLock, ReadLock, Exists, Registered, Idle, MountRow, AdminRow, NoMountRow
<1>3. ASSUME NEW b \in Admins PROVE AdminOK(b)'
  BY StorageAdminAssumption DEF AdminShape, CheckStorageMount, MountOK, AdminOK, ReadableInv, LocksOK, Sets, NoAdmin, Scan, Writer, Readers, WriteLock, ReadLock, Exists, Registered, Idle, MountRow, AdminRow, NoMountRow, Scans
<1>4. ASSUME NEW f \in AdminFiles PROVE UploadOK(f)'
  BY StorageAdminAssumption DEF AdminShape, CheckStorageMount, MountOK, AdminOK, UploadOK, FileOK, ReadableInv, LocksOK, Sets, NoAdmin, Scan, Writer, Readers, WriteLock, ReadLock, Exists, Registered, Idle, MountRow, AdminRow, UploadingRow, StoredRow, Unavailable, OnMount
<1>5. ASSUME NEW f \in AdminFiles PROVE FileOK(f)'
  BY StorageAdminAssumption DEF AdminShape, CheckStorageMount, MountOK, AdminOK, UploadOK, FileOK, ReadableInv, LocksOK, Sets, NoAdmin, Scan, Writer, Readers, WriteLock, ReadLock, Exists, Registered, Idle, MountRow, AdminRow, UploadingRow, StoredRow, Unavailable, OnMount
<1>6. LocksOK'
  BY StorageAdminAssumption DEF AdminShape, CheckStorageMount, LocksOK, ReadableInv, Sets, NoAdmin, Scan, Writer, Readers, WriteLock, ReadLock, Idle, AdminRow
<1> QED
  BY <1>1, <1>2, <1>3, <1>4, <1>5, <1>6 DEF ReadableInv

LEMMA NoAdminRow == NoAdmin \in AdminRow
  BY DEF NoAdmin, AdminRow, AdminPcs

LEMMA AdminRowChange ==
    ASSUME NEW r \in AdminRow
    PROVE  /\ \A p \in AdminPcs : [r EXCEPT !.pc = p] \in AdminRow
           /\ \A m \in AdminMounts : [r EXCEPT !.mount = m] \in AdminRow
           /\ \A b \in BOOLEAN : [r EXCEPT !.own = b] \in AdminRow /\ [r EXCEPT !.was = b] \in AdminRow
           /\ \A p \in AdminPools : [r EXCEPT !.pool = p] \in AdminRow
           /\ \A l \in Nat : [r EXCEPT !.last = l] \in AdminRow
           /\ \A w \in Places \cup {"none"} : [r EXCEPT !.place = w] \in AdminRow
           /\ \A fs \in SUBSET AdminFiles : [r EXCEPT !.batch = fs] \in AdminRow
  BY DEF AdminRow

LEMMA ScanRow ==
    ASSUME NEW m \in AdminMounts, NEW own \in BOOLEAN
    PROVE  Scan(m, own) \in AdminRow /\ Scan(m, own).pc = "begin" /\ Scan(m, own).mount = m
  BY DEF Scan, NoAdmin, AdminRow, AdminPcs

(* A step of an administrator that changes no mount, file or upload.        *)
LEMMA AdminMoves ==
    ASSUME StorageAdminAssumption, AdminShape, ReadableInv, NEW a \in Admins, NEW r \in AdminRow,
           admins' = [admins EXCEPT ![a] = r],
           UNCHANGED <<mountRow, runtimeStore, storedFile, objects, uploading, moving, torn>>,
           poolRow' \in [Pools -> PoolRow],
           admins[a].pc \notin {"unregister", "mount"}, r.pc \notin {"register", "unregister", "mount"},
           r.pc \in Scans => r.mount \in AdminMounts,
           r.pc = "scanning" => /\ r.mount \in AdminMounts /\ ReadLock(r.mount)
                                /\ Attached(r.mount) /\ r.place = runtimeStore[r.mount]
    PROVE  AdminShape' /\ ReadableInv'
<1>1. AdminShape'
  BY DEF AdminShape
<1>2. ASSUME NEW b \in Admins PROVE admins'[b] = IF b = a THEN r ELSE admins[b]
  BY DEF AdminShape
<1>3. ASSUME NEW n \in AdminMounts PROVE MountOK(n)'
  <2>1. Writer(n) => Writer(n)'
    BY <1>2 DEF Writer
  <2> QED
    BY <2>1 DEF ReadableInv, MountOK, Registered, Exists
<1>4. ASSUME NEW b \in Admins PROVE AdminOK(b)'
  <2>1. CASE b = a
    <3>1. CASE r.pc = "scanning"
      BY <1>2, <2>1, <3>1 DEF AdminOK, Attached, ReadableInv, AdminShape, Registered, Scans
    <3>2. CASE r.pc # "scanning"
      BY <1>2, <2>1, <3>2 DEF AdminOK, Scans
    <3> QED
      BY <3>1, <3>2
  <2>2. CASE b # a
    BY <1>2, <2>2 DEF ReadableInv, AdminOK, Exists
  <2> QED
    BY <2>1, <2>2
<1>5. ASSUME NEW f \in AdminFiles PROVE UploadOK(f)' /\ FileOK(f)'
  BY DEF ReadableInv, UploadOK, FileOK
<1>6. LocksOK'
  <2>1. ASSUME NEW n \in AdminMounts, Readers(n)', Writer(n)' PROVE FALSE
    <3>1. Writer(n)
      BY <1>2, <2>1 DEF Writer
    <3>2. CASE r.pc = "scanning" /\ r.mount = n
      BY <3>1, <3>2 DEF ReadLock
    <3>3. CASE ~ (r.pc = "scanning" /\ r.mount = n)
      <4>1. Readers(n)
        BY <1>2, <2>1, <3>3 DEF Readers
      <4> QED
        BY <3>1, <4>1 DEF ReadableInv, LocksOK
    <3> QED
      BY <3>2, <3>3
  <2>2. ASSUME NEW b \in Admins, NEW c \in Admins, b # c, admins'[b].pc \in {"unregister", "mount"},
               admins'[c].pc \in {"unregister", "mount"}
        PROVE  admins'[b].mount # admins'[c].mount
    BY <1>2, <2>2 DEF ReadableInv, LocksOK
  <2> QED
    BY <2>1, <2>2 DEF LocksOK
<1> QED
  BY <1>1, <1>3, <1>4, <1>5, <1>6 DEF ReadableInv

LEMMA LoadedRow ==
    ASSUME StorageAdminAssumption, AdminShape, NEW a \in Admins, NextBatch(a) # {}
    PROVE  [admins[a] EXCEPT !.pc = "loaded", !.batch = NextBatch(a), !.last = Max(NextBatch(a))] \in AdminRow
<1>1. NextBatch(a) \subseteq AdminFiles /\ AdminFiles \subseteq Nat /\ IsFiniteSet(AdminFiles)
  BY DEF NextBatch, StorageAdminAssumption
<1>2. Max(NextBatch(a)) \in Nat
  BY <1>1, FS_Subset, MaxOfFinite
<1> DEFINE q == [admins[a] EXCEPT !.pc = "loaded"]
<1>3. q \in AdminRow
  BY AdminRowChange DEF AdminShape, AdminPcs
<1> HIDE DEF q
<1> DEFINE s == [q EXCEPT !.batch = NextBatch(a)]
<1>4. s \in AdminRow
  BY <1>1, <1>3, AdminRowChange
<1> HIDE DEF s
<1>5. [s EXCEPT !.last = Max(NextBatch(a))] \in AdminRow
  BY <1>2, <1>4, AdminRowChange
<1> QED
  BY <1>5 DEF s, q

LEMMA ScansMove ==
    ASSUME StorageAdminAssumption, AdminShape, ReadableInv, NEW a \in Admins,
           \/ \E m \in AdminMounts : ReconnectStorageMount(a, m)
           \/ ReconnectBegins(a) \/ LoadBatch(a) \/ ScanBegins(a) \/ SaveRefused(a)
           \/ \E p \in AdminPools : UpdateStoragePool(a, p)
    PROVE  AdminShape' /\ ReadableInv'
<1>0. /\ UNCHANGED <<mountRow, runtimeStore, storedFile, objects, uploading, moving, torn>>
      /\ poolRow' \in [Pools -> PoolRow] /\ admins[a] \in AdminRow
      /\ admins[a].pc \notin {"unregister", "mount"}
  BY DEF ReconnectStorageMount, ReconnectBegins, LoadBatch, ScanBegins, SaveRefused, UpdateStoragePool,
         AdminShape, Idle
<1>1. ASSUME NEW m \in AdminMounts, ReconnectStorageMount(a, m) PROVE AdminShape' /\ ReadableInv'
  <2> DEFINE r == Scan(m, FALSE)
  <2>1. r \in AdminRow /\ r.pc = "begin" /\ r.mount = m
    BY ScanRow
  <2>2. admins' = [admins EXCEPT ![a] = r]
    BY <1>1 DEF ReconnectStorageMount, Sets
  <2> HIDE DEF r
  <2> QED
    BY <1>0, <2>1, <2>2, AdminMoves
<1>2. CASE SaveRefused(a)
  <2>1. admins' = [admins EXCEPT ![a] = NoAdmin] /\ NoAdmin.pc = "idle"
    BY <1>2 DEF SaveRefused, Sets, NoAdmin
  <2> QED
    BY <1>0, <2>1, NoAdminRow, AdminMoves DEF Scans
<1>3. CASE ReconnectBegins(a)
  <2> DEFINE r == [admins[a] EXCEPT !.pc = "load"]
  <2>0. r \in AdminRow
    BY <1>0, AdminRowChange DEF AdminPcs
  <2>1. r \in AdminRow /\ r.pc = "load" /\ r.mount = admins[a].mount /\ NoAdmin.pc = "idle"
    BY <1>0, <2>0 DEF AdminRow, NoAdmin
  <2>2. r.mount \in AdminMounts
    BY <1>3, <2>1 DEF ReconnectBegins, ReadableInv, AdminOK, Scans
  <2>3. admins' = [admins EXCEPT ![a] = r] \/ admins' = [admins EXCEPT ![a] = NoAdmin]
    BY <1>3 DEF ReconnectBegins, Sets
  <2> HIDE DEF r
  <2> QED
    BY <1>0, <2>1, <2>2, <2>3, NoAdminRow, AdminMoves DEF Scans
<1>4. CASE LoadBatch(a)
  <2> DEFINE r == [admins[a] EXCEPT !.pc = "loaded", !.batch = NextBatch(a), !.last = Max(NextBatch(a))]
  <2>1. CASE NextBatch(a) = {}
    <3>1. admins' = [admins EXCEPT ![a] = NoAdmin] /\ NoAdmin.pc = "idle"
      BY <1>4, <2>1 DEF LoadBatch, Sets, NoAdmin
    <3> QED
      BY <1>0, <3>1, NoAdminRow, AdminMoves DEF Scans
  <2>2. CASE NextBatch(a) # {}
    <3>1. r \in AdminRow
      BY <2>2, LoadedRow
    <3>2. r.pc = "loaded" /\ r.mount = admins[a].mount
      BY <1>0 DEF AdminRow
    <3>3. r.mount \in AdminMounts
      BY <1>4, <3>2 DEF LoadBatch, ReadableInv, AdminOK, Scans
    <3>4. admins' = [admins EXCEPT ![a] = r]
      BY <1>4, <2>2 DEF LoadBatch, Sets
    <3> HIDE DEF r
    <3> QED
      BY <1>0, <3>1, <3>2, <3>3, <3>4, AdminMoves DEF Scans
  <2> QED
    BY <2>1, <2>2
<1>5. CASE ScanBegins(a)
  <2> DEFINE m == admins[a].mount
             r == [admins[a] EXCEPT !.pc = "scanning", !.place = runtimeStore[m]]
  <2>1. m \in AdminMounts /\ ReadLock(m)
    BY <1>5 DEF ScanBegins, ReadableInv, AdminOK, Scans
  <2>2. runtimeStore[m] \in Places \cup {"none"}
    BY <2>1 DEF AdminShape
  <2>3. r \in AdminRow /\ r.pc = "scanning" /\ r.mount = m /\ r.place = runtimeStore[m]
    BY <1>0, <2>2 DEF AdminRow, AdminPcs
  <2>4. \/ admins' = [admins EXCEPT ![a] = r] /\ Attached(m)
        \/ admins' = [admins EXCEPT ![a] = NoAdmin] /\ NoAdmin.pc = "idle"
    BY <1>5 DEF ScanBegins, Sets, NoAdmin
  <2> HIDE DEF r, m
  <2> QED
    BY <1>0, <2>1, <2>3, <2>4, NoAdminRow, AdminMoves DEF Scans
<1>6. ASSUME NEW p \in AdminPools, UpdateStoragePool(a, p) PROVE AdminShape' /\ ReadableInv'
  <2> DEFINE r == [NoAdmin EXCEPT !.pc = "pool", !.pool = p, !.was = poolRow[p].default]
  <2>1. poolRow[p].default \in BOOLEAN
    BY DEF AdminShape, PoolRow, Pools
  <2>2. r \in AdminRow /\ r.pc = "pool"
    BY <2>1 DEF AdminRow, AdminPcs, NoAdmin
  <2>3. admins' = [admins EXCEPT ![a] = r]
    BY <1>6 DEF UpdateStoragePool, Sets
  <2> HIDE DEF r
  <2> QED
    BY <1>0, <2>2, <2>3, AdminMoves DEF Scans
<1> QED
  BY <1>1, <1>2, <1>3, <1>4, <1>5, <1>6

LEMMA RemountRecordsStep ==
    ASSUME StorageAdminAssumption, AdminShape, ReadableInv, NEW a \in Admins, RemountRecords(a)
    PROVE  AdminShape' /\ ReadableInv'
<1> DEFINE m == admins[a].mount
<1>0. /\ m \in AdminMounts /\ admins[a].pc = "mount" /\ Exists(m) /\ AdminOK(a) /\ MountOK(m)
      /\ m \notin torn => ~ mountRow[m].mounted /\ runtimeStore[m] = mountRow[m].place
      /\ UNCHANGED <<storedFile, objects, poolRow, uploading, moving, torn>>
      /\ ~ Readers(m) /\ Writer(m)
      /\ \A b \in Admins : b # a /\ admins[b].mount = m => admins[b].pc \notin {"unregister", "mount", "scanning"}
  BY DEF RemountRecords, ReadableInv, AdminOK, LocksOK, Writer, Readers
<1>1. \A f \in AdminFiles : storedFile[f].state = "available" /\ storedFile[f].at \notin torn => storedFile[f].at # m
  BY <1>0 DEF ReadableInv, FileOK
<1>2. \A f \in AdminFiles : ~ (uploading[f].pc = "published" /\ uploading[f].mount = m)
  BY <1>0 DEF Readers
<1>3. CASE /\ mountRow' = [mountRow EXCEPT ![m].mounted = TRUE, ![m].error = FALSE]
           /\ Sets(a, Scan(m, TRUE)) /\ UNCHANGED runtimeStore
  <2> DEFINE r == [[mountRow[m] EXCEPT !.mounted = TRUE] EXCEPT !.error = FALSE]
             s == Scan(m, TRUE)
  <2>0. mountRow[m] \in MountRow /\ TRUE \in BOOLEAN /\ FALSE \in BOOLEAN
    BY <1>0 DEF AdminShape
  <2>2. r \in MountRow
    BY <2>0, MountRowChange
  <2>11. r.place = mountRow[m].place /\ r.there = mountRow[m].there /\ r.mounted
    BY <2>0 DEF MountRow
  <2>12. mountRow' = [mountRow EXCEPT ![m] = r]
    BY <1>0, <1>3 DEF AdminShape
  <2>1. /\ mountRow[m] \in MountRow /\ r.place = mountRow[m].place /\ r.there = mountRow[m].there
        /\ r.mounted /\ mountRow' = [mountRow EXCEPT ![m] = r]
    BY <2>0, <2>11, <2>12
  <2>3. s \in AdminRow /\ s.pc = "begin" /\ s.mount = m
    BY <1>0, ScanRow
  <2>4. admins' = [admins EXCEPT ![a] = s]
    BY <1>3 DEF Sets
  <2> HIDE DEF r, s
  <2>5. AdminShape'
    BY <1>0, <1>3, <2>1, <2>2, <2>3, <2>4 DEF AdminShape
  <2>6. /\ \A b \in Admins : admins'[b] = IF b = a THEN s ELSE admins[b]
        /\ \A n \in AdminMounts : mountRow'[n] = IF n = m THEN r ELSE mountRow[n]
        /\ runtimeStore' = runtimeStore
    BY <1>3, <2>1, <2>4 DEF AdminShape
  <2> HIDE DEF m
  <2>7. ASSUME NEW n \in AdminMounts PROVE MountOK(n)'
    <3>1. CASE n = m
      BY <1>0, <2>1, <2>6, <3>1 DEF MountOK, Exists, Registered
    <3>2. CASE n # m
      <4>1. Writer(n) => Writer(n)'
        BY <1>0, <2>6, <3>2 DEF m, Writer
      <4> QED
        BY <1>0, <2>6, <3>2, <4>1 DEF ReadableInv, MountOK, Registered, Exists
    <3> QED
      BY <3>1, <3>2
  <2>8. ASSUME NEW b \in Admins PROVE AdminOK(b)'
    <3>1. CASE b = a
      BY <1>0, <2>3, <2>6, <3>1 DEF AdminOK, Scans
    <3>2. CASE b # a
      <4>1. AdminOK(b) /\ admins'[b] = admins[b] /\ torn' = torn
        BY <1>0, <2>6, <3>2 DEF ReadableInv
      <4>2. CASE admins[b].mount = m
        <5>1. admins[b].pc \notin {"unregister", "mount", "scanning"}
          BY <1>0, <3>2, <4>2
        <5> QED
          BY <1>0, <2>1, <2>6, <4>1, <4>2, <5>1 DEF AdminOK
      <4>3. CASE admins[b].mount # m
        BY <1>0, <2>6, <4>1, <4>3 DEF AdminOK, Exists, Scans
      <4> QED
        BY <4>2, <4>3
    <3> QED
      BY <3>1, <3>2
  <2>9. ASSUME NEW f \in AdminFiles PROVE UploadOK(f)' /\ FileOK(f)'
    <3>1. UploadOK(f) /\ FileOK(f)
      BY DEF ReadableInv
    <3>2. UploadOK(f)'
      BY <1>0, <1>2, <2>6, <3>1 DEF UploadOK
    <3>3. FileOK(f)'
      BY <1>0, <1>1, <2>6, <3>1, StorageAdminAssumption DEF FileOK, AdminShape, StoredRow
    <3> QED
      BY <3>2, <3>3
  <2>10. LocksOK'
    <3>1. \A n \in AdminMounts : /\ Readers(n)' => Readers(n)
                                 /\ Writer(n)' => Writer(n)
      BY <1>0, <2>3, <2>6 DEF Readers, Writer
    <3>2. \A b, c \in Admins : b # c /\ admins'[b].pc \in {"unregister", "mount"} /\ admins'[c].pc \in {"unregister", "mount"}
             => admins'[b].mount # admins'[c].mount
      BY <2>3, <2>6 DEF ReadableInv, LocksOK
    <3> QED
      BY <3>1, <3>2 DEF ReadableInv, LocksOK
  <2> QED
    BY <2>5, <2>7, <2>8, <2>9, <2>10 DEF ReadableInv
<1>4. CASE /\ runtimeStore' = [runtimeStore EXCEPT ![m] = "none"]
           /\ Sets(a, NoAdmin) /\ UNCHANGED mountRow
  <2>4. admins' = [admins EXCEPT ![a] = NoAdmin] /\ NoAdmin.pc = "idle"
    BY <1>4 DEF Sets, NoAdmin
  <2>5. AdminShape'
    BY <1>0, <1>4, <2>4, NoAdminRow DEF AdminShape
  <2>6. /\ \A b \in Admins : admins'[b] = IF b = a THEN NoAdmin ELSE admins[b]
        /\ \A n \in AdminMounts : runtimeStore'[n] = IF n = m THEN "none" ELSE runtimeStore[n]
        /\ mountRow' = mountRow
    BY <1>4, <2>4 DEF AdminShape
  <2> HIDE DEF m
  <2>7. ASSUME NEW n \in AdminMounts PROVE MountOK(n)'
    <3>1. CASE n = m
      BY <1>0, <2>6, <3>1 DEF MountOK, Exists, Registered
    <3>2. CASE n # m
      <4>1. Writer(n) => Writer(n)'
        BY <1>0, <2>6, <3>2 DEF m, Writer
      <4> QED
        BY <1>0, <2>6, <3>2, <4>1 DEF ReadableInv, MountOK, Registered, Exists
    <3> QED
      BY <3>1, <3>2
  <2>8. ASSUME NEW b \in Admins PROVE AdminOK(b)'
    <3>1. CASE b = a
      BY <1>0, <2>4, <2>6, <3>1 DEF AdminOK, Scans
    <3>2. CASE b # a
      <4>1. AdminOK(b) /\ admins'[b] = admins[b] /\ torn' = torn
        BY <1>0, <2>6, <3>2 DEF ReadableInv
      <4>2. CASE admins[b].mount = m
        <5>1. admins[b].pc \notin {"unregister", "mount", "scanning"}
          BY <1>0, <3>2, <4>2
        <5> QED
          BY <1>0, <2>6, <4>1, <4>2, <5>1 DEF AdminOK
      <4>3. CASE admins[b].mount # m
        BY <1>0, <2>6, <4>1, <4>3 DEF AdminOK, Exists, Scans
      <4> QED
        BY <4>2, <4>3
    <3> QED
      BY <3>1, <3>2
  <2>9. ASSUME NEW f \in AdminFiles PROVE UploadOK(f)' /\ FileOK(f)'
    <3>1. UploadOK(f) /\ FileOK(f)
      BY DEF ReadableInv
    <3>2. UploadOK(f)'
      BY <1>0, <1>2, <2>6, <3>1 DEF UploadOK
    <3>3. FileOK(f)'
      BY <1>0, <1>1, <2>6, <3>1, StorageAdminAssumption DEF FileOK, AdminShape, StoredRow
    <3> QED
      BY <3>2, <3>3
  <2>10. LocksOK'
    <3>1. \A n \in AdminMounts : /\ Readers(n)' => Readers(n)
                                 /\ Writer(n)' => Writer(n)
      BY <1>0, <2>4, <2>6 DEF Readers, Writer
    <3>2. \A b, c \in Admins : b # c /\ admins'[b].pc \in {"unregister", "mount"} /\ admins'[c].pc \in {"unregister", "mount"}
             => admins'[b].mount # admins'[c].mount
      BY <2>4, <2>6 DEF ReadableInv, LocksOK
    <3> QED
      BY <3>1, <3>2 DEF ReadableInv, LocksOK
  <2> QED
    BY <2>5, <2>7, <2>8, <2>9, <2>10 DEF ReadableInv
<1> QED
  BY <1>3, <1>4 DEF RemountRecords

LEMMA ScanEndsStep ==
    ASSUME StorageAdminAssumption, AdminShape, ReadableInv, NEW a \in Admins, ScanEnds(a)
    PROVE  AdminShape' /\ ReadableInv'
<1>1. PICK found \in SUBSET StorageFileMatches(a) :
         /\ storedFile' = Linked(found, admins[a].mount)
         /\ \/ Sets(a, [admins[a] EXCEPT !.pc = "load", !.batch = {}, !.place = "none"])
            \/ Sets(a, NoAdmin)
  BY DEF ScanEnds
<1> DEFINE m == admins[a].mount
<1>2. /\ m \in AdminMounts /\ admins[a].pc = "scanning" /\ admins[a].place \in Places
      /\ m \notin torn => mountRow[m].mounted /\ runtimeStore[m] = admins[a].place
      /\ UNCHANGED <<mountRow, runtimeStore, objects, poolRow, uploading, moving, torn>>
  BY DEF ScanEnds, ReadableInv, AdminOK
<1>3. PICK r \in AdminRow : /\ admins' = [admins EXCEPT ![a] = r] /\ r.pc \in {"idle", "load"}
                            /\ r.pc = "load" => r.mount = m
  <2>1. NoAdmin \in AdminRow /\ NoAdmin.pc = "idle"
    BY NoAdminRow DEF NoAdmin
  <2> DEFINE s == [admins[a] EXCEPT !.pc = "load", !.batch = {}, !.place = "none"]
  <2> DEFINE s1 == [admins[a] EXCEPT !.pc = "load"]
             s2 == [s1 EXCEPT !.batch = {}]
  <2>4. s1 \in AdminRow /\ s1.pc = "load" /\ s1.mount = m
    BY DEF AdminShape, AdminRow, AdminPcs
  <2>5. s2 \in AdminRow /\ s2.pc = "load" /\ s2.mount = m
    <3> HIDE DEF s1
    <3> QED
      BY <2>4 DEF AdminRow
  <2>2. s \in AdminRow /\ s.pc = "load" /\ s.mount = m
    <3>1. s = [s2 EXCEPT !.place = "none"]
      OBVIOUS
    <3> HIDE DEF s, s2
    <3> QED
      BY <2>5, <3>1 DEF AdminRow
  <2>3. admins' = [admins EXCEPT ![a] = s] \/ admins' = [admins EXCEPT ![a] = NoAdmin]
    BY <1>1 DEF Sets
  <2> HIDE DEF s
  <2> QED
    BY <2>1, <2>2, <2>3
<1>4. \A b \in Admins : admins'[b] = IF b = a THEN r ELSE admins[b]
  BY <1>3 DEF AdminShape
<1>5. \A f \in AdminFiles : /\ storedFile'[f] \in StoredRow
                            /\ \/ storedFile'[f] = storedFile[f]
                               \/ /\ f \in found /\ storedFile[f].state = "unavailable"
                                  /\ storedFile'[f].at = m /\ storedFile'[f].state = "available"
  BY <1>1, <1>2 DEF Linked, AdminShape, StoredRow
<1>6. storedFile' \in [AdminFiles -> StoredRow]
  <2>1. storedFile' = [f \in AdminFiles |-> storedFile'[f]]
    BY <1>1 DEF Linked
  <2> QED
    BY <1>5, <2>1
<1>7. AdminShape'
  BY <1>2, <1>3, <1>6 DEF AdminShape
<1> HIDE DEF m
<1>8. \A n \in AdminMounts : (Writer(n)' <=> Writer(n)) /\ (Readers(n)' => Readers(n))
  BY <1>2, <1>3, <1>4 DEF Writer, Readers
<1>9. ASSUME NEW n \in AdminMounts PROVE MountOK(n)'
  BY <1>2, <1>8 DEF ReadableInv, MountOK, Registered, Exists
<1>10. ASSUME NEW b \in Admins PROVE AdminOK(b)'
  <2>1. CASE b = a
    BY <1>2, <1>3, <1>4, <2>1 DEF AdminOK, Scans
  <2>2. CASE b # a
    BY <1>2, <1>4, <2>2 DEF ReadableInv, AdminOK, Exists
  <2> QED
    BY <2>1, <2>2
<1>11. ASSUME NEW f \in AdminFiles PROVE UploadOK(f)' /\ FileOK(f)'
  <2>1. UploadOK(f) /\ FileOK(f)
    BY DEF ReadableInv
  <2>2. UploadOK(f)'
    BY <1>2, <1>5, <2>1 DEF UploadOK
  <2>3. f \in found => admins[a].place \in objects[f]
    BY DEF StorageFileMatches
  <2>4. FileOK(f)'
    BY <1>2, <1>5, <2>1, <2>3, StorageAdminAssumption DEF FileOK
  <2> QED
    BY <2>2, <2>4
<1>12. LocksOK'
  <2>1. \A b, c \in Admins : b # c /\ admins'[b].pc \in {"unregister", "mount"} /\ admins'[c].pc \in {"unregister", "mount"}
             => admins'[b].mount # admins'[c].mount
    BY <1>3, <1>4 DEF ReadableInv, LocksOK
  <2> QED
    BY <1>8, <2>1 DEF ReadableInv, LocksOK
<1> QED
  BY <1>7, <1>9, <1>10, <1>11, <1>12 DEF ReadableInv

(* A step of the upload of one file that is not recorded yet.               *)
LEMMA UploadMoves ==
    ASSUME StorageAdminAssumption, AdminShape, ReadableInv, NEW f \in AdminFiles, NEW r \in UploadingRow,
           NEW o \in SUBSET Places,
           uploading' = [uploading EXCEPT ![f] = r], objects' = [objects EXCEPT ![f] = o],
           UNCHANGED <<mountRow, runtimeStore, storedFile, poolRow, admins, moving, torn>>,
           storedFile[f].state = "none",
           r.pc = "published" => /\ r.mount \in AdminMounts /\ r.place \in o /\ ReadLock(r.mount)
                                 /\ r.mount \notin torn => /\ mountRow[r.mount].mounted
                                                           /\ runtimeStore[r.mount] = r.place
    PROVE  AdminShape' /\ ReadableInv'
<1>1. AdminShape'
  BY DEF AdminShape
<1>2. \A g \in AdminFiles : /\ uploading'[g] = IF g = f THEN r ELSE uploading[g]
                            /\ objects'[g] = IF g = f THEN o ELSE objects[g]
  BY DEF AdminShape
<1>3. \A n \in AdminMounts : MountOK(n)'
  BY DEF ReadableInv, MountOK, Writer, Exists, Registered
<1>4. \A b \in Admins : AdminOK(b)'
  BY DEF ReadableInv, AdminOK, Exists
<1>5. ASSUME NEW g \in AdminFiles PROVE UploadOK(g)' /\ FileOK(g)'
  <2>1. UploadOK(g) /\ FileOK(g)
    BY DEF ReadableInv
  <2>2. CASE g = f
    BY <1>2, <2>1, <2>2 DEF UploadOK, FileOK
  <2>3. CASE g # f
    BY <1>2, <2>1, <2>3 DEF UploadOK, FileOK
  <2> QED
    BY <2>2, <2>3
<1>6. LocksOK'
  <2>1. \A n \in AdminMounts : Writer(n)' <=> Writer(n)
    BY DEF Writer
  <2>2. ASSUME NEW n \in AdminMounts, Readers(n)', Writer(n) PROVE FALSE
    <3>1. ~ Readers(n)
      BY <2>2 DEF ReadableInv, LocksOK
    <3>2. r.pc = "published" /\ r.mount = n
      BY <1>2, <2>2, <3>1 DEF Readers
    <3> QED
      BY <2>2, <3>2 DEF ReadLock
  <2> QED
    BY <2>1, <2>2 DEF ReadableInv, LocksOK
<1> QED
  BY <1>1, <1>3, <1>4, <1>5, <1>6 DEF ReadableInv

LEMMA UploadsStep ==
    ASSUME StorageAdminAssumption, AdminShape, ReadableInv, NEW f \in AdminFiles,
           \/ \E p \in Pools : UploadStoreCandidates(f, p)
           \/ \E m \in AdminMounts : PublishUploadSource(f, m)
    PROVE  AdminShape' /\ ReadableInv'
<1>0. /\ UNCHANGED <<mountRow, runtimeStore, storedFile, poolRow, admins, moving, torn>>
      /\ storedFile[f].state = "none" /\ uploading[f] \in UploadingRow
      /\ objects \in [AdminFiles -> SUBSET Places] /\ objects = [objects EXCEPT ![f] = objects[f]]
      /\ objects[f] \in SUBSET Places
  BY DEF UploadStoreCandidates, PublishUploadSource, AdminShape, ReadableInv, UploadOK
<1>1. ASSUME NEW p \in Pools, UploadStoreCandidates(f, p) PROVE AdminShape' /\ ReadableInv'
  <2> DEFINE ms == {m \in poolRow[p].members : UsableMount(m)}
             r == [NoUploading EXCEPT !.pc = "picked", !.from = ms]
  <2>1. ms \subseteq AdminMounts
    BY DEF AdminShape, PoolRow
  <2>2. uploading' = [uploading EXCEPT ![f] = r] /\ objects' = objects
    BY <1>1 DEF UploadStoreCandidates
  <2> HIDE DEF ms
  <2>3. r \in UploadingRow /\ r.pc = "picked"
    BY <2>1 DEF UploadingRow, NoUploading
  <2> HIDE DEF r
  <2> QED
    BY <1>0, <2>2, <2>3, UploadMoves
<1>2. ASSUME NEW m \in AdminMounts, PublishUploadSource(f, m) PROVE AdminShape' /\ ReadableInv'
  <2>1. CASE /\ Registered(m) /\ objects' = [objects EXCEPT ![f] = @ \cup {runtimeStore[m]}]
             /\ uploading' = [uploading EXCEPT ![f] = [pc |-> "published", from |-> {}, mount |-> m,
                                                       place |-> runtimeStore[m]]]
    <3> DEFINE o == objects[f] \cup {runtimeStore[m]}
               r == [pc |-> "published", from |-> {}, mount |-> m, place |-> runtimeStore[m]]
    <3>1. runtimeStore[m] \in Places
      BY <2>1 DEF AdminShape, Registered
    <3>2. o \in SUBSET Places /\ runtimeStore[m] \in o
      BY <1>0, <3>1
    <3>3. r \in UploadingRow /\ r.mount = m /\ r.place = runtimeStore[m]
      BY <3>1 DEF UploadingRow
    <3>4. objects' = [objects EXCEPT ![f] = o] /\ uploading' = [uploading EXCEPT ![f] = r]
      BY <2>1
    <3>5. ReadLock(m) /\ (m \notin torn => mountRow[m].mounted)
      BY <1>2, <2>1 DEF PublishUploadSource, ReadLock, ReadableInv, MountOK
    <3> HIDE DEF o, r
    <3> QED
      BY <1>0, <3>2, <3>3, <3>4, <3>5, UploadMoves
  <2>2. CASE /\ uploading' = [uploading EXCEPT ![f] = IF @.from = {m} THEN NoUploading
                                                      ELSE [uploading[f] EXCEPT !.from = @ \ {m}]]
             /\ UNCHANGED objects
    <3> DEFINE left == uploading[f].from \ {m}
               r == IF uploading[f].from = {m} THEN NoUploading ELSE [uploading[f] EXCEPT !.from = left]
    <3>1. left \subseteq AdminMounts /\ uploading[f].pc = "picked"
      BY <1>0, <1>2 DEF UploadingRow, PublishUploadSource
    <3>2. uploading' = [uploading EXCEPT ![f] = r]
      BY <2>2
    <3> HIDE DEF left
    <3>3. [uploading[f] EXCEPT !.from = left] \in UploadingRow /\ [uploading[f] EXCEPT !.from = left].pc = "picked"
      BY <1>0, <3>1 DEF UploadingRow
    <3>4. NoUploading \in UploadingRow /\ NoUploading.pc = "idle"
      BY DEF UploadingRow, NoUploading
    <3>5. r \in UploadingRow /\ r.pc # "published"
      BY <3>3, <3>4
    <3> HIDE DEF r
    <3> QED
      BY <1>0, <2>2, <3>2, <3>5, UploadMoves
  <2> QED
    BY <1>2, <2>1, <2>2 DEF PublishUploadSource
<1> QED
  BY <1>1, <1>2

(* One file is recorded, or moved to another mount.                         *)
LEMMA FileRecorded ==
    ASSUME StorageAdminAssumption, AdminShape, ReadableInv, NEW f \in AdminFiles, NEW d \in AdminMounts,
           NEW o \in SUBSET Places,
           storedFile' = [storedFile EXCEPT ![f] = [at |-> d, state |-> "available"]],
           objects' = [objects EXCEPT ![f] = o], objects[f] \subseteq o,
           d \notin torn => mountRow[d].mounted /\ runtimeStore[d] \in o,
           UNCHANGED <<mountRow, runtimeStore, poolRow, admins, torn>>,
           uploading' \in [AdminFiles -> UploadingRow], moving' \in [AdminFiles -> MovingRow],
           uploading'[f].pc = "idle",
           \A g \in AdminFiles : g # f => uploading'[g] = uploading[g],
           \A g \in AdminFiles : moving'[g].pc # "no" => moving'[g].to \in AdminMounts
    PROVE  AdminShape' /\ ReadableInv'
<1> DEFINE r == [at |-> d, state |-> "available"]
<1>0. r \in StoredRow /\ r.at = d /\ r.state = "available" /\ storedFile' = [storedFile EXCEPT ![f] = r]
  BY DEF StoredRow
<1> HIDE DEF r
<1>1. AdminShape'
  <2>1. storedFile' \in [AdminFiles -> StoredRow] /\ objects' \in [AdminFiles -> SUBSET Places]
    BY <1>0 DEF AdminShape
  <2>2. mountRow' \in [AdminMounts -> MountRow] /\ runtimeStore' \in [AdminMounts -> Places \cup {"none"}]
    BY DEF AdminShape
  <2>3. admins' \in [Admins -> AdminRow] /\ poolRow' \in [Pools -> PoolRow]
    BY DEF AdminShape
  <2> QED
    BY <2>1, <2>2, <2>3 DEF AdminShape
<1>2. \A g \in AdminFiles : /\ storedFile'[g] = IF g = f THEN r ELSE storedFile[g]
                            /\ objects'[g] = IF g = f THEN o ELSE objects[g]
  BY <1>0 DEF AdminShape
<1>3. \A n \in AdminMounts : MountOK(n)'
  BY DEF ReadableInv, MountOK, Writer, Exists, Registered
<1>4. \A b \in Admins : AdminOK(b)'
  BY DEF ReadableInv, AdminOK, Exists
<1>5. ASSUME NEW g \in AdminFiles PROVE UploadOK(g)' /\ FileOK(g)'
  <2>1. UploadOK(g) /\ FileOK(g)
    BY DEF ReadableInv
  <2>2. CASE g = f
    <3>1. /\ storedFile'[g].at = d /\ storedFile'[g].state = "available" /\ objects'[g] = o
          /\ uploading'[g].pc = "idle" /\ d # "none"
      BY <1>0, <1>2, <2>2, StorageAdminAssumption
    <3>2. /\ UNCHANGED <<mountRow, runtimeStore, torn>>
          /\ moving'[g].pc # "no" => moving'[g].to \in AdminMounts
          /\ d \notin torn => mountRow[d].mounted /\ runtimeStore[d] \in o
      OBVIOUS
    <3>3. UploadOK(g)'
      BY <3>1 DEF UploadOK
    <3>4. FileOK(g)'
      BY <3>1, <3>2 DEF FileOK
    <3> QED
      BY <3>3, <3>4
  <2>3. CASE g # f
    <3>1. /\ storedFile'[g] = storedFile[g] /\ objects'[g] = objects[g] /\ uploading'[g] = uploading[g]
          /\ UNCHANGED <<mountRow, runtimeStore, torn>>
      BY <1>2, <2>3
    <3>2. UploadOK(g)'
      BY <2>1, <3>1 DEF UploadOK
    <3>3. FileOK(g)'
      BY <2>1, <3>1 DEF FileOK
    <3> QED
      BY <3>2, <3>3
  <2> QED
    BY <2>2, <2>3
<1>6. LocksOK'
  <2>1. \A n \in AdminMounts : (Writer(n)' <=> Writer(n)) /\ (Readers(n)' => Readers(n))
    BY DEF Writer, Readers
  <2> QED
    BY <2>1 DEF ReadableInv, LocksOK
<1> QED
  BY <1>1, <1>3, <1>4, <1>5, <1>6 DEF ReadableInv

LEMMA CommitUploadStep ==
    ASSUME StorageAdminAssumption, AdminShape, ReadableInv, NEW f \in AdminFiles, CommitUpload(f)
    PROVE  AdminShape' /\ ReadableInv'
<1> DEFINE m == uploading[f].mount
<1>0. /\ UNCHANGED <<mountRow, runtimeStore, poolRow, admins, moving, torn>>
      /\ uploading' = [uploading EXCEPT ![f] = NoUploading]
      /\ m \in AdminMounts /\ storedFile[f].state = "none" /\ uploading[f].place \in objects[f]
      /\ m \notin torn => mountRow[m].mounted /\ runtimeStore[m] = uploading[f].place
      /\ objects[f] \in SUBSET Places /\ objects = [objects EXCEPT ![f] = objects[f]]
      /\ moving \in [AdminFiles -> MovingRow]
      /\ \A g \in AdminFiles : moving[g].pc # "no" => moving[g].to \in AdminMounts
  BY DEF CommitUpload, ReadableInv, UploadOK, FileOK, AdminShape
<1>1. NoUploading \in UploadingRow /\ NoUploading.pc = "idle"
  BY DEF UploadingRow, NoUploading
<1>2. CASE storedFile' = [storedFile EXCEPT ![f] = [at |-> m, state |-> "available"]] /\ UNCHANGED objects
  <2>1. /\ uploading' \in [AdminFiles -> UploadingRow] /\ uploading'[f].pc = "idle"
        /\ \A g \in AdminFiles : g # f => uploading'[g] = uploading[g]
    BY <1>0, <1>1 DEF AdminShape
  <2> HIDE DEF m
  <2> QED
    BY <1>0, <1>2, <2>1, FileRecorded
<1>3. CASE objects' = [objects EXCEPT ![f] = @ \ {uploading[f].place}] /\ UNCHANGED storedFile
  <2> DEFINE o == objects[f] \ {uploading[f].place}
  <2>1. o \in SUBSET Places /\ objects' = [objects EXCEPT ![f] = o]
    BY <1>0, <1>3
  <2> HIDE DEF o
  <2> QED
    BY <1>0, <1>1, <1>3, <2>1, UploadMoves
<1> QED
  BY <1>2, <1>3 DEF CommitUpload

LEMMA MigrationCutoverStep ==
    ASSUME StorageAdminAssumption, AdminShape, ReadableInv, NEW f \in AdminFiles, MigrationCutover(f)
    PROVE  AdminShape' /\ ReadableInv'
<1> DEFINE s == moving[f].src
           d == moving[f].to
<1>0. /\ UNCHANGED <<mountRow, runtimeStore, poolRow, admins, uploading, torn>>
      /\ moving[f].pc = "copy" /\ ReadLock(d) /\ Registered(d)
      /\ storedFile[f] = [at |-> s, state |-> "available"]
      /\ objects' = [objects EXCEPT ![f] = @ \cup {runtimeStore[d]}]
      /\ storedFile' = [storedFile EXCEPT ![f].at = d]
      /\ moving' = [moving EXCEPT ![f].pc = "moved"]
      /\ moving \in [AdminFiles -> MovingRow] /\ uploading \in [AdminFiles -> UploadingRow]
      /\ storedFile \in [AdminFiles -> StoredRow] /\ objects \in [AdminFiles -> SUBSET Places]
  BY DEF MigrationCutover, AdminShape
<1>1. d \in AdminMounts /\ uploading[f].pc = "idle"
  <2>1. storedFile[f].state = "available"
    BY <1>0
  <2> QED
    BY <1>0, <2>1 DEF ReadableInv, FileOK, UploadOK
<1>2. runtimeStore[d] \in Places /\ (d \notin torn => mountRow[d].mounted)
  BY <1>0, <1>1 DEF AdminShape, Registered, ReadLock, ReadableInv, MountOK
<1>3. storedFile' = [storedFile EXCEPT ![f] = [at |-> d, state |-> "available"]]
  <2> HIDE DEF s, d
  <2>1. [storedFile[f] EXCEPT !.at = d] = [at |-> d, state |-> "available"]
    BY <1>0
  <2> QED
    BY <1>0, <2>1
<1> DEFINE o == objects[f] \cup {runtimeStore[d]}
<1>4. o \in SUBSET Places /\ objects' = [objects EXCEPT ![f] = o] /\ objects[f] \subseteq o /\ runtimeStore[d] \in o
  BY <1>0, <1>2
<1>5. /\ moving' \in [AdminFiles -> MovingRow]
      /\ \A g \in AdminFiles : moving'[g].pc # "no" => moving'[g].to \in AdminMounts
  <2> DEFINE q == [moving[f] EXCEPT !.pc = "moved"]
  <2>1. q \in MovingRow /\ q.to = d
    BY <1>0 DEF MovingRow
  <2>2. moving' = [moving EXCEPT ![f] = q]
    BY <1>0
  <2> HIDE DEF q
  <2>3. moving' \in [AdminFiles -> MovingRow]
    BY <1>0, <2>1, <2>2
  <2>4. \A g \in AdminFiles : moving[g].pc # "no" => moving[g].to \in AdminMounts
    BY DEF ReadableInv, FileOK
  <2>5. \A g \in AdminFiles : moving'[g] = IF g = f THEN q ELSE moving[g]
    BY <1>0, <2>2
  <2> QED
    BY <1>1, <2>1, <2>3, <2>4, <2>5
<1> HIDE DEF s, d, o
<1> QED
  BY <1>0, <1>1, <1>2, <1>3, <1>4, <1>5, FileRecorded

(* A step that changes a migration item or the pools only.                  *)
LEMMA OthersMove ==
    ASSUME AdminShape, ReadableInv,
           UNCHANGED <<mountRow, runtimeStore, storedFile, objects, admins, uploading, torn>>,
           moving' \in [AdminFiles -> MovingRow], poolRow' \in [Pools -> PoolRow],
           \A g \in AdminFiles : moving'[g].pc # "no" => moving'[g].to \in AdminMounts
    PROVE  AdminShape' /\ ReadableInv'
<1>1. AdminShape'
  BY DEF AdminShape
<1>2. \A n \in AdminMounts : MountOK(n)'
  BY DEF ReadableInv, MountOK, Writer, Exists, Registered
<1>3. \A b \in Admins : AdminOK(b)'
  BY DEF ReadableInv, AdminOK, Exists
<1>4. \A g \in AdminFiles : UploadOK(g)' /\ FileOK(g)'
  BY DEF ReadableInv, UploadOK, FileOK
<1>5. LocksOK'
  BY DEF ReadableInv, LocksOK, Writer, Readers
<1> QED
  BY <1>1, <1>2, <1>3, <1>4, <1>5 DEF ReadableInv

LEMMA MigrationsStep ==
    ASSUME AdminShape, ReadableInv, NEW f \in AdminFiles,
           MigrationEnds(f) \/ \E p, q \in Pools, d \in AdminMounts : StartMigration(f, p, q, d)
    PROVE  AdminShape' /\ ReadableInv'
<1>0. /\ UNCHANGED <<mountRow, runtimeStore, storedFile, objects, poolRow, admins, uploading, torn>>
      /\ moving \in [AdminFiles -> MovingRow] /\ poolRow' \in [Pools -> PoolRow]
      /\ \A g \in AdminFiles : moving[g].pc # "no" => moving[g].to \in AdminMounts
  BY DEF MigrationEnds, StartMigration, AdminShape, ReadableInv, FileOK
<1>1. PICK r \in MovingRow : moving' = [moving EXCEPT ![f] = r] /\ (r.pc # "no" => r.to \in AdminMounts)
  <2>1. CASE MigrationEnds(f)
    <3>1. NotMoving \in MovingRow /\ NotMoving.pc = "no"
      BY DEF NotMoving, MovingRow
    <3> QED
      BY <2>1, <3>1 DEF MigrationEnds
  <2>2. ASSUME NEW p \in Pools, NEW q \in Pools, NEW d \in AdminMounts, StartMigration(f, p, q, d)
        PROVE  \E r \in MovingRow : moving' = [moving EXCEPT ![f] = r] /\ (r.pc # "no" => r.to \in AdminMounts)
    <3> DEFINE r == [pc |-> "copy", src |-> storedFile[f].at, to |-> d, pools |-> {p, q}]
    <3>1. storedFile[f].at \in AdminMounts \cup {"none"} /\ moving' = [moving EXCEPT ![f] = r]
      BY <2>2 DEF StartMigration, AdminShape, StoredRow
    <3>2. r \in MovingRow /\ r.to = d
      BY <3>1 DEF MovingRow
    <3> HIDE DEF r
    <3> QED
      BY <3>1, <3>2
  <2> QED
    BY <2>1, <2>2
<1>2. moving' \in [AdminFiles -> MovingRow] /\ \A g \in AdminFiles : moving'[g] = IF g = f THEN r ELSE moving[g]
  BY <1>0, <1>1
<1> QED
  BY <1>0, <1>1, <1>2, OthersMove

LEMMA SavedPoolsShape ==
    ASSUME AdminShape, NEW p \in Pools, NEW members \in SUBSET AdminMounts, NEW default \in BOOLEAN, NEW was
    PROVE  SavedPools(p, members, default, was) \in [Pools -> PoolRow]
<1> DEFINE made == [there |-> TRUE, default |-> default, members |-> members]
           other(q) == [poolRow[q] EXCEPT !.default = IF default THEN FALSE ELSE @ \/ (was /\ q = "local")]
<1>1. made \in PoolRow
  BY DEF PoolRow
<1>2. \A q \in Pools : other(q) \in PoolRow
  BY DEF AdminShape, PoolRow
<1>3. SavedPools(p, members, default, was) = [q \in Pools |-> IF q = p THEN made ELSE other(q)]
  BY DEF SavedPools
<1> HIDE DEF made, other
<1> QED
  BY <1>1, <1>2, <1>3

LEMMA PoolsMove ==
    ASSUME AdminShape, ReadableInv,
           \/ \E p \in AdminPools, members \in SUBSET AdminMounts, d \in BOOLEAN : CreateStoragePool(p, members, d)
           \/ \E p \in Pools : SetDefaultStoragePool(p) \/ DeleteStoragePool(p)
    PROVE  AdminShape' /\ ReadableInv'
<1>0. /\ UNCHANGED <<mountRow, runtimeStore, storedFile, objects, admins, uploading, moving, torn>>
      /\ moving \in [AdminFiles -> MovingRow]
      /\ \A g \in AdminFiles : moving[g].pc # "no" => moving[g].to \in AdminMounts
  BY DEF CreateStoragePool, SetDefaultStoragePool, DeleteStoragePool, AdminShape, ReadableInv, FileOK
<1>1. poolRow' \in [Pools -> PoolRow]
  <2>1. ASSUME NEW p \in AdminPools, NEW members \in SUBSET AdminMounts, NEW d \in BOOLEAN,
               CreateStoragePool(p, members, d)
        PROVE  poolRow' \in [Pools -> PoolRow]
    BY <2>1, SavedPoolsShape DEF CreateStoragePool, Pools
  <2>2. ASSUME NEW p \in Pools, SetDefaultStoragePool(p) PROVE poolRow' \in [Pools -> PoolRow]
    <3>1. \A q \in Pools : [poolRow[q] EXCEPT !.default = q = p] \in PoolRow
      BY DEF AdminShape, PoolRow
    <3> QED
      BY <2>2, <3>1 DEF SetDefaultStoragePool
  <2>3. ASSUME NEW p \in Pools, DeleteStoragePool(p) PROVE poolRow' \in [Pools -> PoolRow]
    <3> DEFINE gone == [there |-> FALSE, default |-> FALSE, members |-> {}]
               other(q) == [poolRow[q] EXCEPT !.default = @ \/ (q = "local" /\ poolRow[p].default)]
    <3>1. gone \in PoolRow /\ \A q \in Pools : other(q) \in PoolRow
      BY DEF AdminShape, PoolRow
    <3>2. poolRow' = [q \in Pools |-> IF q = p THEN gone ELSE other(q)]
      BY <2>3 DEF DeleteStoragePool
    <3> HIDE DEF gone, other
    <3> QED
      BY <3>1, <3>2
  <2> QED
    BY <2>1, <2>2, <2>3
<1> QED
  BY <1>0, <1>1, OthersMove

LEMMA PoolSaved ==
    ASSUME StorageAdminAssumption, AdminShape, ReadableInv, PoolsInv, NEW a \in Admins,
           NEW members \in SUBSET AdminMounts, NEW d \in BOOLEAN, SaveStoragePool(a, members, d)
    PROVE  AdminShape' /\ ReadableInv'
<1>1. admins[a].pc = "pool" /\ admins[a].pool \in Pools
  BY DEF SaveStoragePool, PoolsInv, Pools
<1>2. poolRow' \in [Pools -> PoolRow]
  BY <1>1, SavedPoolsShape DEF SaveStoragePool
<1>3. /\ admins' = [admins EXCEPT ![a] = NoAdmin] /\ NoAdmin.pc = "idle"
      /\ UNCHANGED <<mountRow, runtimeStore, storedFile, objects, uploading, moving, torn>>
  BY DEF SaveStoragePool, Sets, NoAdmin
<1> QED
  BY <1>1, <1>2, <1>3, NoAdminRow, AdminMoves DEF Scans

LEMMA RestartStep ==
    ASSUME StorageAdminAssumption, AdminShape, ReadableInv, Restart
    PROVE  AdminShape' /\ ReadableInv'
<1>1. PICK opened \in SUBSET {m \in AdminMounts : mountRow[m].mounted}, back \in SUBSET AdminFiles, found \in SUBSET AdminMounts :
         /\ \A f \in back : /\ storedFile[f].at \in opened /\ storedFile[f].state = "unavailable"
                            /\ mountRow[storedFile[f].at].place \in objects[f]
         /\ runtimeStore' = [m \in AdminMounts |-> IF m \in opened THEN mountRow[m].place ELSE "none"]
         /\ mountRow' = [m \in AdminMounts |-> IF mountRow[m].mounted
                            THEN [mountRow[m] EXCEPT !.error = m \notin found]
                            ELSE mountRow[m]]
         /\ storedFile' = [f \in AdminFiles |->
                              IF f \in back THEN [storedFile[f] EXCEPT !.state = "available"]
                              ELSE IF \E m \in AdminMounts : mountRow[m].mounted /\ m \notin opened /\ storedFile[f].at = m
                              THEN [storedFile[f] EXCEPT !.state = "unavailable"]
                              ELSE storedFile[f]]
  <2>1. PICK opened \in SUBSET {m \in AdminMounts : mountRow[m].mounted} : \E scanFails \in SUBSET opened :
       LET back == {f \in AdminFiles : /\ storedFile[f].at \in opened \ scanFails
                                       /\ storedFile[f].state = "unavailable"
                                       /\ mountRow[storedFile[f].at].place \in objects[f]}
       IN /\ runtimeStore' = [m \in AdminMounts |-> IF m \in opened THEN mountRow[m].place
                                                    ELSE "none"]
          /\ mountRow' = [m \in AdminMounts |-> IF mountRow[m].mounted
                            THEN [mountRow[m] EXCEPT !.error = m \notin opened \ scanFails]
                            ELSE mountRow[m]]
          /\ storedFile' = [f \in AdminFiles |->
                              IF f \in back THEN [storedFile[f] EXCEPT !.state = "available"]
                              ELSE IF \E m \in AdminMounts : mountRow[m].mounted /\ m \notin opened /\ storedFile[f].at = m
                              THEN [storedFile[f] EXCEPT !.state = "unavailable"]
                              ELSE storedFile[f]]
    BY Zenon DEF Restart
  <2>4. PICK scanFails \in SUBSET opened :
       LET back == {f \in AdminFiles : /\ storedFile[f].at \in opened \ scanFails
                                       /\ storedFile[f].state = "unavailable"
                                       /\ mountRow[storedFile[f].at].place \in objects[f]}
       IN /\ runtimeStore' = [m \in AdminMounts |-> IF m \in opened THEN mountRow[m].place
                                                    ELSE "none"]
          /\ mountRow' = [m \in AdminMounts |-> IF mountRow[m].mounted
                            THEN [mountRow[m] EXCEPT !.error = m \notin opened \ scanFails]
                            ELSE mountRow[m]]
          /\ storedFile' = [f \in AdminFiles |->
                              IF f \in back THEN [storedFile[f] EXCEPT !.state = "available"]
                              ELSE IF \E m \in AdminMounts : mountRow[m].mounted /\ m \notin opened /\ storedFile[f].at = m
                              THEN [storedFile[f] EXCEPT !.state = "unavailable"]
                              ELSE storedFile[f]]
    BY <2>1, Zenon
  <2> DEFINE back == {f \in AdminFiles : /\ storedFile[f].at \in opened \ scanFails
                                         /\ storedFile[f].state = "unavailable"
                                         /\ mountRow[storedFile[f].at].place \in objects[f]}
             found == opened \ scanFails
  <2>2. back \in SUBSET AdminFiles /\ found \in SUBSET AdminMounts
        /\ \A f \in back : /\ storedFile[f].at \in opened /\ storedFile[f].state = "unavailable"
                           /\ mountRow[storedFile[f].at].place \in objects[f]
    OBVIOUS
  <2>3. /\ runtimeStore' = [m \in AdminMounts |-> IF m \in opened THEN mountRow[m].place ELSE "none"]
        /\ mountRow' = [m \in AdminMounts |-> IF mountRow[m].mounted
                            THEN [mountRow[m] EXCEPT !.error = m \notin found]
                            ELSE mountRow[m]]
        /\ storedFile' = [f \in AdminFiles |->
                              IF f \in back THEN [storedFile[f] EXCEPT !.state = "available"]
                              ELSE IF \E m \in AdminMounts : mountRow[m].mounted /\ m \notin opened /\ storedFile[f].at = m
                              THEN [storedFile[f] EXCEPT !.state = "unavailable"]
                              ELSE storedFile[f]]
    BY <2>4, Zenon
  <2> HIDE DEF back, found
  <2> QED
    BY <2>2, <2>3, Zenon
<1>2. /\ admins' = [a \in Admins |-> NoAdmin] /\ uploading' = [f \in AdminFiles |-> NoUploading]
      /\ UNCHANGED <<objects, moving, torn>>
      /\ \/ poolRow' = poolRow \/ poolRow' = [poolRow EXCEPT !["local"].default = TRUE]
  BY Zenon DEF Restart
<1>3. /\ NoAdmin \in AdminRow /\ NoAdmin.pc = "idle" /\ NoUploading \in UploadingRow /\ NoUploading.pc = "idle"
  BY NoAdminRow DEF NoAdmin, NoUploading, UploadingRow
<1>4. ASSUME NEW m \in AdminMounts
      PROVE  /\ mountRow'[m] \in MountRow /\ mountRow'[m].place = mountRow[m].place
             /\ mountRow'[m].there = mountRow[m].there /\ mountRow'[m].mounted = mountRow[m].mounted
             /\ runtimeStore'[m] \in Places \cup {"none"}
             /\ runtimeStore'[m] = IF m \in opened THEN mountRow[m].place ELSE "none"
  <2>1. mountRow[m] \in MountRow
    BY DEF AdminShape
  <2>2. mountRow'[m] = IF mountRow[m].mounted THEN [mountRow[m] EXCEPT !.error = m \notin found] ELSE mountRow[m]
    BY <1>1, Zenon
  <2>3. /\ mountRow'[m] \in MountRow /\ mountRow'[m].place = mountRow[m].place
        /\ mountRow'[m].there = mountRow[m].there /\ mountRow'[m].mounted = mountRow[m].mounted
    <3>1. CASE mountRow[m].mounted
      <4> DEFINE e == m \notin found
      <4>1. e \in BOOLEAN /\ mountRow'[m] = [mountRow[m] EXCEPT !.error = e]
        BY <2>2, <3>1
      <4> HIDE DEF e
      <4> QED
        BY <2>1, <4>1 DEF MountRow
    <3>2. CASE ~ mountRow[m].mounted
      BY <2>1, <2>2, <3>2
    <3> QED
      BY <3>1, <3>2
  <2>4. mountRow[m].place \in Places \cup {"none"}
    BY <2>1 DEF MountRow
  <2> QED
    BY <1>1, <2>3, <2>4
<1>5. ASSUME NEW f \in AdminFiles
      PROVE  /\ storedFile'[f] \in StoredRow /\ storedFile'[f].at = storedFile[f].at
             /\ storedFile'[f].state = IF f \in back THEN "available"
                                       ELSE IF \E m \in AdminMounts : mountRow[m].mounted /\ m \notin opened /\ storedFile[f].at = m
                                       THEN "unavailable" ELSE storedFile[f].state
  <2>1. storedFile[f] \in StoredRow
    BY DEF AdminShape
  <2>2. storedFile'[f] = IF f \in back THEN [storedFile[f] EXCEPT !.state = "available"]
                              ELSE IF \E m \in AdminMounts : mountRow[m].mounted /\ m \notin opened /\ storedFile[f].at = m
                              THEN [storedFile[f] EXCEPT !.state = "unavailable"]
                              ELSE storedFile[f]
    BY <1>1, Zenon
  <2> DEFINE lost == \E m \in AdminMounts : mountRow[m].mounted /\ m \notin opened /\ storedFile[f].at = m
  <2> HIDE DEF lost
  <2>3. storedFile'[f] = IF f \in back THEN [storedFile[f] EXCEPT !.state = "available"]
                              ELSE IF lost THEN [storedFile[f] EXCEPT !.state = "unavailable"] ELSE storedFile[f]
    BY <2>2 DEF lost
  <2>4. /\ storedFile'[f] \in StoredRow /\ storedFile'[f].at = storedFile[f].at
        /\ storedFile'[f].state = IF f \in back THEN "available" ELSE IF lost THEN "unavailable" ELSE storedFile[f].state
    BY <2>1, <2>3 DEF StoredRow
  <2> QED
    BY <2>4 DEF lost
<1>6. AdminShape'
  <2>1. mountRow' \in [AdminMounts -> MountRow] /\ runtimeStore' \in [AdminMounts -> Places \cup {"none"}]
    <3>1. mountRow' = [m \in AdminMounts |-> mountRow'[m]] /\ runtimeStore' = [m \in AdminMounts |-> runtimeStore'[m]]
      BY <1>1, Zenon
    <3> QED
      BY <1>4, <3>1
  <2>2. storedFile' \in [AdminFiles -> StoredRow]
    <3>1. storedFile' = [f \in AdminFiles |-> storedFile'[f]]
      BY <1>1, Zenon
    <3> QED
      BY <1>5, <3>1
  <2>3. poolRow' \in [Pools -> PoolRow]
    <3> DEFINE q == [poolRow["local"] EXCEPT !.default = TRUE]
    <3>3. poolRow["local"] \in PoolRow
      BY DEF AdminShape, Pools
    <3>1. q \in PoolRow
      BY <3>3 DEF PoolRow
    <3>2. poolRow' = poolRow \/ poolRow' = [poolRow EXCEPT !["local"] = q]
      BY <1>2
    <3> HIDE DEF q
    <3> QED
      BY <3>1, <3>2 DEF AdminShape
  <2>4. admins' \in [Admins -> AdminRow] /\ uploading' \in [AdminFiles -> UploadingRow]
    BY <1>2, <1>3
  <2> QED
    BY <1>2, <2>1, <2>2, <2>3, <2>4 DEF AdminShape
<1>7. ASSUME NEW n \in AdminMounts PROVE MountOK(n)'
  BY <1>1, <1>2, <1>4 DEF ReadableInv, MountOK, Exists, Registered
<1>8. ASSUME NEW b \in Admins PROVE AdminOK(b)'
  BY <1>2, <1>3 DEF AdminOK, Scans
<1>9. ASSUME NEW f \in AdminFiles PROVE UploadOK(f)' /\ FileOK(f)'
  <2>1. UploadOK(f)'
    BY <1>2, <1>3 DEF UploadOK
  <2>2. FileOK(f) /\ storedFile[f] \in StoredRow
    BY DEF ReadableInv, AdminShape
  <2> DEFINE m == storedFile[f].at
  <2>3. storedFile'[f].state = "none" <=> storedFile'[f].at = "none"
    BY <1>1, <1>5, <2>2, StorageAdminAssumption DEF FileOK
  <2>4. moving'[f].pc # "no" => moving'[f].to \in AdminMounts
    BY <1>2, <2>2 DEF FileOK
  <2>5. ASSUME storedFile'[f].state = "available", m \notin torn
        PROVE  mountRow'[m].mounted /\ runtimeStore'[m] \in objects[f]
    <3>1. m \in AdminMounts
      BY <1>5, <2>2, <2>3, <2>5 DEF StoredRow
    <3>2. CASE f \in back
      BY <1>1, <1>4, <3>1, <3>2
    <3>3. CASE f \notin back
      <4>1. storedFile[f].state = "available" /\ (mountRow[m].mounted => m \in opened)
        <5>1. ~ \E n \in AdminMounts : mountRow[n].mounted /\ n \notin opened /\ storedFile[f].at = n
          BY <1>5, <2>5, <3>3
        <5>2. storedFile[f].state = "available"
          BY <1>5, <2>5, <3>3, <5>1
        <5> QED
          BY <3>1, <5>1, <5>2
      <4>2. mountRow[m].mounted /\ runtimeStore[m] \in objects[f]
        BY <2>2, <2>5, <4>1 DEF FileOK
      <4>3. runtimeStore[m] = mountRow[m].place
        <5>1. objects[f] \subseteq Places
          BY DEF AdminShape
        <5> QED
          BY <2>5, <3>1, <4>2, <5>1, StorageAdminAssumption DEF ReadableInv, MountOK, Registered
      <4> QED
        BY <1>1, <1>4, <3>1, <4>1, <4>2, <4>3
    <3> QED
      BY <3>2, <3>3
  <2> QED
    BY <1>2, <1>5, <2>1, <2>3, <2>4, <2>5 DEF FileOK
<1>10. LocksOK'
  BY <1>2, <1>3 DEF LocksOK, Readers, Writer
<1> QED
  BY <1>6, <1>7, <1>8, <1>9, <1>10 DEF ReadableInv

LEMMA AdminInitial == StorageAdminAssumption /\ AdminInit => AdminShape /\ ReadableInv /\ PoolsInv
<1> SUFFICES ASSUME StorageAdminAssumption, AdminInit PROVE AdminShape /\ ReadableInv /\ PoolsInv
  OBVIOUS
<1>1. PICK where \in [AdminMounts -> Places \cup {"none"}], members \in [AdminPools -> SUBSET AdminMounts] :
         /\ mountRow = [m \in AdminMounts |-> IF where[m] = "none" THEN NoMountRow
                           ELSE [there |-> "yes", mounted |-> TRUE, error |-> FALSE,
                                 place |-> where[m]]]
         /\ runtimeStore = where
         /\ poolRow = [p \in Pools |-> IF p = "local" THEN [there |-> TRUE, default |-> TRUE,
                                                            members |-> {}]
                          ELSE [there |-> members[p] # {}, default |-> FALSE,
                                members |-> members[p]]]
  BY DEF AdminInit
<1>2. /\ storedFile = [f \in AdminFiles |-> [at |-> "none", state |-> "none"]]
      /\ objects = [f \in AdminFiles |-> {}]
      /\ admins = [a \in Admins |-> NoAdmin]
      /\ uploading = [f \in AdminFiles |-> NoUploading]
      /\ moving = [f \in AdminFiles |-> NotMoving]
      /\ torn = {} /\ outdated = FALSE
  BY DEF AdminInit
<1>3. /\ NoAdmin \in AdminRow /\ NoAdmin.pc = "idle" /\ NoUploading \in UploadingRow /\ NoUploading.pc = "idle"
      /\ NotMoving \in MovingRow /\ NotMoving.pc = "no"
  BY NoAdminRow DEF NoAdmin, NoUploading, UploadingRow, NotMoving, MovingRow
<1>4. AdminShape
  <2>1. mountRow \in [AdminMounts -> MountRow] /\ runtimeStore \in [AdminMounts -> Places \cup {"none"}]
    BY <1>1 DEF MountRow, NoMountRow
  <2>2. storedFile \in [AdminFiles -> StoredRow] /\ objects \in [AdminFiles -> SUBSET Places]
    BY <1>2 DEF StoredRow
  <2>3. admins \in [Admins -> AdminRow] /\ uploading \in [AdminFiles -> UploadingRow] /\ moving \in [AdminFiles -> MovingRow]
    BY <1>2, <1>3
  <2>4. poolRow \in [Pools -> PoolRow]
    <3>1. ASSUME NEW p \in Pools, p # "local" PROVE members[p] \in SUBSET AdminMounts
      BY <3>1 DEF Pools
    <3> QED
      BY <1>1, <3>1 DEF PoolRow
  <2> QED
    BY <2>1, <2>2, <2>3, <2>4 DEF AdminShape
<1>5. ReadableInv
  <2>1. \A m \in AdminMounts : MountOK(m)
    BY <1>1 DEF MountOK, Exists, Registered, NoMountRow
  <2>2. \A a \in Admins : AdminOK(a)
    BY <1>2, <1>3 DEF AdminOK, Scans
  <2>3. \A f \in AdminFiles : UploadOK(f) /\ FileOK(f)
    BY <1>2, <1>3 DEF UploadOK, FileOK
  <2>4. LocksOK
    BY <1>2, <1>3 DEF LocksOK, Readers, Writer
  <2> QED
    BY <2>1, <2>2, <2>3, <2>4 DEF ReadableInv
<1>6. PoolsInv
  <2>1. Defaults = {"local"} /\ "local" \in Pools
    BY <1>1 DEF Defaults, Pools
  <2>2. poolRow["local"].there /\ \A p \in Pools : poolRow[p].default => poolRow[p].there
    BY <1>1, <2>1
  <2> QED
    BY <1>2, <1>3, <2>1, <2>2 DEF PoolsInv
<1> QED
  BY <1>4, <1>5, <1>6

(* The default flags: given to one pool, or handed to the local one.        *)
LEMMA PoolsUntouched ==
    ASSUME PoolsInv, AdminShape, UNCHANGED <<poolRow, outdated>>,
           \A a \in Admins : admins'[a].pc = "pool" => admins'[a].pool \in AdminPools
    PROVE  PoolsInv'
  BY DEF PoolsInv, Defaults

LEMMA OneDefault ==
    ASSUME PoolsInv, AdminShape, NEW p \in Pools, poolRow'["local"].there,
           \A q \in Pools : poolRow'[q].default => poolRow'[q].there,
           \A a \in Admins : admins'[a].pc = "pool" => admins'[a].pool \in AdminPools,
           ~ outdated' => \A q \in Pools : poolRow'[q].default <=> q = p
    PROVE  PoolsInv'
<1>1. ASSUME ~ outdated' PROVE Defaults' = {p}
  BY <1>1 DEF Defaults
<1> QED
  BY <1>1 DEF PoolsInv

(* saveStoragePool, for a row whose flag is what was loaded.                *)
LEMMA Saved ==
    ASSUME StorageAdminAssumption, PoolsInv, AdminShape, NEW p \in AdminPools, NEW members \in SUBSET AdminMounts,
           NEW d \in BOOLEAN, NEW was,
           poolRow' = SavedPools(p, members, d, was),
           ~ outdated' => /\ ~ outdated
                          /\ (poolRow[p].default <=> was) \/ (~ poolRow[p].there /\ (was <=> d)),
           \A a \in Admins : admins'[a].pc = "pool" => admins'[a].pool \in AdminPools
    PROVE  PoolsInv'
<1>0. "local" \in Pools /\ p \in Pools /\ p # "local" /\ SavedPools(p, members, d, was) = poolRow'
  BY DEF Pools, StorageAdminAssumption
<1>1. ASSUME NEW q \in Pools
      PROVE  /\ q # p => poolRow'[q].there = poolRow[q].there
             /\ q = p => poolRow'[q].there
             /\ poolRow'[q].default <=> IF q = p THEN d
                                        ELSE IF d THEN FALSE ELSE poolRow[q].default \/ (was /\ q = "local")
  <2>1. poolRow[q] \in PoolRow
    BY DEF AdminShape
  <2>2. CASE q = p
    BY <2>2 DEF SavedPools
  <2>3. CASE q # p
    <3>1. poolRow'[q] = [poolRow[q] EXCEPT !.default = IF d THEN FALSE ELSE @ \/ (was /\ q = "local")]
      BY <2>3 DEF SavedPools
    <3> QED
      BY <2>1, <2>3, <3>1 DEF PoolRow
  <2> QED
    BY <2>2, <2>3
<1>2. poolRow'["local"].there /\ \A q \in Pools : poolRow'[q].default => poolRow'[q].there
  BY <1>0, <1>1 DEF PoolsInv
<1>3. ASSUME ~ outdated' PROVE \E r \in Pools : Defaults' = {r}
  <2>1. PICK r \in Pools : Defaults = {r}
    BY <1>3 DEF PoolsInv
  <2>2. \A q \in Pools : poolRow[q].default <=> q = r
    BY <2>1 DEF PoolsInv, Defaults
  <2>3. CASE d
    <3>1. \A q \in Pools : poolRow'[q].default <=> q = p
      BY <1>1, <2>3
    <3>2. Defaults' = {p}
      BY <1>0, <1>2, <3>1 DEF Defaults
    <3> QED
      BY <1>0, <3>2
  <2>4. CASE ~ d /\ was
    <3>1. \A q \in Pools : poolRow'[q].default <=> q = "local"
      BY <1>0, <1>1, <1>3, <2>2, <2>4
    <3>2. Defaults' = {"local"}
      BY <1>0, <1>2, <3>1 DEF Defaults
    <3> QED
      BY <1>0, <3>2
  <2>5. CASE ~ d /\ ~ was
    <3>1. \A q \in Pools : poolRow'[q].default <=> q = r
      BY <1>0, <1>1, <1>3, <2>2, <2>5 DEF PoolsInv
    <3>2. Defaults' = {r}
      BY <1>2, <3>1 DEF Defaults
    <3> QED
      BY <3>2
  <2> QED
    BY <2>3, <2>4, <2>5
<1> QED
  BY <1>2, <1>3 DEF PoolsInv

(* A request of an administrator leaves the pools alone, but for the mounts *)
(* it deletes.                                                              *)
PoolsLeft == \A p \in Pools : poolRow'[p].there = poolRow[p].there /\ poolRow'[p].default = poolRow[p].default

LEMMA PoolsLeftAlone ==
    ASSUME PoolsInv, PoolsLeft, outdated' = outdated, "local" \in Pools,
           \A a \in Admins : admins'[a].pc = "pool" => admins'[a].pool \in AdminPools
    PROVE  PoolsInv'
<1>1. Defaults' = Defaults
  BY DEF PoolsLeft, Defaults
<1> QED
  BY <1>1 DEF PoolsInv, PoolsLeft

LEMMA RequestsLeavePools ==
    ASSUME StorageAdminAssumption, AdminShape, PoolsInv, NEW a \in Admins,
           \/ \E m \in AdminMounts :
                \/ \E where \in Places : CreateStorageMount(a, m, where) \/ UpdateStorageMount(a, m, where)
                \/ UnmountStorageMount(a, m) \/ DeleteStorageMount(a, m) \/ RemountStorageMount(a, m)
                \/ ReconnectStorageMount(a, m)
           \/ CreateRegisters(a) \/ UnmountUnregisters(a) \/ RemountRecords(a)
           \/ ReconnectBegins(a) \/ LoadBatch(a) \/ ScanBegins(a) \/ ScanEnds(a) \/ SaveRefused(a)
           \/ \E p \in AdminPools : UpdateStoragePool(a, p)
    PROVE  PoolsInv'
<1> DEFINE PoolKept == \A b \in Admins : admins'[b].pc = "pool" => admins'[b].pool \in AdminPools
<1>0. /\ "local" \in Pools /\ \A p \in Pools : poolRow[p] \in PoolRow
      /\ admins[a] \in AdminRow /\ admins \in [Admins -> AdminRow]
      /\ \A b \in Admins : admins[b].pc = "pool" => admins[b].pool \in AdminPools
      /\ NoAdmin.pc = "idle" /\ \A m, own : Scan(m, own).pc = "begin"
  BY DEF Pools, AdminShape, PoolsInv, NoAdmin, Scan
<1>1. \A r : /\ Sets(a, r) /\ (r.pc = "pool" => r.pool \in AdminPools) => PoolKept
  BY <1>0 DEF Sets
<1>2. UNCHANGED admins => PoolKept
  BY <1>0
<1>3. outdated' = outdated
  BY Zenon DEF CreateStorageMount, UpdateStorageMount, UnmountStorageMount, DeleteStorageMount, RemountStorageMount,
     ReconnectStorageMount, CreateRegisters, UnmountUnregisters, RemountRecords, ReconnectBegins, LoadBatch,
     ScanBegins, ScanEnds, SaveRefused, UpdateStoragePool
<1>4. UNCHANGED poolRow => PoolsLeft
  BY DEF PoolsLeft
<1> HIDE DEF PoolKept
<1>5. ASSUME NEW m \in AdminMounts, NEW where \in Places,
             CreateStorageMount(a, m, where) \/ UpdateStorageMount(a, m, where)
      PROVE  PoolKept /\ PoolsLeft
  <2>1. CASE CreateStorageMount(a, m, where)
    <3> DEFINE r == [NoAdmin EXCEPT !.pc = "register", !.mount = m, !.place = where]
    <3>1. Sets(a, r) /\ UNCHANGED poolRow
      BY <2>1 DEF CreateStorageMount
    <3>2. r.pc = "register"
      BY DEF NoAdmin
    <3> HIDE DEF r
    <3> QED
      BY <1>1, <1>4, <3>1, <3>2
  <2>2. CASE UpdateStorageMount(a, m, where)
    BY <1>2, <1>4, <2>2 DEF UpdateStorageMount
  <2> QED
    BY <1>5, <2>1, <2>2
<1>6. ASSUME NEW m \in AdminMounts, UnmountStorageMount(a, m) PROVE PoolKept /\ PoolsLeft
  <2> DEFINE r == [NoAdmin EXCEPT !.pc = "unregister", !.mount = m]
  <2>1. Sets(a, r) /\ UNCHANGED poolRow
    BY <1>6 DEF UnmountStorageMount
  <2>2. r.pc = "unregister"
    BY DEF NoAdmin
  <2> HIDE DEF r
  <2> QED
    BY <1>1, <1>4, <2>1, <2>2
<1>7. ASSUME NEW m \in AdminMounts, DeleteStorageMount(a, m) PROVE PoolKept /\ PoolsLeft
  <2>1. ASSUME NEW p \in Pools PROVE poolRow'[p].there = poolRow[p].there /\ poolRow'[p].default = poolRow[p].default
    <3>1. poolRow'[p] = [poolRow[p] EXCEPT !.members = @ \ {m}]
      BY <1>7 DEF DeleteStorageMount
    <3> QED
      BY <1>0, <3>1 DEF PoolRow
  <2> QED
    BY <1>2, <1>7, <2>1 DEF DeleteStorageMount, PoolsLeft
<1>8. ASSUME NEW m \in AdminMounts, RemountStorageMount(a, m) PROVE PoolKept /\ PoolsLeft
  <2> DEFINE r == [NoAdmin EXCEPT !.pc = "mount", !.mount = m]
  <2>1. Sets(a, r) /\ UNCHANGED poolRow
    BY <1>8 DEF RemountStorageMount
  <2>2. r.pc = "mount"
    BY DEF NoAdmin
  <2> HIDE DEF r
  <2> QED
    BY <1>1, <1>4, <2>1, <2>2
<1>9. ASSUME NEW m \in AdminMounts, ReconnectStorageMount(a, m) PROVE PoolKept /\ PoolsLeft
  BY <1>0, <1>1, <1>4, <1>9 DEF ReconnectStorageMount
<1>10. ASSUME CreateRegisters(a) PROVE PoolKept /\ PoolsLeft
  BY <1>0, <1>1, <1>4, <1>10 DEF CreateRegisters
<1>11. ASSUME UnmountUnregisters(a) PROVE PoolKept /\ PoolsLeft
  BY <1>0, <1>1, <1>4, <1>11 DEF UnmountUnregisters
<1>12. ASSUME RemountRecords(a) PROVE PoolKept /\ PoolsLeft
  <2>1. UNCHANGED poolRow /\ (Sets(a, Scan(admins[a].mount, TRUE)) \/ Sets(a, NoAdmin))
    BY <1>12 DEF RemountRecords
  <2> QED
    BY <1>0, <1>1, <1>4, <2>1
<1>13. ASSUME ReconnectBegins(a) PROVE PoolKept /\ PoolsLeft
  <2> DEFINE r == [admins[a] EXCEPT !.pc = "load"]
  <2>1. UNCHANGED poolRow /\ (Sets(a, r) \/ Sets(a, NoAdmin))
    BY <1>13 DEF ReconnectBegins
  <2>2. r.pc = "load"
    BY <1>0 DEF AdminRow
  <2> HIDE DEF r
  <2> QED
    BY <1>0, <1>1, <1>4, <2>1, <2>2
<1>14. ASSUME LoadBatch(a) PROVE PoolKept /\ PoolsLeft
  <2> DEFINE r == [admins[a] EXCEPT !.pc = "loaded", !.batch = NextBatch(a), !.last = Max(NextBatch(a))]
  <2>1. UNCHANGED poolRow /\ (Sets(a, r) \/ Sets(a, NoAdmin))
    BY <1>14 DEF LoadBatch
  <2>2. r.pc = "loaded"
    BY <1>0 DEF AdminRow
  <2> HIDE DEF r
  <2> QED
    BY <1>0, <1>1, <1>4, <2>1, <2>2
<1>15. ASSUME ScanBegins(a) PROVE PoolKept /\ PoolsLeft
  <2> DEFINE r == [admins[a] EXCEPT !.pc = "scanning", !.place = runtimeStore[admins[a].mount]]
  <2>1. UNCHANGED poolRow /\ (Sets(a, r) \/ Sets(a, NoAdmin))
    BY <1>15 DEF ScanBegins
  <2>2. r.pc = "scanning"
    BY <1>0 DEF AdminRow
  <2> HIDE DEF r
  <2> QED
    BY <1>0, <1>1, <1>4, <2>1, <2>2
<1>16. ASSUME ScanEnds(a) PROVE PoolKept /\ PoolsLeft
  <2> DEFINE r == [admins[a] EXCEPT !.pc = "load", !.batch = {}, !.place = "none"]
  <2>1. UNCHANGED poolRow /\ (Sets(a, r) \/ Sets(a, NoAdmin))
    BY <1>16 DEF ScanEnds
  <2>2. r.pc = "load"
    BY <1>0 DEF AdminRow
  <2> HIDE DEF r
  <2> QED
    BY <1>0, <1>1, <1>4, <2>1, <2>2
<1>17. ASSUME SaveRefused(a) PROVE PoolKept /\ PoolsLeft
  BY <1>0, <1>1, <1>4, <1>17 DEF SaveRefused
<1>18. ASSUME NEW p \in AdminPools, UpdateStoragePool(a, p) PROVE PoolKept /\ PoolsLeft
  <2> DEFINE r == [NoAdmin EXCEPT !.pc = "pool", !.pool = p, !.was = poolRow[p].default]
  <2>1. UNCHANGED poolRow /\ Sets(a, r)
    BY <1>18 DEF UpdateStoragePool
  <2>2. r.pool = p
    BY DEF NoAdmin
  <2> HIDE DEF r
  <2> QED
    BY <1>1, <1>4, <2>1, <2>2
<1>19. PoolKept /\ PoolsLeft
  BY <1>5, <1>6, <1>7, <1>8, <1>9, <1>10, <1>11, <1>12, <1>13, <1>14, <1>15, <1>16, <1>17, <1>18
<1> QED
  BY <1>0, <1>3, <1>19, PoolsLeftAlone DEF PoolKept

LEMMA PoolsChange ==
    ASSUME StorageAdminAssumption, AdminShape, PoolsInv,
           \/ \E a \in Admins, members \in SUBSET AdminMounts, d \in BOOLEAN : SaveStoragePool(a, members, d)
           \/ \E p \in AdminPools, members \in SUBSET AdminMounts, d \in BOOLEAN : CreateStoragePool(p, members, d)
           \/ \E p \in Pools : SetDefaultStoragePool(p) \/ DeleteStoragePool(p)
           \/ Restart
    PROVE  PoolsInv'
<1>0. /\ "local" \in Pools /\ \A p \in AdminPools : p \in Pools /\ p # "local"
      /\ \A p \in Pools : poolRow[p] \in PoolRow
      /\ poolRow["local"].there /\ \A p \in Pools : poolRow[p].default => poolRow[p].there
      /\ admins \in [Admins -> AdminRow]
      /\ \A b \in Admins : admins[b].pc = "pool" => admins[b].pool \in AdminPools
      /\ NoAdmin.pc = "idle"
  BY DEF Pools, AdminShape, PoolsInv, NoAdmin, StorageAdminAssumption
<1>1. ASSUME NEW a \in Admins, NEW members \in SUBSET AdminMounts, NEW d \in BOOLEAN, SaveStoragePool(a, members, d)
      PROVE  PoolsInv'
  <2> DEFINE p == admins[a].pool
             was == admins[a].was
  <2>1. /\ p \in AdminPools /\ poolRow' = SavedPools(p, members, d, was)
        /\ outdated' = (outdated \/ poolRow[p].default # was) /\ Sets(a, NoAdmin)
    BY <1>0, <1>1 DEF SaveStoragePool
  <2>2. \A b \in Admins : admins'[b].pc = "pool" => admins'[b].pool \in AdminPools
    BY <1>0, <2>1 DEF Sets
  <2>3. ~ outdated' => ~ outdated /\ (poolRow[p].default <=> was)
    BY <2>1
  <2> HIDE DEF p, was
  <2> QED
    BY <2>1, <2>2, <2>3, Saved
<1>2. ASSUME NEW p \in AdminPools, NEW members \in SUBSET AdminMounts, NEW d \in BOOLEAN, CreateStoragePool(p, members, d)
      PROVE  PoolsInv'
  BY <1>0, <1>2, Saved DEF CreateStoragePool
<1>3. ASSUME NEW p \in Pools, SetDefaultStoragePool(p) PROVE PoolsInv'
  <2>1. ASSUME NEW q \in Pools
        PROVE  poolRow'[q].there = poolRow[q].there /\ (poolRow'[q].default <=> q = p)
    <3>1. poolRow'[q] = [poolRow[q] EXCEPT !.default = q = p]
      BY <1>3 DEF SetDefaultStoragePool
    <3> QED
      BY <1>0, <3>1 DEF PoolRow
  <2>2. poolRow[p].there /\ UNCHANGED <<admins, outdated>>
    BY <1>3 DEF SetDefaultStoragePool
  <2> QED
    BY <1>0, <2>1, <2>2, OneDefault
<1>4. ASSUME NEW p \in Pools, DeleteStoragePool(p) PROVE PoolsInv'
  <2>0. p \in AdminPools /\ p # "local" /\ UNCHANGED <<admins, outdated>>
    BY <1>0, <1>4 DEF DeleteStoragePool
  <2>1. ASSUME NEW q \in Pools
        PROVE  /\ q = p => ~ poolRow'[q].default
               /\ q # p => /\ poolRow'[q].there = poolRow[q].there
                           /\ poolRow'[q].default <=> poolRow[q].default \/ (q = "local" /\ poolRow[p].default)
    <3>1. CASE q = p
      BY <1>4, <3>1 DEF DeleteStoragePool
    <3>2. CASE q # p
      <4>1. poolRow'[q] = [poolRow[q] EXCEPT !.default = @ \/ (q = "local" /\ poolRow[p].default)]
        BY <1>4, <3>2 DEF DeleteStoragePool
      <4> QED
        BY <1>0, <3>2, <4>1 DEF PoolRow
    <3> QED
      BY <3>1, <3>2
  <2>2. poolRow'["local"].there /\ \A q \in Pools : poolRow'[q].default => poolRow'[q].there
    BY <1>0, <2>0, <2>1
  <2>3. ASSUME ~ outdated' PROVE \E r \in Pools : Defaults' = {r}
    <3>1. PICK r \in Pools : Defaults = {r}
      BY <2>0, <2>3 DEF PoolsInv
    <3>2. \A q \in Pools : poolRow[q].default <=> q = r
      BY <1>0, <3>1 DEF Defaults
    <3> DEFINE s == IF r = p THEN "local" ELSE r
    <3>3. s \in Pools /\ \A q \in Pools : poolRow'[q].default <=> q = s
      BY <1>0, <2>0, <2>1, <3>2
    <3> HIDE DEF s
    <3>4. Defaults' = {s}
      BY <2>2, <3>3 DEF Defaults
    <3> QED
      BY <3>3, <3>4
  <2> QED
    BY <1>0, <2>0, <2>2, <2>3 DEF PoolsInv
<1>5. CASE Restart
  <2>1. /\ admins' = [a \in Admins |-> NoAdmin] /\ outdated' = outdated
        /\ poolRow' = IF \E p \in Pools : poolRow[p].default THEN poolRow
                      ELSE [poolRow EXCEPT !["local"].default = TRUE]
    BY <1>5, Zenon DEF Restart
  <2>2. \A b \in Admins : admins'[b].pc # "pool"
    BY <1>0, <2>1
  <2>3. CASE \E p \in Pools : poolRow[p].default
    BY <1>0, <2>1, <2>2, <2>3, PoolsLeftAlone DEF PoolsLeft
  <2>4. CASE ~ \E p \in Pools : poolRow[p].default
    <3>1. ASSUME NEW q \in Pools
          PROVE  poolRow'[q].there = poolRow[q].there /\ (poolRow'[q].default <=> q = "local")
      <4> DEFINE l == [poolRow["local"] EXCEPT !.default = TRUE]
      <4>1. poolRow["local"] \in PoolRow
        BY <1>0
      <4>2. l.there = poolRow["local"].there /\ l.default
        BY <4>1 DEF PoolRow
      <4>3. poolRow' = [poolRow EXCEPT !["local"] = l]
        BY <2>1, <2>4
      <4> HIDE DEF l
      <4> QED
        BY <1>0, <2>4, <4>2, <4>3 DEF AdminShape
    <3> QED
      BY <1>0, <2>2, <3>1, OneDefault
  <2> QED
    BY <2>3, <2>4
<1> QED
  BY <1>1, <1>2, <1>3, <1>4, <1>5

AdminInv == AdminShape /\ ReadableInv /\ PoolsInv

LEMMA AdminStep == StorageAdminAssumption /\ AdminInv /\ [AdminNext]_adminVars => AdminInv'
<1> SUFFICES ASSUME StorageAdminAssumption, AdminShape, ReadableInv, PoolsInv, [AdminNext]_adminVars
             PROVE  AdminInv'
  BY DEF AdminInv
<1>1. ASSUME NEW a \in Admins, NEW m \in AdminMounts,
             \/ \E where \in Places : CreateStorageMount(a, m, where) \/ UpdateStorageMount(a, m, where)
             \/ UnmountStorageMount(a, m) \/ DeleteStorageMount(a, m) \/ RemountStorageMount(a, m)
             \/ ReconnectStorageMount(a, m)
      PROVE  AdminInv'
  <2>1. PoolsInv'
    BY <1>1, RequestsLeavePools
  <2>2. AdminShape' /\ ReadableInv'
    BY <1>1, CreateStorageMountStep, UpdateStorageMountStep, UnmountStorageMountStep, DeleteStorageMountStep,
       RemountStorageMountStep, ScansMove
  <2> QED
    BY <2>1, <2>2 DEF AdminInv
<1>2. ASSUME NEW a \in Admins,
             \/ CreateRegisters(a) \/ UnmountUnregisters(a) \/ RemountRecords(a)
             \/ ReconnectBegins(a) \/ LoadBatch(a) \/ ScanBegins(a) \/ ScanEnds(a) \/ SaveRefused(a)
             \/ \E p \in AdminPools : UpdateStoragePool(a, p)
      PROVE  AdminInv'
  <2>1. PoolsInv'
    BY <1>2, RequestsLeavePools
  <2>2. AdminShape' /\ ReadableInv'
    BY <1>2, CreateRegistersStep, UnmountUnregistersStep, RemountRecordsStep, ScanEndsStep, ScansMove
  <2> QED
    BY <2>1, <2>2 DEF AdminInv
<1>3. ASSUME NEW a \in Admins, NEW members \in SUBSET AdminMounts, NEW d \in BOOLEAN, SaveStoragePool(a, members, d)
      PROVE  AdminInv'
  BY <1>3, PoolSaved, PoolsChange DEF AdminInv
<1>4. ASSUME NEW f \in AdminFiles,
             \/ \E p \in Pools : UploadStoreCandidates(f, p)
             \/ \E m \in AdminMounts : PublishUploadSource(f, m)
             \/ CommitUpload(f) \/ MigrationCutover(f) \/ MigrationEnds(f)
             \/ \E p, q \in Pools, d \in AdminMounts : StartMigration(f, p, q, d)
      PROVE  AdminInv'
  <2>1. PoolsInv'
    <3>1. UNCHANGED <<poolRow, outdated, admins>>
      BY <1>4, Zenon DEF UploadStoreCandidates, PublishUploadSource, CommitUpload, MigrationCutover, MigrationEnds, StartMigration
    <3> QED
      BY <3>1, PoolsUntouched DEF PoolsInv
  <2>2. AdminShape' /\ ReadableInv'
    BY <1>4, UploadsStep, CommitUploadStep, MigrationCutoverStep, MigrationsStep
  <2> QED
    BY <2>1, <2>2 DEF AdminInv
<1>5. ASSUME NEW m \in AdminMounts, NEW failed \in BOOLEAN, CheckStorageMount(m, failed) PROVE AdminInv'
  <2>1. PoolsInv'
    <3>1. UNCHANGED <<poolRow, outdated, admins>>
      BY <1>5 DEF CheckStorageMount
    <3> QED
      BY <3>1, PoolsUntouched DEF PoolsInv
  <2> QED
    BY <1>5, <2>1, CheckStorageMountStep DEF AdminInv
<1>6. CASE \/ \E p \in AdminPools, members \in SUBSET AdminMounts, d \in BOOLEAN : CreateStoragePool(p, members, d)
           \/ \E p \in Pools : SetDefaultStoragePool(p) \/ DeleteStoragePool(p)
  BY <1>6, PoolsMove, PoolsChange DEF AdminInv
<1>7. CASE Restart
  BY <1>7, RestartStep, PoolsChange DEF AdminInv
<1>8. CASE UNCHANGED adminVars
  <2>1. UNCHANGED <<mountRow, runtimeStore, storedFile, objects, poolRow, admins, uploading, moving, torn, outdated>>
    BY <1>8 DEF adminVars
  <2>2. PoolsInv'
    BY <2>1, PoolsUntouched DEF PoolsInv
  <2>3. /\ moving' \in [AdminFiles -> MovingRow] /\ poolRow' \in [Pools -> PoolRow]
        /\ \A g \in AdminFiles : moving'[g].pc # "no" => moving'[g].to \in AdminMounts
    BY <2>1 DEF AdminShape, ReadableInv, FileOK
  <2> QED
    BY <2>1, <2>2, <2>3, OthersMove DEF AdminInv
<1> QED
  BY <1>1, <1>2, <1>3, <1>4, <1>5, <1>6, <1>7, <1>8, Zenon DEF AdminNext

LEMMA AdminAlways == AdminSpec => []AdminInv
<1>1. AdminInit => AdminInv
  BY StorageAdminAssumption, AdminInitial DEF AdminInv
<1>2. AdminInv /\ [AdminNext]_adminVars => AdminInv'
  BY StorageAdminAssumption, AdminStep
<1> QED
  BY <1>1, <1>2, PTL DEF AdminSpec

(* For any mounts, files, pools, places and administrators: a file that the *)
(* database calls available can be read from the mount its row names        *)
(* (UnmountStorageMount, RemountStorageMount, reconnectStorageMountFiles,   *)
(* publishUploadSource with CreateFile, the migration's cutover, bootstrap).*)
THEOREM AvailableFilesCanBeRead == AdminSpec => []AvailableIsReadable
<1>1. AdminInv => AvailableIsReadable
  <2> SUFFICES ASSUME AdminInv, NEW f \in AdminFiles, storedFile[f].state = "available",
                      storedFile[f].at \notin torn
               PROVE  /\ Exists(storedFile[f].at) /\ mountRow[storedFile[f].at].mounted
                      /\ runtimeStore[storedFile[f].at] \in objects[f]
    BY DEF AvailableIsReadable
  <2>1. FileOK(f) /\ storedFile[f] \in StoredRow
    BY DEF AdminInv, ReadableInv, AdminShape
  <2>2. storedFile[f].at \in AdminMounts
    BY <2>1 DEF FileOK, StoredRow
  <2> QED
    BY <2>1, <2>2 DEF AdminInv, ReadableInv, FileOK, MountOK
<1> QED
  BY <1>1, AdminAlways, PTL

(* For the same instances: there is exactly one default pool, as long as no *)
(* edit was saved over a row that had changed (saveStoragePool,             *)
(* SetDefaultStoragePool, DeleteStoragePool, ensureDefaultStoragePool).     *)
THEOREM OneDefaultPoolAlways == AdminSpec => []OneDefaultPool
<1>1. AdminInv => OneDefaultPool
  BY FS_Singleton DEF AdminInv, PoolsInv, OneDefaultPool, Defaults
<1> QED
  BY <1>1, AdminAlways, PTL
=============================================================================
