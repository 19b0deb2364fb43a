------------------------------- MODULE Library -------------------------------
(***************************************************************************)
(* Folders, links and the files behind them: creating, moving and deleting *)
(* folders and links, renaming them, uploads and clones that add a link,   *)
(* the content.delete handler with the request gate it passes, and the     *)
(* deleter that removes files no link refers to.  The database has one     *)
(* connection, so a transaction is one step; what a request does in        *)
(* several statements outside a transaction is several steps.              *)
(*                                                                         *)
(* A rename loads a row and saves all of it later: what became of the row  *)
(* in between, a move or a deletion, is undone.  restored keeps the rows   *)
(* this happened to; names themselves are not modelled.                    *)
(*                                                                         *)
(* A folder or link is a number; 0 is the root folder.  acting is the user *)
(* of a request; Admin may act on what belongs to others.                  *)
(***************************************************************************)
EXTENDS DurableTask

CONSTANTS Folders, Links, Users, Admin, LibraryFiles,
          MaxLibraryOps     \* requests, failures and crashes

ASSUME LibraryAssumption == /\ Admin \in Users /\ 0 \notin Folders /\ MaxLibraryOps \in Nat
                            /\ Folders \subseteq Nat /\ Links \subseteq Nat

VARIABLES
    folderOf,      \* folders: state, parent and owner
    linkOf,        \* links: state, folder, owner and file
    media,         \* files: row and stored data
    gate,          \* the users RequestGate has admitted
    clone,         \* a CloneFileByHash between its check and its insert
    deleter,       \* runDeleter
    deletion,      \* a content.delete job: selection, task and handler
    renaming,      \* an UpdateFolder or UpdateFile between its load and its save
    restored,      \* history: rows a rename put back where they had been
    libraryOps

renameVars == <<renaming, restored>>
libraryVars == <<folderOf, linkOf, media, gate, clone, deleter, deletion, renameVars, libraryOps>>

NoItem == [st |-> "none", parent |-> 0, owner |-> Admin]
NoLink == [st |-> "none", parent |-> 0, owner |-> Admin, file |-> 0, late |-> FALSE]
NoClone == [pc |-> "idle", user |-> Admin, parent |-> 0, file |-> 0]
NoDeleter == [pc |-> "idle", left |-> {}, file |-> 0]
NoDeletion == [pc |-> "none", user |-> Admin, links |-> {}, folders |-> {},
               leftLinks |-> {}, leftFolders |-> {}, task |-> NoTaskRow]
NoRename == [kind |-> "none", item |-> 0, parent |-> 0]

LibraryInit ==
    /\ folderOf = [d \in Folders |-> NoItem] /\ linkOf = [l \in Links |-> NoLink]
    /\ media = [f \in LibraryFiles |-> [st |-> "none", data |-> FALSE]]
    /\ gate = {} /\ clone = NoClone /\ deleter = NoDeleter /\ deletion = NoDeletion
    /\ renaming = NoRename /\ restored = [folders |-> {}, links |-> {}] /\ libraryOps = 0

LibraryOp == libraryOps < MaxLibraryOps /\ libraryOps' = libraryOps + 1
LiveFolders == {d \in Folders : folderOf[d].st = "live"}
LiveLinks == {l \in Links : linkOf[l].st = "live"}
May(user, owner) == user = Admin \/ owner = user
Next1(rows, S) == {i \in S : rows[i].st = "none" /\ \A j \in S : j < i => rows[j].st # "none"}

\* ValidateFolderDestination: new items go to the root or a folder of one's own.
ValidateFolderDestination(parent, user) ==
    parent = 0 \/ (parent \in LiveFolders /\ folderOf[parent].owner = user)

-----------------------------------------------------------------------------
CreateFolder(user, parent) ==
    /\ ValidateFolderDestination(parent, user) /\ LibraryOp
    /\ \E d \in Next1(folderOf, Folders) :
         folderOf' = [folderOf EXCEPT ![d] = [st |-> "live", parent |-> parent, owner |-> user]]
    /\ UNCHANGED <<linkOf, media, gate, clone, deleter, deletion, renameVars>>

\* CreateFile: the file and its link in one transaction.
CreateFile(user, parent, f) ==
    /\ media[f].st = "none" /\ ValidateFolderDestination(parent, user) /\ LibraryOp
    /\ \E l \in Next1(linkOf, Links) :
         linkOf' = [linkOf EXCEPT ![l] = [st |-> "live", parent |-> parent, owner |-> user,
                                          file |-> f, late |-> FALSE]]
    /\ media' = [media EXCEPT ![f] = [st |-> "live", data |-> TRUE]]
    /\ UNCHANGED <<folderOf, gate, clone, deleter, deletion, renameVars>>

\* CloneFileByHash: a file found by its hash, then a link to it.
CloneFileByHash(user, parent, f) ==
    /\ clone.pc = "idle" /\ ValidateFolderDestination(parent, user) /\ media[f].st = "live" /\ LibraryOp
    /\ clone' = [pc |-> "checked", user |-> user, parent |-> parent, file |-> f]
    /\ UNCHANGED <<folderOf, linkOf, media, gate, deleter, deletion, renameVars>>

\* late: the deleter has counted the file's links or marked it by then.
Late(f) == media[f].st # "live" \/ (deleter.pc = "counted" /\ deleter.file = f)
CloneLinks ==
    /\ clone.pc = "checked"
    /\ IF ValidateFolderDestination(clone.parent, clone.user)
       THEN \E l \in Next1(linkOf, Links) :
              linkOf' = [linkOf EXCEPT ![l] = [st |-> "live", parent |-> clone.parent,
                                               owner |-> clone.user,
                                               file |-> clone.file, late |-> Late(clone.file)]]
       ELSE UNCHANGED linkOf
    /\ clone' = NoClone
    /\ UNCHANGED <<folderOf, media, gate, deleter, deletion, renameVars, libraryOps>>

\* What a walk up from the target meets: it is in every set that has the
\* target's parent and the parents of its members.
ClosedUpwards(S) == \A d \in S : folderOf[d].parent \in S \cup {0}
Above(target) ==
    {d \in Folders : \A S \in SUBSET Folders :
        (folderOf[target].parent \in S \cup {0} /\ ClosedUpwards(S)) => d \in S}

\* Mutant: only the folder right above the target is compared.
FolderContainsDirectly(d, target) == target # 0 /\ folderOf[target].parent = d

FolderContainsFolder(d, target) == d \in Above(target)

\* folderContainsFolder fails where a folder is missing or met twice.
WalkEnds(target) == /\ Above(target) \subseteq LiveFolders
                    /\ \A d \in {target} \cup Above(target) : d \notin Above(d)

\* MoveItems: every item is checked before the first is moved, in one
\* transaction.
MoveItems(user, target, ds, ls) ==
    LET owner == folderOf[target].owner
    IN /\ ds \cup ls # {} /\ LibraryOp
       /\ target # 0 => target \in LiveFolders /\ May(user, owner) /\ (ds # {} => WalkEnds(target))
       /\ \A d \in ds : /\ d \in LiveFolders /\ d # target /\ May(user, folderOf[d].owner)
                        /\ target # 0 => (folderOf[d].owner = owner /\ ~ FolderContainsFolder(d, target))
       /\ \A l \in ls : /\ l \in LiveLinks /\ May(user, linkOf[l].owner)
                        /\ target # 0 => linkOf[l].owner = owner
       /\ folderOf' = [d \in Folders |-> IF d \in ds THEN [folderOf[d] EXCEPT !.parent = target]
                                         ELSE folderOf[d]]
       /\ linkOf' = [l \in Links |-> IF l \in ls THEN [linkOf[l] EXCEPT !.parent = target]
                                     ELSE linkOf[l]]
       /\ UNCHANGED <<media, gate, clone, deleter, deletion, renameVars>>

\* UpdateFolder and UpdateFile: the row as its owner or an administrator
\* finds it, and later the save of all its columns, which inserts the row
\* again when it has been deleted.
LoadFolder(d) ==
    /\ renaming = NoRename /\ d \in LiveFolders /\ LibraryOp
    /\ renaming' = [kind |-> "folder", item |-> d, parent |-> folderOf[d].parent]
    /\ UNCHANGED <<folderOf, linkOf, media, gate, clone, deleter, deletion, restored>>
LoadLink(l) ==
    /\ renaming = NoRename /\ l \in LiveLinks /\ LibraryOp
    /\ renaming' = [kind |-> "link", item |-> l, parent |-> linkOf[l].parent]
    /\ UNCHANGED <<folderOf, linkOf, media, gate, clone, deleter, deletion, restored>>

SaveFolder ==
    /\ renaming.kind = "folder" /\ renaming' = NoRename
    /\ folderOf' = [folderOf EXCEPT ![renaming.item].st = "live",
                                    ![renaming.item].parent = renaming.parent]
    /\ restored' = IF folderOf' = folderOf THEN restored
                   ELSE [restored EXCEPT !.folders = @ \cup {renaming.item}]
    /\ UNCHANGED <<linkOf, media, gate, clone, deleter, deletion, libraryOps>>
SaveLink ==
    LET row == linkOf[renaming.item]
    IN /\ renaming.kind = "link" /\ renaming' = NoRename
       /\ linkOf' = [linkOf EXCEPT ![renaming.item] =
                       [row EXCEPT !.st = "live", !.parent = renaming.parent,
                                   !.late = IF row.st = "live" THEN @ ELSE Late(row.file)]]
       /\ restored' = IF linkOf' = linkOf THEN restored
                      ELSE [restored EXCEPT !.links = @ \cup {renaming.item}]
       /\ UNCHANGED <<folderOf, media, gate, clone, deleter, deletion, libraryOps>>

-----------------------------------------------------------------------------
\* The rows that a deletion takes: links alone, or folders of one parent with
\* every live folder and link below them.
Gone(rows, S, T) == [i \in S |-> IF i \in T THEN [rows[i] EXCEPT !.st = "gone"] ELSE rows[i]]

DeletableLinks(user, ls) == ls \subseteq LiveLinks /\ \A l \in ls : May(user, linkOf[l].owner)

\* collectFolderDeletion goes down from the roots, one level after another.
ClosedDownwards(S) == \A d \in LiveFolders : folderOf[d].parent \in S => d \in S
CollectFolderDeletion(roots) ==
    {d \in Folders : \A S \in SUBSET Folders : (roots \subseteq S /\ ClosedDownwards(S)) => d \in S}
LinksIn(ds) == {l \in LiveLinks : linkOf[l].parent \in ds}

DeletableFolders(user, roots) ==
    LET ds == CollectFolderDeletion(roots)
    IN /\ roots \subseteq LiveFolders /\ \A d, e \in roots : folderOf[d].parent = folderOf[e].parent
       /\ \A d \in ds : May(user, folderOf[d].owner)
       /\ \A l \in LinksIn(ds) : May(user, linkOf[l].owner)

\* RequestGate: one request of a user at a time, among those that ask.
TryStart(user) == user \notin gate
StageBegins(user) ==
    /\ TryStart(user) /\ LibraryOp
    /\ gate' = gate \cup {user}
    /\ UNCHANGED <<folderOf, linkOf, media, clone, deleter, deletion, renameVars>>
StageEnds(user) ==
    /\ user \in gate
    /\ gate' = gate \ {user}
    /\ UNCHANGED <<folderOf, linkOf, media, clone, deleter, deletion, renameVars, libraryOps>>

\* enqueueDeletion: the selection exists and is the user's.
EnqueueDeletion(user, ls, ds) ==
    /\ deletion.pc = "none" /\ ls \cup ds # {} /\ LibraryOp
    /\ DeletableLinks(user, ls)
    /\ ds \subseteq LiveFolders /\ \A d \in ds : May(user, folderOf[d].owner)
    /\ deletion' = [NoDeletion EXCEPT !.pc = "idle", !.user = user, !.links = ls, !.folders = ds,
                                      !.task = NewTaskRow]
    /\ UNCHANGED <<folderOf, linkOf, media, gate, clone, deleter, renameVars>>

\* contentDeleteHandler.  A retry takes what is left of the selection.
DeletionClaimed ==
    /\ deletion.pc = "idle" /\ Claimable(deletion.task)
    /\ deletion' = [deletion EXCEPT !.pc = "validate", !.task = Claimed(@)]
    /\ UNCHANGED <<folderOf, linkOf, media, gate, clone, deleter, renameVars, libraryOps>>

\* Mutant: items of other owners are passed over, also for an administrator.
RemainingOwnIDs(rows, ids) == {i \in ids : rows[i].st = "live" /\ rows[i].owner = deletion.user}

RemainingDeletionIDs(rows, ids) == {i \in ids : rows[i].st = "live" /\ May(deletion.user, rows[i].owner)}
DeletionValidates ==
    /\ deletion.pc = "validate"
    /\ deletion' = [deletion EXCEPT !.pc = "commit",
                                    !.leftLinks = RemainingDeletionIDs(linkOf, deletion.links),
                                    !.leftFolders = RemainingDeletionIDs(folderOf, deletion.folders)]
    /\ UNCHANGED <<folderOf, linkOf, media, gate, clone, deleter, renameVars, libraryOps>>

DeletionReturns(d, how) == [d EXCEPT !.pc = "idle", !.leftLinks = {}, !.leftFolders = {},
                                     !.task = FinishedRow(@, how)]

DeletionCommits ==
    /\ deletion.pc = "commit"
    /\ deletion' = IF CommitAllowed(deletion.task) THEN [deletion EXCEPT !.pc = "links",
                                                                         !.task.commit = TRUE]
                   ELSE DeletionReturns(deletion, "canceled")
    /\ UNCHANGED <<folderOf, linkOf, media, gate, clone, deleter, renameVars, libraryOps>>

\* DeleteFiles and DeleteFolders: refused for good when the selection has
\* changed or the gate is closed; the database may fail too.
DeleteFiles ==
    /\ deletion.pc = "links"
    /\ \/ /\ DeletableLinks(deletion.user, deletion.leftLinks)
          /\ linkOf' = Gone(linkOf, Links, deletion.leftLinks)
          /\ deletion' = [deletion EXCEPT !.pc = "folders"] /\ UNCHANGED libraryOps
       \/ /\ ~ DeletableLinks(deletion.user, deletion.leftLinks)
          /\ deletion' = DeletionReturns(deletion, "permanent") /\ UNCHANGED <<linkOf, libraryOps>>
       \/ LibraryOp /\ deletion' = DeletionReturns(deletion, "transient") /\ UNCHANGED linkOf
    /\ UNCHANGED <<folderOf, media, gate, clone, deleter, renameVars>>

FoldersMayGo ==
    deletion.leftFolders # {} =>
        TryStart(deletion.user) /\ DeletableFolders(deletion.user, deletion.leftFolders)

DeleteFolders ==
    /\ deletion.pc = "folders"
    /\ \/ /\ FoldersMayGo
          /\ LET ds == CollectFolderDeletion(deletion.leftFolders)
             IN folderOf' = Gone(folderOf, Folders, ds) /\ linkOf' = Gone(linkOf, Links, LinksIn(ds))
          /\ deletion' = DeletionReturns(deletion, "ok") /\ UNCHANGED libraryOps
       \/ /\ ~ FoldersMayGo
          /\ deletion' = DeletionReturns(deletion, "permanent")
          /\ UNCHANGED <<folderOf, linkOf, libraryOps>>
       \/ /\ LibraryOp
          /\ deletion' = DeletionReturns(deletion, "transient") /\ UNCHANGED <<folderOf, linkOf>>
    /\ UNCHANGED <<media, gate, clone, deleter, renameVars>>

CancelDeletion ==
    /\ deletion.task.st \in TaskOpen /\ ~ Committing(deletion.task) /\ LibraryOp
    /\ deletion' = [deletion EXCEPT !.task = CanceledRow(@)]
    /\ UNCHANGED <<folderOf, linkOf, media, gate, clone, deleter, renameVars>>
RetryDeletion ==
    /\ deletion.pc = "idle" /\ deletion.task.st \in {"failed", "canceled"} /\ LibraryOp
    /\ deletion' = [deletion EXCEPT !.task = RetriedRow(@)]
    /\ UNCHANGED <<folderOf, linkOf, media, gate, clone, deleter, renameVars>>

-----------------------------------------------------------------------------
\* runDeleter: the candidates, then for each of them under its lock the count
\* of its links, the mark, the data and the rows.
Referenced(f) == \E l \in LiveLinks : linkOf[l].file = f
DeleterLists ==
    /\ deleter.pc = "idle"
    /\ deleter' = [NoDeleter EXCEPT !.pc = "next", !.left =
                     {f \in LibraryFiles : media[f].st = "marked" \/ (media[f].st = "live" /\ ~ Referenced(f))}]
    /\ deleter'.left # {}
    /\ UNCHANGED <<folderOf, linkOf, media, gate, clone, deletion, renameVars, libraryOps>>

NextFile(pc) == IF pc = "next" /\ deleter.left = {deleter.file} THEN NoDeleter
                ELSE [pc |-> pc, left |-> deleter.left \ {deleter.file}, file |-> 0]
DeleterCounts(f) ==
    /\ deleter.pc = "next" /\ f \in deleter.left
    /\ deleter' = IF media[f].st = "marked" THEN [deleter EXCEPT !.pc = "marked", !.file = f]
                  ELSE IF media[f].st = "live" /\ ~ Referenced(f)
                       THEN [deleter EXCEPT !.pc = "counted", !.file = f]
                       ELSE IF deleter.left = {f} THEN NoDeleter
                            ELSE [deleter EXCEPT !.left = @ \ {f}]
    /\ UNCHANGED <<folderOf, linkOf, media, gate, clone, deletion, renameVars, libraryOps>>

DeleterMarks ==
    /\ deleter.pc = "counted"
    /\ media' = [media EXCEPT ![deleter.file].st = "marked"]
    /\ deleter' = [deleter EXCEPT !.pc = "marked"]
    /\ UNCHANGED <<folderOf, linkOf, gate, clone, deletion, renameVars, libraryOps>>

\* The data, unless the file is still being encoded or prepared, or the
\* storage fails; then the file waits for the next pass.
DeleteStoredFile ==
    /\ deleter.pc = "marked"
    /\ \/ /\ media' = [media EXCEPT ![deleter.file].data = FALSE]
          /\ deleter' = [deleter EXCEPT !.pc = "erased"] /\ UNCHANGED libraryOps
       \/ LibraryOp /\ deleter' = NextFile("next") /\ UNCHANGED media
    /\ UNCHANGED <<folderOf, linkOf, gate, clone, deletion, renameVars>>
DeleterForgets ==
    /\ deleter.pc = "erased"
    /\ media' = [media EXCEPT ![deleter.file].st = "gone"]
    /\ deleter' = NextFile("next")
    /\ UNCHANGED <<folderOf, linkOf, gate, clone, deletion, renameVars, libraryOps>>

\* The process ends and starts again.
LibraryCrash ==
    /\ LibraryOp
    /\ gate' = {} /\ clone' = NoClone /\ deleter' = NoDeleter /\ renaming' = NoRename
    /\ deletion' = IF deletion.pc = "none" THEN deletion
                   ELSE [deletion EXCEPT !.pc = "idle", !.leftLinks = {}, !.leftFolders = {},
                                         !.task = RecoveredRow(@)]
    /\ UNCHANGED <<folderOf, linkOf, media, restored>>

LibraryNext ==
    \/ \E user \in Users :
         \/ \E parent \in Folders \cup {0} :
              \/ CreateFolder(user, parent)
              \/ \E f \in LibraryFiles : CreateFile(user, parent, f) \/ CloneFileByHash(user, parent, f)
              \/ \E ds \in SUBSET Folders, ls \in SUBSET Links : MoveItems(user, parent, ds, ls)
         \/ \E ls \in SUBSET Links, ds \in SUBSET Folders : EnqueueDeletion(user, ls, ds)
         \/ StageBegins(user) \/ StageEnds(user)
    \/ CloneLinks
    \/ (\E d \in Folders : LoadFolder(d)) \/ (\E l \in Links : LoadLink(l))
    \/ SaveFolder \/ SaveLink
    \/ DeletionClaimed \/ DeletionValidates \/ DeletionCommits \/ DeleteFiles \/ DeleteFolders
    \/ CancelDeletion \/ RetryDeletion
    \/ DeleterLists \/ (\E f \in LibraryFiles : DeleterCounts(f))
    \/ DeleterMarks \/ DeleteStoredFile \/ DeleterForgets
    \/ LibraryCrash

LibrarySpec == LibraryInit /\ [][LibraryNext]_libraryVars

-----------------------------------------------------------------------------
(* The types of the variables. *)
LibraryTypeOK ==
    /\ folderOf \in [Folders -> [st : {"none", "live", "gone"}, parent : Folders \cup {0},
                                 owner : Users]]
    /\ linkOf \in [Links -> [st : {"none", "live", "gone"}, parent : Folders \cup {0},
                             owner : Users,
                             file : LibraryFiles \cup {0}, late : BOOLEAN]]
    /\ media \in [LibraryFiles -> [st : {"none", "live", "marked", "gone"}, data : BOOLEAN]]
    /\ gate \subseteq Users /\ deletion.task \in TaskRows
    /\ deleter.left \subseteq LibraryFiles /\ clone.pc \in {"idle", "checked"}
    /\ renaming.kind \in {"none", "folder", "link"}
    /\ restored.folders \subseteq Folders /\ restored.links \subseteq Links

(* Every folder and link a user has can be reached from the root: it lies   *)
(* in a folder that exists and has the same owner, and no chain of parents  *)
(* is a circle.  Moves, deletions of whole trees, renames and items made in *)
(* a folder that is being moved or deleted keep it so for every item no     *)
(* rename has put back: such an item may lie in a folder that is gone, and  *)
(* every circle goes through such a folder.                                 *)
TreeSound ==
    /\ \A d \in LiveFolders \ restored.folders :
         folderOf[d].parent # 0 => /\ folderOf[d].parent \in LiveFolders
                                   /\ folderOf[folderOf[d].parent].owner = folderOf[d].owner
    /\ \A d \in LiveFolders : d \in Above(d) => Above(d) \cap restored.folders # {}
    /\ \A l \in LiveLinks \ restored.links :
         linkOf[l].parent # 0 => /\ linkOf[l].parent \in LiveFolders
                                 /\ folderOf[linkOf[l].parent].owner = linkOf[l].owner

(* A deletion job that reports success has deleted everything the user      *)
(* selected, however often it was interrupted, canceled and retried and     *)
(* whatever was moved meanwhile.  What is still there was put back by a     *)
(* rename that had loaded the row before.                                   *)
DeletionComplete ==
    deletion.task.st = "succeeded" =>
        /\ deletion.links \cap LiveLinks \subseteq restored.links
        /\ deletion.folders \cap LiveFolders \subseteq restored.folders

(* A link that exists has its file, with its data: the deleter never takes  *)
(* a file from a link that was there when it counted, nor from one that a   *)
(* rename put back before that.                                             *)
LinksKeepFiles ==
    \A l \in LiveLinks : ~ linkOf[l].late =>
        (media[linkOf[l].file].st = "live" /\ media[linkOf[l].file].data)

(* Both together: what users see of their library hangs together however    *)
(* moves, deletions, renames, clones and the deleter interleave.            *)
LibrarySound == TreeSound /\ LinksKeepFiles

(* A new link to a file that was found by its hash is usable, as            *)
(* CloneFileByHash says of the files it reuses.                             *)
ClonedLinkUsable == \A l \in LiveLinks : media[linkOf[l].file].st = "live" /\ media[linkOf[l].file].data

=============================================================================
