---------------------------- MODULE FolderShares ----------------------------
(***************************************************************************)
(* Shared folders and the uploads of their guests: one share of an owner's *)
(* folder, the guests who unlock it, and the upload sessions they create   *)
(* on the tus endpoint under the limits of the share.  A request resolves  *)
(* the share first and works with the row it read; the owner may change,   *)
(* revoke, move and delete meanwhile.  How the tus library and the import  *)
(* task treat the bytes of a session is the subject of Uploads: here a     *)
(* session is complete or not, and an import makes its link or fails.      *)
(***************************************************************************)
EXTENDS Naturals, FiniteSets, FiniteSetsExt, Totals

CONSTANTS Guests, GuestSessions, GuestGroups,
          ShareVideoSize,   \* MaxVideoSize of the share, and the largest video tried
          ShareLocks,       \* whether the owner sets a password or a captcha
          FolderSizes,      \* values of MaxFolderSize the owner chooses from
          MaxShareActs      \* changes of the owner, expiries and failed imports

ASSUME SharesAssumption ==
    /\ GuestSessions \subseteq Nat /\ IsFiniteSet(GuestSessions) /\ IsFiniteSet(GuestGroups)
    /\ GuestGroups \cap {"owner", "none"} = {}
    /\ ShareLocks \subseteq BOOLEAN /\ FolderSizes \subseteq Nat \ {0}
    /\ ShareVideoSize \in Nat \ {0} /\ MaxShareActs \in Nat

VARIABLES
    share,     \* the folder_shares row
    shared,    \* the folders: which are live, and whether sub is below root
    pass,      \* the share version a guest's cookie was made for, 0 if none
    request,   \* the share as the request of a guest read it, or NoShare
    gsession,  \* the upload_sessions rows of guests
    gjob,      \* the media.ingest job of a group, and the session it imports
    glinks,    \* the links in the folders; lapsed is a history field
    ownerGrew, \* history: the owner added to the folder or lowered its limit
    shareActs

shareVars == <<share, shared, pass, request, gsession, gjob, glinks, ownerGrew, shareActs>>

NoShare == [st |-> "none", ver |-> 0, read |-> FALSE, upload |-> FALSE, lock |-> FALSE,
            limit |-> 0, past |-> FALSE]
NoSession == [st |-> "none", kind |-> "single", group |-> "none", folder |-> "root", size |-> 0,
              expected |-> 0, ver |-> 0, late |-> FALSE, gone |-> FALSE]
PendingStatuses == {"created", "uploaded", "importing", "failed"}

SharesInit ==
    /\ share = NoShare
    /\ shared = [live |-> {"root", "sub"}, below |-> TRUE]
    /\ pass = [u \in Guests |-> 0]
    /\ request = [u \in Guests |-> NoShare]
    /\ gsession = [s \in GuestSessions |-> NoSession]
    /\ gjob = [g \in GuestGroups |-> [st |-> "none", s |-> 0]]
    /\ glinks = {} /\ ownerGrew = FALSE
    /\ shareActs = 0

ShareAct == shareActs < MaxShareActs /\ shareActs' = shareActs + 1

\* ContainsFolder and the subtree of UploadCapacity follow the current ancestry.
Subtree == shared.live \cap (IF shared.below THEN {"root", "sub"} ELSE {"root"})
ContainsFolder(f) == "root" \in shared.live /\ f \in Subtree

-----------------------------------------------------------------------------
\* The capacity of the shared folder.
Open(s) == gsession[s].st \in PendingStatuses /\ ~ gsession[s].gone
Linked(g) == \E l \in glinks : l.group = g
QuotaOf(s) == IF gsession[s].kind = "final" THEN 0 ELSE gsession[s].size
ExpectedOf(s) == gsession[s].expected

\* Mutant: a failed import gives its room back although it can be retried.
PendingUnlessFailed(g) ==
    {s \in GuestSessions : /\ Open(s) /\ gsession[s].group = g /\ ~ gsession[s].late
                           /\ gsession[s].folder \in Subtree /\ ~ Linked(g)
                           /\ gsession[s].st # "failed"}

Pending(g) ==
    {s \in GuestSessions : /\ Open(s) /\ gsession[s].group = g /\ ~ gsession[s].late
                           /\ gsession[s].folder \in Subtree /\ ~ Linked(g)}

ReservedBy(g) ==
    LET expected == Max({ExpectedOf(s) : s \in Pending(g)} \cup {0})
        quota == Total([s \in Pending(g) |-> QuotaOf(s)])
    IN IF expected > quota THEN expected ELSE quota

Used == Total([l \in {k \in glinks : k.folder \in Subtree} |-> l.size])
UploadCapacity(besides) == Used + Total([g \in GuestGroups \ {besides} |-> ReservedBy(g)])

ValidateSharedCapacity(sh, size, g) ==
    /\ size <= ShareVideoSize
    /\ UploadCapacity(g) + size <= sh.limit

-----------------------------------------------------------------------------
\* The owner.
CreateFolderShare(read, upload, lock, limit) ==
    /\ share.st = "none" /\ "root" \in shared.live
    /\ read \/ upload
    /\ share' = [st |-> "live", ver |-> 1, read |-> read, upload |-> upload, lock |-> lock,
                 limit |-> limit, past |-> FALSE]
    /\ UNCHANGED <<shared, pass, request, gsession, gjob, glinks, ownerGrew, shareActs>>

\* Every update makes a new access version; a revoked share is not recreated.
UpdateFolderShare(read, upload, lock, limit) ==
    /\ share.st = "live" /\ "root" \in shared.live
    /\ read \/ upload
    /\ ShareAct
    /\ share' = [share EXCEPT !.ver = share.ver + 1, !.read = read, !.upload = upload,
                              !.lock = lock,
                              !.limit = limit, !.past = FALSE]
    /\ ownerGrew' = (ownerGrew \/ limit < share.limit)
    /\ UNCHANGED <<shared, pass, request, gsession, gjob, glinks>>

DeleteFolderShare ==
    /\ share.st = "live" /\ ShareAct
    /\ share' = [share EXCEPT !.st = "deleted"]
    /\ UNCHANGED <<shared, pass, request, gsession, gjob, glinks, ownerGrew>>

ShareExpires ==
    /\ share.st = "live" /\ ~ share.past /\ ShareAct
    /\ share' = [share EXCEPT !.past = TRUE]
    /\ UNCHANGED <<shared, pass, request, gsession, gjob, glinks, ownerGrew>>

\* The owner's own uploads do not ask for the limit of a share.
OwnerUploads(f, size) ==
    /\ f \in shared.live /\ ShareAct
    /\ glinks' = glinks \cup {[group |-> "owner", folder |-> f, size |-> size, lapsed |-> FALSE,
                               id |-> shareActs']}
    /\ ownerGrew' = (ownerGrew \/ f \in Subtree)
    /\ UNCHANGED <<share, shared, pass, request, gsession, gjob>>

MoveSubfolder ==
    /\ "sub" \in shared.live /\ ShareAct
    /\ shared' = [shared EXCEPT !.below = ~ shared.below]
    /\ ownerGrew' = (ownerGrew \/ ~ shared.below)
    /\ UNCHANGED <<share, pass, request, gsession, gjob, glinks>>

DeleteLink(l) ==
    /\ l \in glinks /\ ShareAct
    /\ glinks' = glinks \ {l}
    /\ UNCHANGED <<share, shared, pass, request, gsession, gjob, ownerGrew>>

DeleteSharedFolder(f) ==
    LET tree == IF f = "root" THEN Subtree ELSE {f}
    IN /\ f \in shared.live /\ ShareAct
       /\ shared' = [shared EXCEPT !.live = @ \ tree]
       /\ glinks' = {l \in glinks : l.folder \notin tree}
       /\ UNCHANGED <<share, pass, request, gsession, gjob, ownerGrew>>

-----------------------------------------------------------------------------
\* Guests.  Resolve looks at the live row, its expiry and its folder.
Resolvable == share.st = "live" /\ ~ share.past /\ "root" \in shared.live

UnlockFolderShare(u) ==
    /\ Resolvable /\ share.lock /\ pass[u] # share.ver
    /\ pass' = [pass EXCEPT ![u] = share.ver]
    /\ UNCHANGED <<share, shared, request, gsession, gjob, glinks, ownerGrew, shareActs>>

VerifyFolderShareToken(u, sh) == pass[u] = sh.ver

SharedUploadContext(u) ==
    /\ request[u] = NoShare
    /\ Resolvable /\ share.upload
    /\ share.lock => VerifyFolderShareToken(u, share)
    /\ request' = [request EXCEPT ![u] = share]
    /\ UNCHANGED <<share, shared, pass, gsession, gjob, glinks, ownerGrew, shareActs>>

Answered(u) == request' = [request EXCEPT ![u] = NoShare]

ValidateSharedDestination(sh, f) == (sh.read \/ f = "root") /\ ContainsFolder(f)

\* All rows of the group, deleted ones too.
ValidateUploadGroup(sh, g, f) ==
    \A s \in GuestSessions : gsession[s].group = g =>
        gsession[s].ver = sh.ver /\ gsession[s].folder = f /\ gsession[s].st # "done"

ValidateSharedCreate(sh, g, kind, size, expected) ==
    LET group == {s \in GuestSessions : Open(s) /\ gsession[s].group = g}
        partial == {s \in group : gsession[s].kind = "partial"}
        bytes == Total([s \in partial |-> QuotaOf(s)])
    IN /\ size <= expected /\ (kind # "partial" => size = expected)
       /\ kind = "single" => group = {}
       /\ kind = "partial" => group = partial /\ bytes + size <= expected
       /\ kind = "final" => bytes = expected
       /\ \A s \in group : gsession[s].expected = expected
       /\ ValidateSharedCapacity(sh, expected, g)

\* preUploadCreate under createMu, with the share of the request; concatenated
\* uploads need complete parts and are complete at once.
CreateGuestSession(u, s, g, kind, f, size, expected) ==
    LET sh == request[u]
    IN /\ sh # NoShare /\ gsession[s].st = "none"
       /\ f \in shared.live /\ ValidateSharedDestination(sh, f)
       /\ ValidateUploadGroup(sh, g, f)
       /\ kind = "final" => \A p \in GuestSessions :
             gsession[p].group = g /\ Open(p) /\ gsession[p].kind = "partial" =>
                 gsession[p].st = "uploaded"
       /\ ValidateSharedCreate(sh, g, kind, size, expected)
       /\ gsession' = [gsession EXCEPT ![s] = [NoSession EXCEPT
             !.st = IF kind = "final" THEN "uploaded" ELSE "created", !.kind = kind, !.group = g,
             !.folder = f, !.size = size, !.expected = expected, !.ver = sh.ver]]
       /\ Answered(u)
       /\ UNCHANGED <<share, shared, pass, gjob, glinks, ownerGrew, shareActs>>

AuthorizeSharedSession(sh, s) ==
    gsession[s].ver = sh.ver /\ ValidateSharedDestination(sh, gsession[s].folder)

UploadGuestBytes(u, s) ==
    /\ request[u] # NoShare /\ AuthorizeSharedSession(request[u], s)
    /\ gsession[s].st = "created" /\ ~ gsession[s].gone /\ ~ gsession[s].late
    /\ gsession' = [gsession EXCEPT ![s].st = "uploaded"]
    /\ Answered(u)
    /\ UNCHANGED <<share, shared, pass, gjob, glinks, ownerGrew, shareActs>>

\* A request is refused, or its client goes away.
RequestEnds(u) ==
    /\ request[u] # NoShare /\ Answered(u)
    /\ UNCHANGED <<share, shared, pass, gsession, gjob, glinks, ownerGrew, shareActs>>

\* EnqueueFinalize: the job of the group is found again by its idempotency key.
Finalizable(s) == /\ gsession[s].kind # "partial" /\ ~ gsession[s].late
                  /\ gsession[s].st \in {"uploaded", "failed", "importing", "done"}
Enqueued(s) ==
    LET g == gsession[s].group
    IN gjob' = IF gjob[g].st # "none" THEN gjob
               ELSE [gjob EXCEPT ![g] = [st |-> "queued", s |-> s]]

EnqueueSharedFinalize(u, s) ==
    LET g == gsession[s].group
    IN /\ request[u] # NoShare /\ Finalizable(s) /\ AuthorizeSharedSession(request[u], s)
       /\ gjob[g].st = "none" => ValidateSharedCapacity(request[u], gsession[s].size, g)
       /\ Enqueued(s) /\ Answered(u)
       /\ UNCHANGED <<share, shared, pass, gsession, glinks, ownerGrew, shareActs>>

\* The owner may finalize the session of a guest: "Account owners may manage
\* their own guest upload sessions".
OwnerFinalizes(s) ==
    /\ Finalizable(s) /\ gjob[gsession[s].group].st = "none" /\ ShareAct
    /\ Enqueued(s)
    /\ UNCHANGED <<share, shared, pass, request, gsession, glinks, ownerGrew>>

-----------------------------------------------------------------------------
\* Expiry and import.
GuestRetentionEnds(s) ==
    /\ Open(s) /\ ~ gsession[s].late /\ ShareAct
    /\ gsession' = [gsession EXCEPT ![s].late = TRUE]
    /\ UNCHANGED <<share, shared, pass, request, gjob, glinks, ownerGrew>>

ExpireGuestSession(s) ==
    /\ Open(s) /\ gsession[s].late
    /\ gsession' = [gsession EXCEPT ![s].st = "expired", ![s].gone = TRUE]
    /\ UNCHANGED <<share, shared, pass, request, gjob, glinks, ownerGrew, shareActs>>

GuestImportStarts(g) ==
    LET s == gjob[g].s
    IN /\ gjob[g].st = "queued"
       /\ IF Open(s) /\ ~ gsession[s].late
          THEN /\ gsession' = [gsession EXCEPT ![s].st = "importing"]
               /\ gjob' = [gjob EXCEPT ![g].st = "running"]
          ELSE /\ gjob' = [gjob EXCEPT ![g].st = "failed"] /\ UNCHANGED gsession
       /\ UNCHANGED <<share, shared, pass, request, glinks, ownerGrew, shareActs>>

\* CreateFileContext validates the folder again and makes the link, once.
GuestImportRecords(g) ==
    LET s == gjob[g].s
    IN /\ gjob[g].st = "running" /\ ~ Linked(g) /\ gsession[s].folder \in shared.live
       /\ glinks' = glinks \cup {[group |-> g, folder |-> gsession[s].folder,
                                  size |-> gsession[s].size, id |-> 0,
                                  lapsed |-> gsession[s].late \/ ~ Open(s)]}
       /\ gjob' = [gjob EXCEPT ![g].st = "recorded"]
       /\ UNCHANGED <<share, shared, pass, request, gsession, ownerGrew, shareActs>>

GuestImportCompletes(g) ==
    /\ gjob[g].st = "recorded" \/ (gjob[g].st = "running" /\ Linked(g))
    /\ gsession' = [s \in GuestSessions |->
          IF gsession[s].group = g THEN [gsession[s] EXCEPT !.st = "done", !.gone = TRUE]
          ELSE gsession[s]]
    /\ gjob' = [gjob EXCEPT ![g].st = "succeeded"]
    /\ UNCHANGED <<share, shared, pass, request, glinks, ownerGrew, shareActs>>

GuestImportFails(g) ==
    LET s == gjob[g].s
    IN /\ gjob[g].st \in {"running", "recorded"}
       /\ \/ ShareAct
          \/ gsession[s].folder \notin shared.live /\ UNCHANGED shareActs
       /\ gsession' = IF Open(s) THEN [gsession EXCEPT ![s].st = "failed"] ELSE gsession
       /\ gjob' = [gjob EXCEPT ![g].st = "failed"]
       /\ UNCHANGED <<share, shared, pass, request, glinks, ownerGrew>>

GuestImportRetried(g) ==
    /\ gjob[g].st = "failed"
    /\ gjob' = [gjob EXCEPT ![g].st = "queued"]
    /\ UNCHANGED <<share, shared, pass, request, gsession, glinks, ownerGrew, shareActs>>

-----------------------------------------------------------------------------
OwnerStep ==
    \/ \E read, upload \in BOOLEAN, lock \in ShareLocks, limit \in FolderSizes :
          \/ CreateFolderShare(read, upload, lock, limit)
          \/ UpdateFolderShare(read, upload, lock, limit)
    \/ DeleteFolderShare \/ ShareExpires \/ MoveSubfolder
    \/ \E f \in {"root", "sub"} : DeleteSharedFolder(f)
    \/ \E f \in {"root", "sub"}, size \in 1..ShareVideoSize : OwnerUploads(f, size)
    \/ \E l \in glinks : DeleteLink(l)
    \/ \E s \in GuestSessions : OwnerFinalizes(s)

\* Rows get their numbers in the order they are created.
NextSession == {s \in GuestSessions : /\ gsession[s].st = "none"
                                      /\ \A t \in GuestSessions : t < s => gsession[t].st # "none"}
GuestStep(u) ==
    \/ UnlockFolderShare(u) \/ SharedUploadContext(u) \/ RequestEnds(u)
    \/ \E s \in NextSession, g \in GuestGroups, kind \in {"single", "partial", "final"},
          f \in {"root", "sub"}, size, expected \in 1..ShareVideoSize :
             CreateGuestSession(u, s, g, kind, f, size, expected)
    \/ \E s \in GuestSessions : UploadGuestBytes(u, s) \/ EnqueueSharedFinalize(u, s)

SharesNext ==
    \/ OwnerStep
    \/ \E u \in Guests : GuestStep(u)
    \/ \E s \in GuestSessions : GuestRetentionEnds(s) \/ ExpireGuestSession(s)
    \/ \E g \in GuestGroups : \/ GuestImportStarts(g) \/ GuestImportRecords(g)
                              \/ GuestImportCompletes(g) \/ GuestImportFails(g)
                              \/ GuestImportRetried(g)

SharesSpec == SharesInit /\ [][SharesNext]_shareVars

-----------------------------------------------------------------------------
\* Guests never bring a shared folder over its limit, however the parts of
\* their uploads, failed and retried imports, deletions and requests that read
\* an older share interleave: only the owner can, by own uploads, by moving a
\* folder in or by lowering the limit.  Videos whose session ran out of time
\* while they were imported are the exception, as they reserve nothing then.
FolderLimitKept ==
    ~ ownerGrew =>
        Total([l \in {k \in glinks : k.folder \in Subtree /\ ~ k.lapsed} |-> l.size])
          <= share.limit
=============================================================================
