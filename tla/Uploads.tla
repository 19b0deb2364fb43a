------------------------------- MODULE Uploads -------------------------------
(***************************************************************************)
(* Uploads of one user: the upload sessions of services/tusupload and of   *)
(* the simple upload route, the events the tus library reports through     *)
(* channels with a consumer each, the expiry of abandoned sessions,   *)
(* and the import of a complete upload into a video, by the media.import   *)
(* task of a background job or directly by the legacy finalize request.    *)
(*                                                                         *)
(* The bytes of a session are "part" (incomplete) or "upload" at the path  *)
(* the client fills, "import" at the path finalization moves them to, or   *)
(* "named" where CreateFileContext gives a simple upload its extension.    *)
(* Uploads of the same size have the same contents.                        *)
(***************************************************************************)
EXTENDS Naturals, FiniteSets, Totals

CONSTANTS UploadSessions, UploadGroups,
          UserStorage,      \* the user's quota
          MaxUploadSize,    \* MaxUploadFilesize, and the largest upload tried
          MaxActiveGroups,  \* MaxUploadSessions
          MaxImportTries,   \* runs of one import task, user retries included
          MaxUploadFaults   \* restarts, failed attempts, expiries, terminations and
                            \* direct finalize requests together

ASSUME UploadsAssumption ==
    /\ IsFiniteSet(UploadSessions) /\ IsFiniteSet(UploadGroups)
    /\ {UserStorage, MaxUploadSize, MaxActiveGroups, MaxImportTries} \subseteq Nat \ {0}
    /\ MaxUploadFaults \in Nat

VARIABLES
    usession,  \* the upload_sessions rows; dropped is a history field: the
               \* client terminated the upload
    udata,     \* where the bytes of a session are
    uevents,   \* events the tus library has to hand over
    usweep,    \* the path an expiry sweep read for a session it still expires
    ujob,      \* the media.ingest job of a group
    import,    \* how far an import of a session is
    usource,   \* sessions whose source object is in the video store
    ufiles,    \* files rows, named by the session they were imported from
    ulinks,    \* links rows; group and lapsed are history fields
    ufaults

uploadVars == <<usession, udata, uevents, usweep, ujob, import, usource,
                ufiles, ulinks, ufaults>>

ActiveStatuses == {"created", "uploading", "uploaded", "importing", "failed"}
UploadStatuses == ActiveStatuses \cup {"none", "staging", "done", "canceled", "expired"}
UploadPaths == {"", "upload", "import", "named"}
EventChannels == {"progress", "complete", "terminated"}
Attempts == UploadSessions \X {"task", "direct"}

NoUpload == [status |-> "none", gone |-> FALSE, late |-> FALSE, group |-> "none",
             kind |-> "single", protocol |-> "tus", size |-> 0,
             path |-> "", link |-> FALSE, dropped |-> FALSE]
NoImport == [pc |-> "idle", from |-> "upload", clone |-> "none"]
NoUploadJob == [st |-> "none", s |-> "none", tries |-> 0]

UploadsInit ==
    /\ usession = [s \in UploadSessions |-> NoUpload]
    /\ udata = [s \in UploadSessions |-> "none"]
    /\ uevents = {}
    /\ usweep = [s \in UploadSessions |-> "idle"]
    /\ ujob = [g \in UploadGroups |-> NoUploadJob]
    /\ import = [a \in Attempts |-> NoImport]
    /\ usource = {} /\ ufiles = {} /\ ulinks = {}
    /\ ufaults = 0

Row(s) == usession[s]
Live(s) == Row(s).status \notin {"none", "staging"} /\ ~ Row(s).gone
Active(s) == Live(s) /\ Row(s).status \in ActiveStatuses
Group(g) == {s \in UploadSessions : Row(s).group = g}
UploadFault == ufaults < MaxUploadFaults /\ ufaults' = ufaults + 1

SizeOf(s) == Row(s).size
QuotaBytes(s) == IF Row(s).kind = "final" THEN 0 ELSE SizeOf(s)
LinkSize(l) == SizeOf(l.file)

\* The sums of CheckStorageQuota: the files of all links, and the sessions
\* under way but for the group the check is made for.
UsedStorage == Total([l \in ulinks |-> LinkSize(l)])
PendingStorage(besides) ==
    Total([s \in {t \in UploadSessions : Active(t)} \ besides |-> QuotaBytes(s)])

\* Mutant: uploads under way are not counted.
CheckStorageQuotaOfLinks(size, besides) == UsedStorage + size <= UserStorage

CheckStorageQuota(size, besides) ==
    UsedStorage + PendingStorage(besides) + size <= UserStorage

ActiveGroupsBut(g) == {Row(s).group : s \in {x \in UploadSessions : Active(x)}} \ {g}
EnforceActiveSessionLimit(g) == Cardinality(ActiveGroupsBut(g)) < MaxActiveGroups

EnforceMaxUploadFileSize(g, kind, size) ==
    \/ kind # "partial"
    \/ Total([s \in {t \in Group(g) : Active(t) /\ Row(t).kind = "partial"} |-> SizeOf(s)])
         + size <= MaxUploadSize

-----------------------------------------------------------------------------
\* Requests of the client on the tus endpoint.

\* The created hook stores the row under createMu, the library creates the
\* file and hands its created event over before it answers; concatenated
\* uploads are complete at once.
PreUploadCreate(s, g, kind, size) ==
    /\ Row(s).status = "none"
    /\ EnforceMaxUploadFileSize(g, kind, size)
    /\ kind = "final" \/ CheckStorageQuota(size, {})
    /\ EnforceActiveSessionLimit(g)
    /\ kind = "final" =>
          \E p \in Group(g) : /\ Live(p) /\ Row(p).kind = "partial" /\ udata[p] = "upload"
                              /\ SizeOf(p) = size
    /\ usession' = [usession EXCEPT ![s] = [NoUpload EXCEPT
          !.status = "created", !.group = g, !.kind = kind, !.size = size,
          !.path = "upload"]]
    /\ udata' = [udata EXCEPT ![s] = IF kind = "final" THEN "upload" ELSE "part"]
    /\ uevents' = IF kind = "final" THEN uevents \cup {<<"complete", s>>} ELSE uevents
    /\ UNCHANGED <<usweep, ujob, import, usource, ufiles, ulinks, ufaults>>

IsExpired(s) == Row(s).late /\ Row(s).status \notin {"done", "canceled", "expired"}

\* expireSession with the path of the row it was given; the update and the
\* soft delete touch no row that is already deleted.
At(s, path) == \/ path = "upload" /\ udata[s] \in {"part", "upload"}
               \/ path \in {"import", "named"} /\ udata[s] = path
ExpireSession(s, path) ==
    /\ udata' = [udata EXCEPT ![s] = IF At(s, path) THEN "none" ELSE @]
    /\ usession' = IF Row(s).gone THEN usession
                   ELSE [usession EXCEPT ![s].status = "expired", ![s].gone = TRUE]

AuthorizeUploadResource(s) == Live(s) /\ Row(s).protocol = "tus"

TouchExpired(s) ==
    /\ AuthorizeUploadResource(s) /\ IsExpired(s)
    /\ ExpireSession(s, Row(s).path)
    /\ UNCHANGED <<uevents, usweep, ujob, import, usource, ufiles, ulinks, ufaults>>

\* A PATCH: some bytes, or the rest of them.  The progress of the request is
\* reported from a goroutine of its own.
Patch(s, last) ==
    /\ AuthorizeUploadResource(s) /\ ~ IsExpired(s)
    /\ udata[s] = "part"
    /\ udata' = [udata EXCEPT ![s] = IF last THEN "upload" ELSE "part"]
    /\ uevents' = uevents \cup {<<"progress", s>>}
                    \cup (IF last THEN {<<"complete", s>>} ELSE {})
    /\ UNCHANGED <<usession, usweep, ujob, import, usource, ufiles, ulinks, ufaults>>

\* A DELETE removes the files of the upload before it is reported.
Terminate(s) ==
    /\ AuthorizeUploadResource(s) /\ ~ IsExpired(s) /\ UploadFault
    /\ udata[s] \in {"part", "upload"}
    /\ udata' = [udata EXCEPT ![s] = "none"]
    /\ usession' = [usession EXCEPT ![s].dropped = TRUE]
    /\ uevents' = uevents \cup {<<"terminated", s>>}
    /\ UNCHANGED <<usweep, ujob, import, usource, ufiles, ulinks>>

-----------------------------------------------------------------------------
\* The event consumers.  A row that is deleted is not found.
UpdateSessionFromEvent(s) == [Row(s) EXCEPT !.path = "upload", !.status = "uploading"]
CompleteSessionFromEvent(s) == [Row(s) EXCEPT !.path = "upload", !.status = "uploaded"]
TerminateSession(s) == [Row(s) EXCEPT !.status = "canceled", !.gone = TRUE]

Consumed(ch, s) == CASE ch = "progress" -> UpdateSessionFromEvent(s)
                     [] ch = "complete" -> CompleteSessionFromEvent(s)
                     [] ch = "terminated" -> TerminateSession(s)

ConsumeEvent(ch, s) ==
    /\ <<ch, s>> \in uevents
    /\ uevents' = uevents \ {<<ch, s>>}
    /\ usession' = IF Live(s) THEN [usession EXCEPT ![s] = Consumed(ch, s)] ELSE usession
    /\ UNCHANGED <<udata, usweep, ujob, import, usource, ufiles, ulinks, ufaults>>

-----------------------------------------------------------------------------
\* Expiry.
RetentionEnds(s) ==
    /\ Active(s) /\ Row(s).protocol = "tus" /\ ~ Row(s).late /\ UploadFault
    /\ usession' = [usession EXCEPT ![s].late = TRUE]
    /\ UNCHANGED <<udata, uevents, usweep, ujob, import, usource, ufiles, ulinks>>

CleanupExpired ==
    /\ \A s \in UploadSessions : usweep[s] = "idle"
    /\ \E s \in UploadSessions : Active(s) /\ Row(s).late
    /\ usweep' = [s \in UploadSessions |->
                      IF Active(s) /\ Row(s).late THEN Row(s).path ELSE "idle"]
    /\ UNCHANGED <<usession, udata, uevents, ujob, import, usource, ufiles, ulinks, ufaults>>

CleanupSession(s) ==
    /\ usweep[s] # "idle"
    /\ ExpireSession(s, usweep[s])
    /\ usweep' = [usweep EXCEPT ![s] = "idle"]
    /\ UNCHANGED <<uevents, ujob, import, usource, ufiles, ulinks, ufaults>>

-----------------------------------------------------------------------------
\* The simple upload route: the quota is checked, the body is written to a
\* temporary file, then the session is stored.  The request gate admits one
\* request of the user at a time.
StageSimpleUpload(s, g, size) ==
    /\ Row(s).status = "none" /\ Group(g) = {}
    /\ \A t \in UploadSessions : Row(t).status # "staging"
    /\ CheckStorageQuota(size, {})
    /\ EnforceActiveSessionLimit("none")
    /\ usession' = [usession EXCEPT ![s] = [NoUpload EXCEPT
          !.status = "staging", !.group = g, !.protocol = "simple", !.size = size]]
    /\ UNCHANGED <<udata, uevents, usweep, ujob, import, usource, ufiles, ulinks, ufaults>>

StoreSimpleUpload(s, whole) ==
    /\ Row(s).status = "staging"
    /\ IF whole
       THEN /\ usession' = [usession EXCEPT ![s].status = "uploaded", ![s].path = "upload"]
            /\ udata' = [udata EXCEPT ![s] = "upload"]
       ELSE usession' = [usession EXCEPT ![s] = NoUpload] /\ UNCHANGED udata
    /\ UNCHANGED <<uevents, usweep, ujob, import, usource, ufiles, ulinks, ufaults>>

\* A second finalize of a group finds its job by the idempotency key.
EnqueueImport(s) ==
    LET g == Row(s).group
    IN ujob' = IF ujob[g].st # "none" THEN ujob
               ELSE [ujob EXCEPT ![g] = [st |-> "queued", s |-> s, tries |-> 0]]

EnqueueFinalize(s) ==
    /\ Row(s).protocol = "tus" /\ Row(s).kind # "partial" /\ ~ IsExpired(s)
    /\ Row(s).status \in {"uploaded", "failed", "importing", "done"}
    /\ EnqueueImport(s)
    /\ UNCHANGED <<usession, udata, uevents, usweep, import, usource, ufiles, ulinks, ufaults>>

EnqueueSimpleUpload(s) ==
    /\ Row(s).protocol = "simple" /\ Live(s)
    /\ EnqueueImport(s)
    /\ UNCHANGED <<usession, udata, uevents, usweep, import, usource, ufiles, ulinks, ufaults>>

RetryImport(g) ==
    /\ ujob[g].st = "failed" /\ ujob[g].tries < MaxImportTries
    /\ ujob' = [ujob EXCEPT ![g].st = "queued"]
    /\ UNCHANGED <<usession, udata, uevents, usweep, import, usource, ufiles, ulinks, ufaults>>

-----------------------------------------------------------------------------
\* Import.  How an attempt ends: a task reports success, a permanent failure,
\* or one the runtime retries while attempts are left.
JobAfter(a, how) ==
    LET g == Row(a[1]).group
    IN IF a[2] = "direct" THEN ujob
       ELSE [ujob EXCEPT ![g].st =
                IF how = "transient" /\ ujob[g].tries < MaxImportTries THEN "queued"
                ELSE IF how = "ok" THEN "succeeded" ELSE "failed"]
Ends(a, how) == /\ import' = [import EXCEPT ![a] = NoImport]
                /\ ujob' = JobAfter(a, how)
Goes(a, pc) == /\ import' = [import EXCEPT ![a].pc = pc]
               /\ UNCHANGED ujob

\* failFinalize: a deleted row keeps its status.
FailFinalize(s) == IF Live(s) THEN [usession EXCEPT ![s].status = "failed"] ELSE usession

\* Mutant: a key of its own for every attempt.
CreationKeyOfAttempt(g) == Cardinality(ulinks)

CreationKey(g) == g
LinkOf(g) == {l \in ulinks : l.key = CreationKey(g)}

Admitted(a) ==
    /\ import[a].pc = "idle" /\ Row(a[1]).status \notin {"none", "staging"}
    /\ \/ a[2] = "direct" /\ UploadFault
       \/ /\ a[2] = "task" /\ UNCHANGED ufaults
          /\ ujob[Row(a[1]).group].st = "queued" /\ ujob[Row(a[1]).group].s = a[1]
Claims(a, as) == IF a[2] = "direct" THEN ujob
                 ELSE [ujob EXCEPT ![Row(a[1]).group].st = as, ![Row(a[1]).group].tries = @ + 1]

\* findFinalizedUpload: the file of the session, by its deterministic id.
FindFinalizedUpload(s) == s \in ufiles /\ \E l \in ulinks : l.file = s

\* Mutant: only the path the row names is looked at.
StagedAtRowPath(s) ==
    IF \/ Row(s).path = "upload" /\ udata[s] \in {"part", "upload"}
       \/ Row(s).path = "import" /\ udata[s] = "import"
    THEN udata[s] ELSE "missing"

Staged(s) == IF udata[s] = "import" THEN "import"
             ELSE IF Row(s).path = "import" THEN "missing"
             ELSE IF udata[s] \in {"part", "upload"} THEN udata[s] ELSE "missing"

\* The first part of finalizeContext, up to the claim of the session.
ImportLoad(a) ==
    LET s == a[1]
        Starts(pc, from) ==
            import' = [import EXCEPT ![a] = [NoImport EXCEPT !.pc = pc, !.from = from]]
    IN /\ Admitted(a) /\ Row(s).kind # "partial" /\ Row(s).protocol = "tus"
       /\ \/ /\ Row(s).link
             /\ ujob' = Claims(a, "succeeded")
             /\ UNCHANGED <<import, usession, udata>>
          \/ /\ ~ Row(s).link /\ FindFinalizedUpload(s)
             /\ Starts("complete", "import") /\ ujob' = Claims(a, "running")
             /\ UNCHANGED <<usession, udata>>
          \/ /\ ~ Row(s).link /\ ~ FindFinalizedUpload(s) /\ IsExpired(s)
             /\ ExpireSession(s, Row(s).path)
             /\ ujob' = Claims(a, "failed") /\ UNCHANGED import
          \/ /\ ~ Row(s).link /\ ~ FindFinalizedUpload(s) /\ ~ IsExpired(s)
             /\ Staged(s) \in {"missing", "part"}
             /\ usession' = FailFinalize(s)
             /\ ujob' = Claims(a, "failed") /\ UNCHANGED <<import, udata>>
          \/ /\ ~ Row(s).link /\ ~ FindFinalizedUpload(s) /\ ~ IsExpired(s)
             /\ Staged(s) \in {"upload", "import"}
             /\ \/ /\ Row(s).status = "importing" /\ a[2] = "task"
                   /\ Starts("move", Staged(s)) /\ ujob' = Claims(a, "running")
                   /\ UNCHANGED usession
                \/ /\ Row(s).status # "importing"
                   /\ Starts("claim", Staged(s)) /\ ujob' = Claims(a, "running")
                   /\ usession' = IF Live(s) /\ Row(s).status # "failed"
                                  THEN [usession EXCEPT ![s].status = "uploaded"]
                                  ELSE usession
             /\ UNCHANGED udata
       /\ UNCHANGED <<uevents, usweep, usource, ufiles, ulinks>>

\* finalizeSimpleSession up to the claim.
ImportLoadSimple(a) ==
    LET s == a[1]
        Starts(pc) == /\ import' = [import EXCEPT ![a] = [NoImport EXCEPT !.pc = pc]]
                      /\ ujob' = Claims(a, "running")
    IN /\ Admitted(a) /\ a[2] = "task" /\ Row(s).protocol = "simple"
       /\ \/ Row(s).link /\ ujob' = Claims(a, "succeeded") /\ UNCHANGED import
          \/ ~ Row(s).link /\ Row(s).status = "importing" /\ Starts("create")
          \/ ~ Row(s).link /\ Row(s).status \in {"uploaded", "failed"} /\ Starts("claim")
          \/ /\ ~ Row(s).link /\ Row(s).status \notin {"importing", "uploaded", "failed"}
             /\ ujob' = Claims(a, "failed") /\ UNCHANGED import
       /\ UNCHANGED <<usession, udata, uevents, usweep, usource, ufiles, ulinks>>

TransitionToImporting(a) ==
    LET s == a[1]
    IN /\ import[a].pc = "claim"
       /\ IF Live(s) /\ Row(s).status \in {"uploaded", "failed"}
          THEN /\ usession' = [usession EXCEPT ![s].status = "importing"]
               /\ Goes(a, IF Row(s).protocol = "tus" THEN "move" ELSE "create")
          ELSE /\ Ends(a, IF Row(s).protocol = "tus" THEN "permanent" ELSE "transient")
               /\ UNCHANGED usession
       /\ UNCHANGED <<udata, uevents, usweep, usource, ufiles, ulinks, ufaults>>

\* The staged file moves to its deterministic path; the row follows.
ImportMove(a) ==
    LET s == a[1]
    IN /\ import[a].pc = "move"
       /\ IF import[a].from = "import" \/ udata[s] = "upload"
          THEN /\ udata' = [udata EXCEPT ![s] = IF @ = "upload" THEN "import" ELSE @]
               /\ usession' = [usession EXCEPT ![s].path = "import"]
               /\ Goes(a, "create")
          ELSE /\ usession' = FailFinalize(s) /\ UNCHANGED udata
               /\ Ends(a, "transient")
       /\ UNCHANGED <<uevents, usweep, usource, ufiles, ulinks, ufaults>>

\* CreateFileContext up to its transaction: the link of an earlier attempt, a
\* stored file with the same hash, or a new source object.
Readable(s) == IF Row(s).protocol = "tus" THEN udata[s] = "import"
               ELSE udata[s] # "none" /\ udata[s] = Row(s).path
Own(s) == Group(Row(s).group)
SameHash(s) == {f \in ufiles : SizeOf(f) = SizeOf(s)}

CreateFromKey(a) ==
    LET s == a[1]
    IN /\ import[a].pc = "create" /\ LinkOf(Row(s).group) # {}
       /\ udata' = [udata EXCEPT ![s] = IF @ = "import" \/ Readable(s) THEN "none" ELSE @]
       /\ Goes(a, "complete")
       /\ UNCHANGED <<usession, uevents, usweep, usource, ufiles, ulinks, ufaults>>

CloneFileByHash(a, f) ==
    LET s == a[1]
    IN /\ import[a].pc = "create" /\ LinkOf(Row(s).group) = {}
       /\ Readable(s) /\ f \in SameHash(s)
       /\ CheckStorageQuota(SizeOf(f), Own(s))
       /\ import' = [import EXCEPT ![a].pc = "record", ![a].clone = f]
       /\ UNCHANGED <<usession, udata, uevents, usweep, ujob, usource, ufiles, ulinks, ufaults>>

PublishSource(a) ==
    LET s == a[1]
    IN /\ import[a].pc = "create" /\ LinkOf(Row(s).group) = {}
       /\ Readable(s) /\ SameHash(s) = {}
       /\ CheckStorageQuota(SizeOf(s), Own(s))
       /\ udata' = [udata EXCEPT ![s] = IF Row(s).protocol = "simple" THEN "named" ELSE @]
       /\ usource' = usource \cup {s}
       /\ Goes(a, "record")
       /\ UNCHANGED <<usession, uevents, usweep, ufiles, ulinks, ufaults>>

\* The hash, the quota or the probe refuses the upload.
CreateRefused(a) ==
    LET s == a[1]
        permanent == Readable(s)
    IN /\ import[a].pc = "create" /\ LinkOf(Row(s).group) = {}
       /\ permanent => SameHash(s) = {} \/ ~ CheckStorageQuota(SizeOf(s), Own(s))
       /\ usession' = FailFinalize(s)
       /\ Ends(a, IF permanent THEN "permanent" ELSE "transient")
       /\ UNCHANGED <<udata, uevents, usweep, usource, ufiles, ulinks, ufaults>>

\* The sessions that hold the room of an upload: its parts, or itself.
HeldBy(s) == {t \in UploadSessions :
                 Active(t) /\ IF Row(s).kind = "final" THEN t \in Own(s) /\ Row(t).kind = "partial"
                              ELSE t = s}
HeldStorage(s) == Total([t \in HeldBy(s) |-> QuotaBytes(t)])

\* The transaction that makes the link, and the file of a new source, under
\* the unique creation key; the loser of a race deletes the source object.
RecordFile(a) ==
    LET s == a[1]
        g == Row(s).group
        fresh == import[a].clone = "none"
        f == IF fresh THEN s ELSE import[a].clone
    IN /\ import[a].pc = "record"
       /\ IF LinkOf(g) = {}
          THEN /\ ulinks' = ulinks \cup {[key |-> CreationKey(g), file |-> f, group |-> g,
                                          id |-> Cardinality(ulinks),
                                          lapsed |-> HeldStorage(s) < SizeOf(s)]}
               /\ ufiles' = ufiles \cup {f}
               /\ udata' = [udata EXCEPT ![s] = "none"]
               /\ Goes(a, "complete")
               /\ UNCHANGED <<usession, usource>>
          ELSE /\ usource' = IF fresh THEN usource \ {s} ELSE usource
               /\ usession' = FailFinalize(s)
               /\ Ends(a, "transient")
               /\ UNCHANGED <<udata, ufiles, ulinks>>
       /\ UNCHANGED <<uevents, usweep, ufaults>>

\* completeFinalize: the whole group of a tus upload is done and deleted, its
\* files go; the row of a simple upload stays.
CompleteFinalize(a) ==
    LET s == a[1]
        tus == Row(s).protocol = "tus"
        group == IF tus THEN {t \in Own(s) : Row(t).status \notin {"none", "staging"}} ELSE {s}
    IN /\ import[a].pc = "complete"
       /\ usession' = [t \in UploadSessions |->
              IF t \in group THEN [Row(t) EXCEPT !.status = "done", !.link = TRUE, !.gone = @ \/ tus]
              ELSE Row(t)]
       /\ udata' = [t \in UploadSessions |->
              IF tus /\ t \in group /\ At(t, Row(t).path) THEN "none" ELSE udata[t]]
       /\ Ends(a, "ok")
       /\ UNCHANGED <<uevents, usweep, usource, ufiles, ulinks, ufaults>>

\* A step of the attempt fails: storage, database or cancellation.  Rows are
\* created after the link, so the attempt may fail with the link in place.
\* The session keeps its status when the commit is refused, when
\* completeFinalize fails and when the write of failFinalize does.
ImportFails(a) ==
    /\ import[a].pc \in {"create", "record", "complete"} /\ UploadFault
    /\ usession' = FailFinalize(a[1]) \/ UNCHANGED usession
    /\ usource' = IF import[a].pc = "record" /\ import[a].clone = "none"
                  THEN usource \ {a[1]} ELSE usource
    /\ \E how \in {"transient", "permanent"} : Ends(a, how)
    /\ UNCHANGED <<udata, uevents, usweep, ufiles, ulinks>>

\* The process ends: events, sweeps and attempts are lost, the runtime
\* queues the running tasks again.
UploadsRestart ==
    /\ UploadFault
    /\ uevents' = {}
    /\ usweep' = [s \in UploadSessions |-> "idle"]
    /\ import' = [a \in Attempts |-> NoImport]
    /\ ujob' = [g \in UploadGroups |->
           IF ujob[g].st # "running" THEN ujob[g]
           ELSE [ujob[g] EXCEPT !.st = IF ujob[g].tries < MaxImportTries
                                       THEN "queued" ELSE "failed"]]
    /\ usession' = [s \in UploadSessions |->
           IF Row(s).status = "staging" THEN NoUpload ELSE Row(s)]
    /\ UNCHANGED <<udata, usource, ufiles, ulinks>>

-----------------------------------------------------------------------------
ClientStep(s) ==
    \/ \E g \in UploadGroups, kind \in {"single", "partial", "final"},
          size \in 1..MaxUploadSize : PreUploadCreate(s, g, kind, size)
    \/ \E g \in UploadGroups, size \in 1..MaxUploadSize : StageSimpleUpload(s, g, size)
    \/ \E last \in BOOLEAN : Patch(s, last) \/ StoreSimpleUpload(s, last)
    \/ TouchExpired(s) \/ Terminate(s) \/ EnqueueFinalize(s) \/ EnqueueSimpleUpload(s)

ServerStep(s) ==
    \/ \E ch \in EventChannels : ConsumeEvent(ch, s)
    \/ RetentionEnds(s) \/ CleanupSession(s)

ImportStep(a) ==
    \/ ImportLoad(a) \/ ImportLoadSimple(a) \/ TransitionToImporting(a) \/ ImportMove(a)
    \/ CreateFromKey(a) \/ PublishSource(a) \/ CreateRefused(a) \/ RecordFile(a)
    \/ CompleteFinalize(a) \/ ImportFails(a)
    \/ \E f \in UploadSessions : CloneFileByHash(a, f)

UploadsNext ==
    \/ \E s \in UploadSessions : ClientStep(s) \/ ServerStep(s)
    \/ \E a \in Attempts : ImportStep(a)
    \/ \E g \in UploadGroups : RetryImport(g)
    \/ CleanupExpired
    \/ UploadsRestart

UploadsSpec == UploadsInit /\ [][UploadsNext]_uploadVars

-----------------------------------------------------------------------------
\* Every piece of state has its type.
UploadsTypeOK ==
    /\ \A s \in UploadSessions : /\ Row(s).status \in UploadStatuses
                                 /\ Row(s).path \in UploadPaths
                                 /\ {Row(s).gone, Row(s).late, Row(s).link} \subseteq BOOLEAN
    /\ udata \in [UploadSessions -> {"none", "part"} \cup (UploadPaths \ {""})]
    /\ uevents \subseteq EventChannels \X UploadSessions
    /\ \A g \in UploadGroups : ujob[g].st \in {"none", "queued", "running", "succeeded", "failed"}
    /\ \A a \in Attempts : import[a].pc \in {"idle", "claim", "move", "create", "record", "complete"}
    /\ usource \subseteq UploadSessions /\ ufiles \subseteq UploadSessions

\* The videos of the user stay within the quota, however uploads of several
\* groups are checked, recorded, retried and expired in between.  The only
\* exception are videos whose session, or the parts it was put together from,
\* had been expired or canceled by the time they were recorded: those are not
\* counted as pending, and the quota is not checked again.
QuotaKept == Total([l \in {m \in ulinks : ~ m.lapsed} |-> LinkSize(l)]) <= UserStorage

\* The bytes of an upload the client has not terminated and whose time is not
\* over are where finalization looks for them until the video exists, whatever
\* late events, failed attempts, sweeps and restarts do to its row.
UploadDataKept ==
    \A s \in UploadSessions :
        Active(s) /\ Row(s).protocol = "tus" /\ ~ Row(s).late /\ ~ Row(s).dropped
          /\ ~ (\E l \in ulinks : l.group = Row(s).group)
        => Staged(s) # "missing"

\* An upload becomes one video: attempts that fail or stop after the link was
\* made, repeated finalize requests and concurrent imports make no second one.
OneLinkPerUpload ==
    \A g \in UploadGroups : Cardinality({l \in ulinks : l.group = g}) <= 1

\* The source of every recorded video is in the store (finalizeContext: "The
\* durable task owns retries, so continuing here is safe").
RecordedSourceKept == ufiles \subseteq usource
=============================================================================
