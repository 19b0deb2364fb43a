------------------------------ MODULE Encoding ------------------------------
(***************************************************************************)
(* The encodings of one file: its artifacts (qualities, audio and subtitle *)
(* tracks), the media.encode tasks of the jobs made for them, the handler  *)
(* that runs ffmpeg and publishes, the reconciliation that queues what was *)
(* interrupted or canceled, the administrator's switch, the clean-up of    *)
(* the source and the deletion of the file.                                *)
(*                                                                         *)
(* A task is named by its job and its artifact.  Job 1 is the one of the   *)
(* import.  A handler works on the row of the artifact it loaded and saves *)
(* all of it.  So does the listener of the progress socket, on the same    *)
(* row in memory: nobody waits for it, and it may save once more after the *)
(* handler returned.                                                       *)
(***************************************************************************)
EXTENDS DurableTask, Sequences

CONSTANTS Artifacts,
          MaxEncodeJobs,     \* jobs made for the file
          MaxEncodeFaults    \* failures, crashes, cancellations and the like together

ASSUME EncodingAssumption ==
    /\ MaxEncodeJobs \in Nat \ {0} /\ MaxEncodeFaults \in Nat

VARIABLES
    artifact,   \* the rows of qualities, audios and subtitles
    encodeJobs, \* jobs: their idempotency key and task rows
    encodes,    \* handlers under way: encodes[j][a]
    reconcile,  \* the source-cleanup task
    source,     \* the file still has its source object
    fileRow,    \* the file row is not deleted
    enabled,    \* EncodingEnabled
    encodeFaults,
    retried,    \* artifacts whose job was retried by hand (history)
    doubled     \* artifacts that two wrote at once: two open tasks, or the listener
                \* of a handler that had returned (history)

encodingVars == <<artifact, encodeJobs, encodes, reconcile, source, fileRow, enabled,
                  encodeFaults, retried, doubled>>

JobNumbers == 1 .. MaxEncodeJobs
NewArtifact == [encoding |-> FALSE, ready |-> FALSE, failed |-> FALSE, ref |-> 0]
NoEncode == [pc |-> "idle", row |-> NewArtifact, ctx |-> "live", err |-> "ok"]
IdleReconcile == [pc |-> "idle", pending |-> {}, key |-> <<>>, job |-> 0]

\* mediaProcessingTasks: the tasks an import or a download leaves behind,
\* none while encoding is disabled.
MediaProcessingTasks == IF enabled THEN Artifacts ELSE {}
JobFor(S, key) == [key |-> key, tasks |-> [a \in Artifacts |-> IF a \in S THEN NewTaskRow
                                                               ELSE NoTaskRow]]

EncodingInit ==
    /\ artifact = [a \in Artifacts |-> NewArtifact]
    /\ enabled \in BOOLEAN
    /\ encodeJobs = IF enabled THEN <<JobFor(MediaProcessingTasks, <<>>)>> ELSE <<>>
    /\ encodes = [j \in JobNumbers |-> [a \in Artifacts |-> NoEncode]]
    /\ reconcile = IdleReconcile
    /\ source = TRUE /\ fileRow = TRUE
    /\ encodeFaults = 0 /\ retried = {} /\ doubled = {}

EncodeTask(j, a) == encodeJobs[j].tasks[a]
JobExists(j) == j \in 1 .. Len(encodeJobs)
LiveTask(j, a) == JobExists(j) /\ EncodeTask(j, a).st \in TaskOpen
JobOver(j) == \A a \in Artifacts : EncodeTask(j, a).st \in TaskOver \cup {"none"}
EncodeFault == encodeFaults < MaxEncodeFaults /\ encodeFaults' = encodeFaults + 1
At(j, a, pc) == JobExists(j) /\ encodes[j][a].pc = pc
Moves(j, a, pc) == encodes' = [encodes EXCEPT ![j][a].pc = pc]

\* The handler returns and the runtime records the class of its result; the
\* row stays with the listener.  NewArtifact: there is no listener.
Finish(j, a, how) ==
    /\ encodeJobs' = [encodeJobs EXCEPT ![j].tasks[a] = FinishedRow(@, how)]
    /\ encodes' = [encodes EXCEPT ![j][a] = [NoEncode EXCEPT !.row = encodes[j][a].row]]

-----------------------------------------------------------------------------
\* encodingHandler up to runEncode.  The cache may fail to be invalidated.
EncodingHandler(j, a) ==
    /\ JobExists(j) /\ encodes[j][a].pc = "idle" /\ Claimable(EncodeTask(j, a))
    /\ encodeJobs' = [encodeJobs EXCEPT ![j].tasks[a] = Claimed(@)]
    /\ Moves(j, a, "claimed")
    /\ UNCHANGED <<artifact, reconcile, source, fileRow, enabled, encodeFaults, retried, doubled>>

EncodingRefused(j, a) ==
    /\ At(j, a, "claimed")
    /\ \/ ~ enabled /\ Finish(j, a, "canceled") /\ UNCHANGED encodeFaults
       \/ enabled /\ ~ fileRow /\ Finish(j, a, "permanent") /\ UNCHANGED encodeFaults
       \/ enabled /\ fileRow /\ EncodeFault /\ Finish(j, a, "transient")
    /\ UNCHANGED <<artifact, reconcile, source, fileRow, enabled, retried, doubled>>

MarkEncodingStarted(j, a) ==
    /\ At(j, a, "claimed") /\ enabled /\ fileRow
    /\ artifact' = [artifact EXCEPT ![a] =
                       [encoding |-> TRUE, failed |-> FALSE, ref |-> j,
                        ready |-> artifact[a].ready]]
    /\ Moves(j, a, "load")
    /\ UNCHANGED <<encodeJobs, reconcile, source, fileRow, enabled, encodeFaults, retried, doubled>>

\* runEncode and runEncodeQuality, runEncodeAudio, runEncodeSub: the row is
\* loaded, the file has to be there and its source is fetched.
FailEncodingTask(r) == [r EXCEPT !.ready = FALSE, !.encoding = FALSE, !.failed = TRUE]
CompleteEncodingTask(r) == [r EXCEPT !.encoding = FALSE, !.failed = FALSE, !.ready = TRUE]

Fails(j, a, row, err) ==
    /\ artifact' = [artifact EXCEPT ![a] = FailEncodingTask(row)]
    /\ encodes' = [encodes EXCEPT ![j][a].pc = "after", ![j][a].row = FailEncodingTask(row),
                                  ![j][a].err = err]

RunEncode(j, a) ==
    /\ At(j, a, "load")
    /\ IF fileRow /\ source
       THEN /\ encodes' = [encodes EXCEPT ![j][a].pc = "ffmpeg", ![j][a].row = artifact[a]]
            /\ UNCHANGED artifact
       ELSE /\ artifact' = [artifact EXCEPT ![a] = FailEncodingTask(@)]
            /\ encodes' = [encodes EXCEPT
                              ![j][a] = [@ EXCEPT !.pc = "after", !.row = NewArtifact,
                                                  !.err = IF fileRow THEN "transient"
                                                          ELSE "permanent"]]
    /\ UNCHANGED <<encodeJobs, reconcile, source, fileRow, enabled, encodeFaults, retried, doubled>>

\* The listener of the progress socket saves the row as the handler has it,
\* or as it left it, beside whatever came after it.  Of the listeners of a
\* task the last one counts.
HasLoaded(e) == e.pc \in {"ffmpeg", "publish", "complete"} \/ (e.pc = "after" /\ e.row # NewArtifact)

ProgressSaved(j, a) ==
    /\ JobExists(j) /\ encodes[j][a].row \notin {NewArtifact, artifact[a]}
    /\ artifact' = [artifact EXCEPT ![a] = encodes[j][a].row]
    /\ doubled' = IF HasLoaded(encodes[j][a]) THEN doubled ELSE doubled \cup {a}
    /\ UNCHANGED <<encodeJobs, encodes, reconcile, source, fileRow, enabled, encodeFaults,
                   retried>>

\* ffmpeg ends: killed by its context, with an error, or with an output
\* that is published once the commit fence is passed.
FfmpegEnds(j, a) ==
    /\ At(j, a, "ffmpeg")
    /\ \/ /\ encodes[j][a].ctx # "live"
          /\ Fails(j, a, encodes[j][a].row, "permanent") /\ UNCHANGED <<encodeJobs, encodeFaults>>
       \/ /\ encodes[j][a].ctx = "live" /\ EncodeFault
          /\ Fails(j, a, encodes[j][a].row, "permanent") /\ UNCHANGED encodeJobs
       \/ /\ encodes[j][a].ctx = "live"
          /\ IF CommitAllowed(EncodeTask(j, a))
             THEN /\ encodeJobs' = [encodeJobs EXCEPT ![j].tasks[a].commit = TRUE]
                  /\ Moves(j, a, "publish")
             ELSE /\ encodes' = [encodes EXCEPT ![j][a].pc = "after", ![j][a].err = "permanent"]
                  /\ UNCHANGED encodeJobs
          /\ UNCHANGED <<artifact, encodeFaults>>
    /\ UNCHANGED <<reconcile, source, fileRow, enabled, retried, doubled>>

PublishEncodingOutput(j, a) ==
    /\ At(j, a, "publish")
    /\ \/ /\ fileRow /\ Moves(j, a, "complete") /\ UNCHANGED <<artifact, encodeFaults>>
       \/ EncodeFault /\ Fails(j, a, encodes[j][a].row, "transient")
       \/ ~ fileRow /\ Fails(j, a, encodes[j][a].row, "transient") /\ UNCHANGED encodeFaults
    /\ UNCHANGED <<encodeJobs, reconcile, source, fileRow, enabled, retried, doubled>>

EncodeCompletes(j, a) ==
    /\ At(j, a, "complete")
    /\ artifact' = [artifact EXCEPT ![a] = CompleteEncodingTask(encodes[j][a].row)]
    /\ encodes' = [encodes EXCEPT ![j][a].pc = "after", ![j][a].row = CompleteEncodingTask(@)]
    /\ UNCHANGED <<encodeJobs, reconcile, source, fileRow, enabled, encodeFaults, retried, doubled>>

\* The rest of encodingHandler: the cache is invalidated again; a context
\* that ended takes the artifact back to where it was.
ResetEncodingProjection(a) == [artifact EXCEPT ![a].encoding = FALSE, ![a].failed = FALSE]

EncodingReturns(j, a) ==
    LET r == encodes[j][a]
    IN /\ At(j, a, "after")
       /\ IF r.ctx # "live"
          THEN /\ artifact' = ResetEncodingProjection(a)
               /\ Finish(j, a, r.ctx) /\ UNCHANGED encodeFaults
          ELSE /\ UNCHANGED artifact
               /\ \/ EncodeFault /\ Finish(j, a, "transient")
                  \/ /\ Finish(j, a, r.err)
                     /\ UNCHANGED encodeFaults
       /\ UNCHANGED <<reconcile, source, fileRow, enabled, retried, doubled>>

-----------------------------------------------------------------------------

\* Mutant: a canceled task counts as one that will run.
UsableUnlessFailed(j, a) == JobExists(j) /\ EncodeTask(j, a).st \notin {"none", "failed"}

\* reconcileEncodingTasks.  appendPending: an artifact without a reference
\* takes the one of a task that is neither failed nor canceled; otherwise it
\* is pending when its task is missing, failed or canceled.
Usable(j, a) == JobExists(j) /\ EncodeTask(j, a).st \notin {"none", "failed", "canceled"}
Unfinished == {a \in Artifacts : ~ artifact[a].ready /\ ~ artifact[a].failed}
Adopts(a) == {j \in JobNumbers : Usable(j, a)}
Adopted(a) == CHOOSE j \in Adopts(a) : \A i \in Adopts(a) : i <= j
Pending == {a \in Unfinished : IF artifact[a].ref = 0 THEN Adopts(a) = {}
                               ELSE ~ Usable(artifact[a].ref, a)}

AppendPending ==
    /\ reconcile.pc = "idle" /\ enabled
    /\ artifact' = [a \in Artifacts |->
                       IF a \in Unfinished /\ artifact[a].ref = 0 /\ Adopts(a) # {}
                       THEN [artifact[a] EXCEPT !.ref = Adopted(a)] ELSE artifact[a]]
    /\ IF Pending = {} THEN artifact' # artifact /\ UNCHANGED reconcile
       ELSE reconcile' = [pc |-> "enqueue", pending |-> Pending, job |-> 0,
                          key |-> [a \in Pending |-> artifact[a].ref]]
    /\ UNCHANGED <<encodeJobs, encodes, source, fileRow, enabled, encodeFaults, retried, doubled>>

Doubles(jobs) == {a \in Artifacts : \E i, j \in DOMAIN jobs :
                    i < j /\ jobs[i].tasks[a].st \in TaskOpen /\ jobs[j].tasks[a].st \in TaskOpen}

\* Enqueue under a key made of the pending artifacts and their last tasks.
SameKey == {j \in 1 .. Len(encodeJobs) : encodeJobs[j].key = reconcile.key}
ReconcileEnqueue ==
    /\ reconcile.pc = "enqueue"
    /\ IF ~ fileRow THEN reconcile' = IdleReconcile /\ UNCHANGED encodeJobs
       ELSE IF SameKey # {}
       THEN /\ reconcile' = [reconcile EXCEPT !.pc = "refer", !.job = CHOOSE j \in SameKey : TRUE]
            /\ UNCHANGED encodeJobs
       ELSE /\ Len(encodeJobs) < MaxEncodeJobs
            /\ encodeJobs' = Append(encodeJobs, JobFor(reconcile.pending, reconcile.key))
            /\ reconcile' = [reconcile EXCEPT !.pc = "refer", !.job = Len(encodeJobs) + 1]
    /\ doubled' = doubled \cup Doubles(encodeJobs')
    /\ UNCHANGED <<artifact, encodes, source, fileRow, enabled, encodeFaults, retried>>

SetEncodingTaskReference ==
    /\ reconcile.pc = "refer"
    /\ artifact' = [a \in Artifacts |-> IF EncodeTask(reconcile.job, a).st = "none" THEN artifact[a]
                                        ELSE [artifact[a] EXCEPT !.ref = reconcile.job]]
    /\ reconcile' = IdleReconcile
    /\ UNCHANGED <<encodeJobs, encodes, source, fileRow, enabled, encodeFaults, retried, doubled>>

\* runEncoderCleanup: the source goes once every artifact is ready.
RunEncoderCleanup ==
    /\ source /\ fileRow /\ \A a \in Artifacts : artifact[a].ready
    /\ source' = FALSE
    /\ UNCHANGED <<artifact, encodeJobs, encodes, reconcile, fileRow, enabled, encodeFaults,
                   retried, doubled>>

-----------------------------------------------------------------------------
\* CancelJob: refused past a commit; once the rows are written the contexts
\* of the running handlers end.
Cancelable(j) == JobExists(j) /\ ~ JobOver(j) /\ \A a \in Artifacts : ~ Committing(EncodeTask(j, a))
CanceledJob(j) == [encodeJobs[j] EXCEPT !.tasks = [a \in Artifacts |-> CanceledRow(@[a])]]
Stopped(e, st) == IF e.pc # "idle" /\ e.ctx = "live" THEN [e EXCEPT !.ctx = st] ELSE e

CancelEncodeJob(j) ==
    /\ Cancelable(j) /\ EncodeFault
    /\ encodeJobs' = [encodeJobs EXCEPT ![j] = CanceledJob(j)]
    /\ UNCHANGED <<artifact, encodes, reconcile, source, fileRow, enabled, retried, doubled>>
CancelSignaled(j, a) ==
    /\ JobExists(j) /\ EncodeTask(j, a).st = "cancel_requested"
    /\ encodes' = [encodes EXCEPT ![j][a] = Stopped(@, "canceled")] /\ encodes' # encodes
    /\ UNCHANGED <<artifact, encodeJobs, reconcile, source, fileRow, enabled, encodeFaults,
                   retried, doubled>>

\* UpdateSettings: disabling cancels the jobs of the media.encode tasks.
DisableEncoding ==
    /\ enabled /\ EncodeFault /\ enabled' = FALSE
    /\ encodeJobs' = [j \in DOMAIN encodeJobs |-> IF Cancelable(j) THEN CanceledJob(j)
                                                  ELSE encodeJobs[j]]
    /\ UNCHANGED <<artifact, encodes, reconcile, source, fileRow, retried, doubled>>
EnableEncoding ==
    /\ ~ enabled /\ enabled' = TRUE
    /\ UNCHANGED <<artifact, encodeJobs, encodes, reconcile, source, fileRow, encodeFaults,
                   retried, doubled>>

RetryEncodeJob(j) ==
    /\ JobExists(j) /\ JobOver(j) /\ EncodeFault
    /\ \E a \in Artifacts : EncodeTask(j, a).st \in {"failed", "canceled"}
    /\ encodeJobs' = [encodeJobs EXCEPT ![j].tasks = [a \in Artifacts |-> RetriedRow(@[a])]]
    /\ retried' = retried \cup {a \in Artifacts : EncodeTask(j, a).st # "none"}
    /\ UNCHANGED <<artifact, encodes, reconcile, source, fileRow, enabled, doubled>>

\* Retain removes the history of a job that is over.
RetainEncodeJob(j) ==
    /\ JobExists(j) /\ JobOver(j) /\ EncodeFault
    /\ \E a \in Artifacts : EncodeTask(j, a).st # "none"
    /\ \A a \in Artifacts : encodes[j][a].pc = "idle"
    /\ encodeJobs' = [encodeJobs EXCEPT ![j] = JobFor({}, <<>>)]
    /\ UNCHANGED <<artifact, encodes, reconcile, source, fileRow, enabled, retried, doubled>>

\* The last link is deleted: the deleter ends the encodings of the file.
CancelActiveEncodingsForFile ==
    /\ fileRow /\ EncodeFault /\ fileRow' = FALSE
    /\ encodes' = [j \in JobNumbers |-> [a \in Artifacts |->
                      IF encodes[j][a].pc = "claimed" THEN encodes[j][a]
                      ELSE Stopped(encodes[j][a], "canceled")]]
    /\ UNCHANGED <<artifact, encodeJobs, reconcile, source, enabled, retried, doubled>>

\* The process stops and starts again: gracefully, when the handlers see
\* their contexts end, or in a crash.
EncoderStops ==
    /\ EncodeFault
    /\ encodes' = [j \in JobNumbers |-> [a \in Artifacts |-> Stopped(encodes[j][a], "interrupted")]]
    /\ encodes' # encodes
    /\ UNCHANGED <<artifact, encodeJobs, reconcile, source, fileRow, enabled, retried, doubled>>
EncoderCrash ==
    /\ EncodeFault
    /\ encodes' = [j \in JobNumbers |-> [a \in Artifacts |-> NoEncode]]
    /\ reconcile' = IdleReconcile
    /\ encodes' # encodes \/ reconcile' # reconcile
    /\ encodeJobs' = [j \in DOMAIN encodeJobs |->
           [encodeJobs[j] EXCEPT !.tasks = [a \in Artifacts |-> RecoveredRow(@[a])]]]
    /\ UNCHANGED <<artifact, source, fileRow, enabled, retried, doubled>>

-----------------------------------------------------------------------------
EncodeStep(j, a) ==
    \/ EncodingHandler(j, a) \/ EncodingRefused(j, a) \/ MarkEncodingStarted(j, a)
    \/ RunEncode(j, a) \/ ProgressSaved(j, a) \/ FfmpegEnds(j, a)
    \/ PublishEncodingOutput(j, a) \/ EncodeCompletes(j, a) \/ EncodingReturns(j, a)
    \/ CancelSignaled(j, a)

EncodingNext ==
    \/ \E j \in JobNumbers : \/ \E a \in Artifacts : EncodeStep(j, a)
                             \/ CancelEncodeJob(j) \/ RetryEncodeJob(j) \/ RetainEncodeJob(j)
    \/ AppendPending \/ ReconcileEnqueue \/ SetEncodingTaskReference
    \/ RunEncoderCleanup \/ DisableEncoding \/ EnableEncoding
    \/ CancelActiveEncodingsForFile \/ EncoderStops \/ EncoderCrash

EncodingSpec == EncodingInit /\ [][EncodingNext]_encodingVars

-----------------------------------------------------------------------------
\* Every piece of state has its type.
EncodingTypeOK ==
    /\ \A a \in Artifacts : /\ artifact[a].ref \in 0 .. MaxEncodeJobs
                            /\ ~ (artifact[a].ready /\ artifact[a].failed)
    /\ \A j \in 1 .. Len(encodeJobs) : encodeJobs[j].tasks \in [Artifacts -> TaskRows]
    /\ reconcile.job \in 0 .. Len(encodeJobs)

\* No artifact of a file that still exists is forgotten: one that is neither
\* ready nor failed has a task that may still run, or reconciliation takes it
\* up.  Left out is an artifact retried by hand, that two tasks worked on at
\* once, or that the listener of a returned handler saved: the row one of
\* them loaded overwrites what the other recorded.
NothingForgotten ==
    fileRow => \A a \in Unfinished \ (retried \cup doubled) :
        \/ a \in Pending \/ \E j \in JobNumbers : LiveTask(j, a)
        \/ \E j \in JobNumbers : encodes[j][a].pc # "idle"
=============================================================================
