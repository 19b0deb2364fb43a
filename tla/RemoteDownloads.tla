--------------------------- MODULE RemoteDownloads ---------------------------
(***************************************************************************)
(* The download of one remote video, one URL of a batch: the request that  *)
(* makes its row and its job and may be replayed under its idempotency     *)
(* key, the remote.fetch handler that downloads and imports, and the       *)
(* requests that cancel, retry, delete and disable.                        *)
(*                                                                         *)
(* rows are the rows ever made for the URL, deleted ones included; the     *)
(* job under its idempotency key was made for row job.of.  video says      *)
(* whether the link with the creation key of the row exists; one that lost *)
(* its key is loose.  A temporary file may or may not survive, so that an  *)
(* import that is resumed may start over with the download.                *)
(*                                                                         *)
(* Handlers and requests load a row, look at it and write later.  resaved  *)
(* is a history variable: the rows that a Save has written back although   *)
(* they had been deleted, or linked to their job, since they were loaded.  *)
(***************************************************************************)
EXTENDS DurableTask, Sequences

CONSTANTS Creators,          \* create requests under the idempotency key
          MaxRemoteRows,     \* rows made for the URL
          MaxRemoteFaults    \* failures, crashes and user requests together

ASSUME RemoteAssumption == MaxRemoteRows \in Nat \ {0} /\ MaxRemoteFaults \in Nat

VARIABLES rows, job, video, fetch,
          creators,          \* the create requests
          createMu,          \* who holds remoteDownloadCreateMu
          canceling,         \* the cancel request under way
          retrying,          \* the retry request under way
          deleting,          \* the row of a delete request under way
          resaved,           \* history: rows written back by a stale Save
          remoteEnabled, remoteFaults

requestVars == <<canceling, retrying, deleting>>
createVars == <<creators, createMu>>
remoteVars == <<rows, job, video, fetch, createVars, requestVars, resaved, remoteEnabled, remoteFaults>>

Nobody == {}
RemoteDownloadTerminal == {"completed", "failed", "canceled"}
RemoteStatuses == RemoteDownloadTerminal \cup {"pending", "downloading", "importing", "canceling", "deleted"}
NewDownload == [st |-> "pending", linked |-> FALSE]
NoFetch == [pc |-> "idle", st |-> "pending", ctx |-> "live", err |-> "ok"]
NoCreate == [pc |-> "idle", row |-> 0, linked |-> FALSE]
NoCancel == [pc |-> "idle", row |-> 0, st |-> "pending", linked |-> FALSE]
NoRetry == [pc |-> "idle", row |-> 0, linked |-> FALSE]

RemoteInit ==
    /\ rows = <<>> /\ job = [task |-> NoTaskRow, of |-> 0]
    /\ video = [keyed |-> FALSE, loose |-> FALSE]
    /\ fetch = NoFetch
    /\ creators = [c \in Creators |-> NoCreate] /\ createMu = Nobody
    /\ canceling = NoCancel /\ retrying = NoRetry /\ deleting = 0 /\ resaved = {}
    /\ remoteEnabled = TRUE /\ remoteFaults = 0

RemoteFault == remoteFaults < MaxRemoteFaults /\ remoteFaults' = remoteFaults + 1
Rows == {i \in DOMAIN rows : rows[i].st # "deleted"}
\* Updates leaves a deleted row alone, Save writes all of the row, again if it
\* was deleted.
UpdateRow(i, st, linked) ==
    /\ rows' = IF i \in Rows THEN [rows EXCEPT ![i] = [st |-> st, linked |-> linked]] ELSE rows
    /\ UNCHANGED resaved
UpdateStatus(i, st) == UpdateRow(i, st, rows[i].linked)
SaveRow(i, st, linked) ==
    /\ rows' = [rows EXCEPT ![i] = [st |-> st, linked |-> linked]]
    /\ resaved' = IF i \notin Rows \/ (rows[i].linked /\ ~ linked) THEN resaved \cup {i} ELSE resaved

-----------------------------------------------------------------------------

\* The row under the request key is read; more of them than URLs are refused.
InspectRows(c) ==
    /\ \/ /\ Rows = {} /\ Len(rows) < MaxRemoteRows
          /\ creators' = [creators EXCEPT ![c].pc = "row"] /\ createMu' = {c}
       \/ \E i \in Rows : /\ Rows = {i} /\ createMu' = {c}
                         /\ creators' = [creators EXCEPT ![c] =
                                [pc |-> "enqueue", row |-> i, linked |-> rows[i].linked]]
       \/ /\ \E i, j \in Rows : i # j
          /\ creators' = [creators EXCEPT ![c].pc = "refused"] /\ UNCHANGED createMu
    /\ UNCHANGED <<rows, job, video, fetch, requestVars, resaved, remoteEnabled, remoteFaults>>

\* Mutant: without remoteDownloadCreateMu.
CreateInspectUnlocked(c) == remoteEnabled /\ creators[c].pc = "idle" /\ InspectRows(c)

\* createRemoteDownload, one request at a time: the row is read ...
CreateInspect(c) ==
    /\ remoteEnabled /\ creators[c].pc = "idle" /\ createMu = Nobody
    /\ InspectRows(c)

\* ... and created when it is missing.
CreateRow(c) ==
    /\ creators[c].pc = "row"
    /\ rows' = Append(rows, NewDownload)
    /\ creators' = [creators EXCEPT ![c] = [pc |-> "enqueue", row |-> Len(rows'), linked |-> FALSE]]
    /\ UNCHANGED <<job, video, fetch, createMu, requestVars, resaved, remoteEnabled, remoteFaults>>

\* A row without a job gets one.  Enqueue returns the job that is there under
\* the key and refuses when that job was made for another row.
CreateLeaves(c, answer) ==
    /\ creators' = [creators EXCEPT ![c].pc = answer]
    /\ createMu' = Nobody

RemoteEnqueue(c) ==
    LET r == creators[c]
    IN /\ r.pc = "enqueue"
       /\ \/ r.linked /\ CreateLeaves(c, "answered") /\ UNCHANGED job
          \/ /\ ~ r.linked /\ job.of \in {0, r.row}
             /\ job' = IF job.of = 0 THEN [task |-> NewTaskRow, of |-> r.row] ELSE job
             /\ creators' = [creators EXCEPT ![c].pc = "link"] /\ UNCHANGED createMu
          \/ ~ r.linked /\ job.of \notin {0, r.row} /\ CreateLeaves(c, "refused") /\ UNCHANGED job
       /\ UNCHANGED <<rows, video, fetch, requestVars, resaved, remoteEnabled, remoteFaults>>

LinkJob(c) ==
    /\ creators[c].pc = "link"
    /\ UpdateRow(creators[c].row, rows[creators[c].row].st, TRUE)
    /\ CreateLeaves(c, "answered")
    /\ UNCHANGED <<job, video, fetch, requestVars, remoteEnabled, remoteFaults>>

-----------------------------------------------------------------------------
\* remoteFetchHandler.  FetchRow is the status of the row of the job now.
FetchRow == rows[job.of].st
CancelRequested == FetchRow \in {"canceling", "canceled"}
Fetches(pc) == fetch' = [fetch EXCEPT !.pc = pc]
FetchReturns(how) ==
    /\ job' = [job EXCEPT !.task = FinishedRow(@, how)]
    /\ fetch' = NoFetch

RemoteFetchClaimed ==
    /\ fetch.pc = "idle" /\ Claimable(job.task)
    /\ job' = [job EXCEPT !.task = Claimed(@)] /\ Fetches("start")
    /\ UNCHANGED <<rows, video, createVars, requestVars, resaved, remoteEnabled, remoteFaults>>

RemoteFetchEndsEarly ==
    /\ fetch.pc = "start"
    /\ \/ ~ remoteEnabled /\ FetchReturns("canceled") /\ UNCHANGED remoteFaults
       \/ remoteEnabled /\ FetchRow = "deleted" /\ FetchReturns("permanent") /\ UNCHANGED remoteFaults
       \/ remoteEnabled /\ FetchRow = "completed" /\ FetchReturns("ok") /\ UNCHANGED remoteFaults
       \/ remoteEnabled /\ FetchRow = "completed" /\ RemoteFault /\ FetchReturns("transient")
       \/ remoteEnabled /\ FetchRow # "deleted" /\ RemoteFault /\ FetchReturns("permanent")
    /\ UNCHANGED <<rows, video, createVars, requestVars, resaved, remoteEnabled>>

\* The row is loaded ...
RemoteFetchLoads ==
    /\ fetch.pc = "start" /\ remoteEnabled /\ FetchRow \notin {"deleted", "completed"}
    /\ fetch' = [fetch EXCEPT !.pc = "loaded",
                             !.st = IF FetchRow = "importing" THEN "importing" ELSE "downloading"]
    /\ UNCHANGED <<rows, job, video, createVars, requestVars, resaved, remoteEnabled, remoteFaults>>

\* ... and updated, whatever became of it; an update that finds it deleted
\* goes unnoticed.
RemoteFetchStarts ==
    /\ fetch.pc = "loaded"
    /\ \/ /\ fetch.ctx = "live" /\ Fetches("process") /\ UNCHANGED <<job, remoteFaults>>
          /\ UpdateRow(job.of, IF fetch.st = "importing" THEN FetchRow ELSE fetch.st, TRUE)
       \/ fetch.ctx # "live" /\ FetchReturns("transient") /\ UNCHANGED <<rows, resaved, remoteFaults>>
       \/ RemoteFault /\ FetchReturns("transient") /\ UNCHANGED <<rows, resaved>>
    /\ UNCHANGED <<video, createVars, requestVars, remoteEnabled>>

\* The row that was loaded is saved with its end.
DownloadEnds(st, err) ==
    /\ SaveRow(job.of, st, TRUE)
    /\ fetch' = [fetch EXCEPT !.pc = "after", !.err = err]
FinishCanceled == DownloadEnds("canceled", "canceled")

\* processDownload up to the first byte; recoverImportedRemote finds a link
\* that an earlier attempt imported.
ProcessDownload ==
    /\ fetch.pc = "process"
    /\ \/ CancelRequested /\ FinishCanceled
       \/ ~ CancelRequested /\ video.keyed /\ DownloadEnds("completed", "ok")
       \/ ~ CancelRequested /\ ~ video.keyed /\ fetch.st = "importing" /\ Fetches("import") /\ UNCHANGED <<rows, resaved>>
       \/ ~ CancelRequested /\ ~ video.keyed /\ Fetches("copy") /\ UNCHANGED <<rows, resaved>>
    /\ UNCHANGED <<job, video, createVars, requestVars, remoteEnabled, remoteFaults>>

\* The request and copyRemoteBody: the context ends it, it fails for now or
\* for good, or it is all there.
CopyRemoteBody ==
    /\ fetch.pc = "copy"
    /\ \/ /\ fetch.ctx # "live" /\ UNCHANGED remoteFaults
          /\ IF CancelRequested THEN FinishCanceled ELSE DownloadEnds("failed", "permanent")
       \/ /\ fetch.ctx = "live" /\ RemoteFault
          /\ \/ CancelRequested /\ FinishCanceled
             \/ \E err \in {"transient", "permanent"} : ~ CancelRequested /\ DownloadEnds("failed", err)
       \/ /\ fetch.ctx = "live" /\ UNCHANGED remoteFaults
          /\ IF CancelRequested THEN FinishCanceled
             ELSE UpdateStatus(job.of, "importing") /\ Fetches("commit")
    /\ UNCHANGED <<job, video, createVars, requestVars, remoteEnabled>>

CommitImport ==
    /\ fetch.pc = "commit"
    /\ IF CommitAllowed(job.task)
       THEN job' = [job EXCEPT !.task.commit = TRUE] /\ Fetches("import") /\ UNCHANGED <<rows, resaved>>
       ELSE FinishCanceled /\ UNCHANGED job
    /\ UNCHANGED <<video, createVars, requestVars, remoteEnabled, remoteFaults>>

\* importRemoteTemp: CreateFile under the creation key ...
ImportRemoteTemp ==
    /\ fetch.pc = "import"
    /\ \/ /\ video' = [video EXCEPT !.keyed = TRUE] /\ Fetches("imported")
          /\ UNCHANGED <<rows, resaved, remoteFaults>>
       \/ RemoteFault /\ DownloadEnds("failed", "permanent") /\ UNCHANGED video
       \/ /\ fetch.ctx # "live" /\ DownloadEnds("failed", "permanent")
          /\ UNCHANGED <<video, remoteFaults>>
    /\ UNCHANGED <<job, createVars, requestVars, remoteEnabled>>

\* Mutant: the row is completed before the cancellation is looked at.
CompleteRemoteImportFirst ==
    /\ fetch.pc = "imported" /\ DownloadEnds("completed", "ok")
    /\ video' = IF CancelRequested \/ fetch.ctx # "live" THEN [keyed |-> FALSE, loose |-> TRUE]
                ELSE video
    /\ UNCHANGED <<job, createVars, requestVars, remoteEnabled, remoteFaults>>

\* ... and then completeRemoteImport, whose write may fail; or the download
\* was canceled or ran into its timeout, and the link loses its key ...
DropImport ==
    /\ video' = [keyed |-> FALSE, loose |-> TRUE] /\ Fetches("drop")
    /\ UNCHANGED <<rows, resaved>>

CompleteRemoteImport ==
    /\ fetch.pc = "imported"
    /\ \/ (CancelRequested \/ fetch.ctx # "live") /\ DropImport /\ UNCHANGED remoteFaults
       \/ RemoteFault /\ DropImport
       \/ /\ ~ CancelRequested /\ fetch.ctx = "live" /\ UNCHANGED video
          /\ \/ DownloadEnds("completed", "ok") /\ UNCHANGED remoteFaults
             \/ RemoteFault /\ DownloadEnds("failed", "permanent")
    /\ UNCHANGED <<job, createVars, requestVars, remoteEnabled>>

\* ... and is deleted.
DeleteImportedRemoteLink ==
    /\ fetch.pc = "drop"
    /\ \/ video' = [video EXCEPT !.loose = FALSE] /\ UNCHANGED remoteFaults
       \/ RemoteFault /\ UNCHANGED video
    /\ FinishCanceled
    /\ UNCHANGED <<job, createVars, requestVars, remoteEnabled>>

\* The rest of remoteFetchHandler.
RemoteFetchReturns ==
    /\ fetch.pc = "after"
    /\ \/ /\ fetch.ctx # "live" /\ UNCHANGED remoteFaults
          /\ UpdateStatus(job.of, "canceled") /\ FetchReturns(fetch.ctx)
       \/ /\ fetch.ctx = "live" /\ UNCHANGED <<rows, resaved, remoteFaults>>
          /\ FetchReturns(CASE FetchRow = "completed" -> "ok" [] FetchRow = "canceled" -> "canceled"
                            [] FetchRow = "failed" -> fetch.err [] FetchRow = "deleted" -> "transient"
                            [] OTHER -> "permanent")
       \/ RemoteFault /\ FetchReturns("transient") /\ UNCHANGED <<rows, resaved>>
    /\ UNCHANGED <<video, createVars, requestVars, remoteEnabled>>

-----------------------------------------------------------------------------
\* cancelRemoteDownload: the row is read.  That of a linked row cancels its
\* job and then changes the row if its status is still one of those the
\* cancellation is for.
JobCancelable == job.task.st \in TaskOpen /\ ~ Committing(job.task)
StoppedFetch(how) == IF fetch.pc # "idle" /\ fetch.ctx = "live" THEN [fetch EXCEPT !.ctx = how]
                     ELSE fetch
LoadedForCancel(i, pc) == [pc |-> pc, row |-> i, st |-> rows[i].st, linked |-> rows[i].linked]
otherThanCancel == <<video, createVars, retrying, deleting, remoteEnabled>>

CancelRemoteDownload ==
    /\ canceling.pc = "idle" /\ RemoteFault
    /\ \E i \in Rows : canceling' = LoadedForCancel(i, IF rows[i].linked THEN "cancel" ELSE "load")
    /\ UNCHANGED <<rows, job, fetch, resaved, otherThanCancel>>

CancelRemoteJob ==
    /\ canceling.pc = "cancel"
    /\ \/ /\ JobCancelable /\ job' = [job EXCEPT !.task = CanceledRow(@)]
          /\ fetch' = StoppedFetch("canceled") /\ canceling' = [canceling EXCEPT !.pc = "project"]
       \/ ~ JobCancelable /\ canceling' = NoCancel /\ UNCHANGED <<job, fetch>>
    /\ UNCHANGED <<rows, resaved, remoteFaults, otherThanCancel>>

ProjectCancel ==
    /\ canceling.pc = "project" /\ canceling' = NoCancel
    /\ LET now == rows[canceling.row].st
       IN UpdateStatus(canceling.row,
              CASE canceling.st = "pending" /\ now = "pending" -> "canceled"
                [] canceling.st # "pending" /\ now \in {"downloading", "importing"} -> "canceling"
                [] OTHER -> now)
    /\ UNCHANGED <<job, fetch, remoteFaults, otherThanCancel>>

\* WorkerGroup.CancelRemoteDownload, for a row that was not linked, loads the
\* row itself ...
LoadUnlinked ==
    /\ canceling.pc = "load"
    /\ canceling' = LET now == rows[canceling.row].st
                    IN IF now \in RemoteDownloadTerminal \cup {"deleted"} THEN NoCancel
                       ELSE LoadedForCancel(canceling.row, IF now = "pending" THEN "save" ELSE "ask")
    /\ UNCHANGED <<rows, job, fetch, resaved, remoteFaults, otherThanCancel>>

\* ... asks for the cancellation of one under way; no handler has registered
\* with activeDownloadCancels, which belong to the downloader it replaced ...
AskForCancel ==
    /\ canceling.pc = "ask" /\ canceling' = [canceling EXCEPT !.pc = "save"]
    /\ UpdateStatus(canceling.row, "canceling")
    /\ UNCHANGED <<job, fetch, remoteFaults, otherThanCancel>>

\* ... and saves what it loaded as canceled.
SaveCanceled ==
    /\ canceling.pc = "save" /\ canceling' = NoCancel
    /\ SaveRow(canceling.row, "canceled", canceling.linked)
    /\ UNCHANGED <<job, fetch, remoteFaults, otherThanCancel>>

\* retryRemoteDownload looks at the row, resets it, then RetryJob reopens the
\* job.
RetryRemoteDownload ==
    /\ remoteEnabled /\ retrying.pc = "idle" /\ RemoteFault
    /\ \E i \in Rows : /\ rows[i].st \in {"failed", "canceled"}
                       /\ retrying' = [pc |-> "reset", row |-> i, linked |-> rows[i].linked]
    /\ UNCHANGED <<rows, job, video, fetch, createVars, canceling, deleting, resaved, remoteEnabled>>

ResetRemoteDownload ==
    /\ retrying.pc = "reset" /\ UpdateStatus(retrying.row, "pending")
    /\ retrying' = IF retrying.linked THEN [retrying EXCEPT !.pc = "reopen"] ELSE NoRetry
    /\ UNCHANGED <<job, video, fetch, createVars, canceling, deleting, remoteEnabled, remoteFaults>>

RetryRemoteJob ==
    /\ retrying.pc = "reopen" /\ retrying' = NoRetry
    /\ job' = IF job.task.st \in {"failed", "canceled"} THEN [job EXCEPT !.task = RetriedRow(@)]
              ELSE job
    /\ UNCHANGED <<rows, video, fetch, createVars, canceling, deleting, resaved, remoteEnabled,
                   remoteFaults>>

\* DeleteRemoteDownload looks at the status of the row and then deletes it
\* whatever its status has become ...
DeleteRemoteDownload ==
    /\ deleting = 0 /\ RemoteFault
    /\ \E i \in Rows : rows[i].st \in RemoteDownloadTerminal /\ deleting' = i
    /\ UNCHANGED <<rows, job, video, fetch, createVars, canceling, retrying, resaved, remoteEnabled>>

DeleteLoadedDownload ==
    /\ deleting # 0 /\ deleting' = 0
    /\ UpdateStatus(deleting, "deleted")
    /\ UNCHANGED <<job, video, fetch, createVars, canceling, retrying, remoteEnabled, remoteFaults>>

\* ... ClearRemoteDownloads deletes what is over in one statement.
ClearRemoteDownloads ==
    /\ RemoteFault
    /\ \E i \in Rows : rows[i].st \in RemoteDownloadTerminal /\ UpdateStatus(i, "deleted")
    /\ UNCHANGED <<job, video, fetch, createVars, requestVars, remoteEnabled>>

\* UpdateSettings: disabling cancels the jobs of the remote.fetch tasks.
DisableRemoteDownloads ==
    /\ remoteEnabled /\ RemoteFault /\ remoteEnabled' = FALSE
    /\ IF JobCancelable
       THEN job' = [job EXCEPT !.task = CanceledRow(@)] /\ fetch' = StoppedFetch("canceled")
       ELSE UNCHANGED <<job, fetch>>
    /\ UNCHANGED <<rows, video, createVars, requestVars, resaved>>
EnableRemoteDownloads ==
    /\ ~ remoteEnabled /\ remoteEnabled' = TRUE
    /\ UNCHANGED <<rows, job, video, fetch, createVars, requestVars, resaved, remoteFaults>>

\* The process stops, gracefully or not, and starts again; a client asks anew.
RemoteStops ==
    /\ RemoteFault /\ fetch' = StoppedFetch("interrupted") /\ fetch' # fetch
    /\ UNCHANGED <<rows, job, video, createVars, requestVars, resaved, remoteEnabled>>
RemoteCrash ==
    /\ RemoteFault
    /\ fetch' = NoFetch /\ job' = [job EXCEPT !.task = RecoveredRow(@)]
    /\ creators' = [c \in Creators |-> NoCreate] /\ createMu' = Nobody
    /\ canceling' = NoCancel /\ retrying' = NoRetry /\ deleting' = 0
    /\ UNCHANGED <<rows, video, resaved, remoteEnabled>>
Replays(c) ==
    /\ creators[c].pc \in {"answered", "refused"} /\ RemoteFault
    /\ creators' = [creators EXCEPT ![c] = NoCreate]
    /\ UNCHANGED <<rows, job, video, fetch, createMu, requestVars, resaved, remoteEnabled>>

-----------------------------------------------------------------------------
RemoteNext ==
    \/ \E c \in Creators : CreateInspect(c) \/ CreateRow(c) \/ RemoteEnqueue(c) \/ LinkJob(c) \/ Replays(c)
    \/ RemoteFetchClaimed \/ RemoteFetchEndsEarly \/ RemoteFetchLoads \/ RemoteFetchStarts
    \/ ProcessDownload \/ CopyRemoteBody \/ CommitImport \/ ImportRemoteTemp \/ CompleteRemoteImport
    \/ DeleteImportedRemoteLink \/ RemoteFetchReturns
    \/ CancelRemoteDownload \/ CancelRemoteJob \/ ProjectCancel
    \/ LoadUnlinked \/ AskForCancel \/ SaveCanceled
    \/ RetryRemoteDownload \/ ResetRemoteDownload \/ RetryRemoteJob
    \/ DeleteRemoteDownload \/ DeleteLoadedDownload \/ ClearRemoteDownloads
    \/ DisableRemoteDownloads \/ EnableRemoteDownloads \/ RemoteStops \/ RemoteCrash

RemoteSpec == RemoteInit /\ [][RemoteNext]_remoteVars

-----------------------------------------------------------------------------
\* Every piece of state has its type.
RemoteTypeOK ==
    /\ \A i \in DOMAIN rows : rows[i].st \in RemoteStatuses /\ rows[i].linked \in BOOLEAN
    /\ job.task \in TaskRows /\ job.of \in 0 .. Len(rows)
    /\ video \in [keyed : BOOLEAN, loose : BOOLEAN]
    /\ createMu \subseteq Creators /\ resaved \subseteq DOMAIN rows

\* A client may replay its request after a crash between the writes of the
\* row and of the job, while an earlier request still runs, and beside the
\* requests that cancel, retry and delete: there is one download for the
\* URL, a request that was answered left it with a job of its own, and no
\* download is linked to the job of another.  Only a Save of a row that was
\* deleted since it was loaded makes a second one, and only the Save of a
\* canceled row that was not linked when it was loaded takes the link away:
\* those rows, resaved, are excepted from the first two.
ReplayKeepsBatch ==
    /\ \A i, j \in Rows \ resaved : i = j
    /\ \A c \in Creators : creators[c].pc = "answered" /\ creators[c].row \in Rows \ resaved
                            => rows[creators[c].row].linked
    /\ \A i \in Rows : rows[i].linked => job.of = i

\* A download that says it is completed has its video, through cancellations
\* that arrive while the import commits, the timeout of the download,
\* retries, deletions under the handler and crashes.
CompletedHasVideo == \A i \in Rows : rows[i].st = "completed" => video.keyed
=============================================================================
