-------------------------- MODULE PreparedDownloads --------------------------
(***************************************************************************)
(* The prepared downloads of one selection of tracks of one link: the      *)
(* requests that create or reuse a preparation, the download.prepare       *)
(* handler that assembles its file, and everything that takes it away:     *)
(* expiry by the clean-up or by a request, the sweep of old files,         *)
(* cancellation, the deletion of the link and the administrator's switch.  *)
(*                                                                         *)
(* prep[i] is row i with its task, the handler that works on it and its    *)
(* output file: out says that output_path is recorded, aged that           *)
(* expires_at has passed, file that the file exists, old that it has not   *)
(* been written for an hour, pulled that an expiry took it.                *)
(***************************************************************************)
EXTENDS DurableTask

CONSTANTS MaxPreparations,   \* rows made for the selection
          MaxPrepFaults      \* failures, crashes, requests and expiries together

ASSUME PreparedAssumption == MaxPreparations \in Nat \ {0} /\ MaxPrepFaults \in Nat

VARIABLES prep, asks, reaper, sweep, linkThere, downloadsOn, prepFaults

preparedVars == <<prep, asks, reaper, sweep, linkThere, downloadsOn, prepFaults>>

Preps == 1 .. MaxPreparations
ActivePreparation == {"queued", "preparing", "ready"}
TerminalPreparation == {"failed", "canceled", "expired"}
NewPreparation == [st |-> "none", linked |-> FALSE, out |-> FALSE, aged |-> FALSE,
                   task |-> NoTaskRow,
                   pc |-> "idle", ctx |-> "live", had |-> FALSE, err |-> "ok",
                   file |-> FALSE, old |-> FALSE, pulled |-> FALSE]
NoReaper == [pc |-> "idle", row |-> 0, out |-> FALSE]

PreparedInit ==
    /\ prep = [i \in Preps |-> NewPreparation]
    /\ asks = [pc |-> "idle", row |-> 0] /\ reaper = NoReaper /\ sweep = {}
    /\ linkThere = TRUE /\ downloadsOn = TRUE /\ prepFaults = 0

PrepFault == prepFaults < MaxPrepFaults /\ prepFaults' = prepFaults + 1
Preparing(i, pc) == prep[i].pc = pc

-----------------------------------------------------------------------------
\* CreateDownloadJob: a row that is under way or ready with its file is
\* reused, else one is made, in one transaction ...
Reusable(i) == \/ prep[i].st \in {"queued", "preparing"}
               \/ prep[i].st = "ready" /\ ~ prep[i].aged /\ prep[i].out /\ prep[i].file

CreateDownloadJob ==
    /\ asks.pc = "idle" /\ downloadsOn /\ linkThere
    /\ \/ \E i \in Preps : /\ Reusable(i) /\ ~ prep[i].linked /\ prep[i].st # "ready"
                           /\ asks' = [pc |-> "enqueue", row |-> i] /\ UNCHANGED prep
       \/ \E i \in Preps : /\ ~ \E j \in Preps : Reusable(j)
                           /\ prep[i].st = "none" /\ \A j \in 1 .. (i - 1) : prep[j].st # "none"
                           /\ prep' = [prep EXCEPT ![i].st = "queued"]
                           /\ asks' = [pc |-> "enqueue", row |-> i]
    /\ UNCHANGED <<reaper, sweep, linkThere, downloadsOn, prepFaults>>

\* ... and a row without a job gets the one under its key, then its name.
PrepareEnqueue ==
    /\ asks.pc = "enqueue"
    /\ prep' = [prep EXCEPT ![asks.row].task = IF @.st = "none" THEN NewTaskRow ELSE @]
    /\ asks' = [asks EXCEPT !.pc = "link"]
    /\ UNCHANGED <<reaper, sweep, linkThere, downloadsOn, prepFaults>>
PrepareLink ==
    /\ asks.pc = "link"
    /\ prep' = [prep EXCEPT ![asks.row].linked = TRUE]
    /\ asks' = [pc |-> "idle", row |-> 0]
    /\ UNCHANGED <<reaper, sweep, linkThere, downloadsOn, prepFaults>>

-----------------------------------------------------------------------------
\* downloadPreparationHandler.
PrepareReturns(r, how) ==
    [r EXCEPT !.task = FinishedRow(r.task, how), !.pc = "idle", !.ctx = "live", !.had = FALSE,
              !.err = "ok"]
Deliverable(i) == prep[i].st = "ready" /\ ~ prep[i].aged /\ prep[i].out /\ prep[i].file
OnlyPrep(i, r) ==
    /\ prep' = [prep EXCEPT ![i] = r]
    /\ UNCHANGED <<asks, reaper, sweep, linkThere, downloadsOn>>

PrepareClaimed(i) ==
    /\ Preparing(i, "idle") /\ Claimable(prep[i].task) /\ UNCHANGED prepFaults
    /\ OnlyPrep(i, [prep[i] EXCEPT !.task = Claimed(@), !.pc = "start"])

PrepareStarts(i) ==
    /\ Preparing(i, "start")
    /\ \/ /\ ~ downloadsOn /\ UNCHANGED prepFaults /\ OnlyPrep(i, PrepareReturns(prep[i], "canceled"))
       \/ /\ downloadsOn /\ prep[i].st = "purged" /\ UNCHANGED prepFaults
          /\ OnlyPrep(i, PrepareReturns(prep[i], "permanent"))
       \/ /\ downloadsOn /\ Deliverable(i) /\ UNCHANGED prepFaults
          /\ OnlyPrep(i, PrepareReturns(prep[i], "ok"))
       \/ /\ downloadsOn /\ prep[i].st # "purged" /\ ~ Deliverable(i) /\ UNCHANGED prepFaults
          /\ OnlyPrep(i, [prep[i] EXCEPT !.st = "preparing", !.linked = TRUE, !.pc = "process",
                                         !.had = @ \/ prep[i].out])
       \/ /\ downloadsOn /\ PrepFault /\ OnlyPrep(i, PrepareReturns(prep[i], "transient"))

\* A row that is preparing fails; one that was canceled meanwhile stays so.
FailDownloadJob(r, err) == [r EXCEPT !.st = IF @ = "preparing" THEN "failed"
                                            ELSE @, !.err = err, !.pc = "after"]
\* cancelDownloadJob, with the output path of the row as it was loaded.
CancelDownloadJob(r, had) ==
    IF r.st \in ActivePreparation
    THEN [r EXCEPT !.st = "canceled", !.out = FALSE, !.file = @ /\ ~ had]
    ELSE [r EXCEPT !.file = @ /\ ~ had]

\* processDownloadPreparation: the link and the selection are looked up, and
\* what an earlier attempt left is removed ...
ProcessPreparation(i) ==
    /\ Preparing(i, "process")
    /\ \/ /\ ~ linkThere /\ UNCHANGED prepFaults
          /\ OnlyPrep(i, [CancelDownloadJob(prep[i], prep[i].had) EXCEPT !.pc = "after"])
       \/ linkThere /\ PrepFault /\ OnlyPrep(i, FailDownloadJob(prep[i], "permanent"))
       \/ /\ linkThere /\ UNCHANGED prepFaults
          /\ OnlyPrep(i, [prep[i] EXCEPT !.file = FALSE, !.pc = "assemble"])

\* ... the tracks are fetched and assembled and the part gets its name ...
Assemble(i) ==
    /\ Preparing(i, "assemble")
    /\ \/ prep[i].ctx # "live" /\ UNCHANGED prepFaults /\ OnlyPrep(i, [prep[i] EXCEPT !.pc = "after"])
       \/ /\ prep[i].ctx = "live" /\ PrepFault
          /\ \E err \in {"transient", "permanent"} : OnlyPrep(i, FailDownloadJob(prep[i], err))
       \/ /\ UNCHANGED prepFaults
          /\ OnlyPrep(i, [prep[i] EXCEPT !.file = TRUE, !.old = FALSE, !.pulled = FALSE,
                                         !.pc = "publish"])

\* ... and the row becomes ready unless it was taken away meanwhile.
PublishPreparation(i) ==
    /\ Preparing(i, "publish") /\ UNCHANGED prepFaults
    /\ IF prep[i].st = "preparing"
       THEN OnlyPrep(i, [prep[i] EXCEPT !.st = "ready", !.out = TRUE, !.aged = FALSE,
                                        !.pc = "after"])
       ELSE OnlyPrep(i, [prep[i] EXCEPT !.file = FALSE, !.pc = "after"])

\* The rest of the handler.
PreparationReturns(i) ==
    LET r == prep[i]
    IN /\ Preparing(i, "after") /\ UNCHANGED prepFaults
       /\ IF r.ctx # "live" THEN OnlyPrep(i, PrepareReturns(CancelDownloadJob(r, r.had), r.ctx))
          ELSE OnlyPrep(i, PrepareReturns(r, CASE r.st = "ready" -> "ok" [] r.st = "canceled" -> "canceled"
                                               [] r.st = "purged" -> "transient" [] OTHER -> r.err))

-----------------------------------------------------------------------------
\* A preparation ages, and so does its file: an hour is longer than the one
\* write that follows its naming, and a sweep measures it at its start.
Ages(i) ==
    /\ prep[i].st = "ready" /\ ~ prep[i].aged /\ PrepFault
    /\ OnlyPrep(i, [prep[i] EXCEPT !.aged = TRUE, !.old = TRUE])
FileAges(i) ==
    /\ prep[i].file /\ ~ prep[i].old /\ ~ Preparing(i, "publish") /\ sweep = {}
    /\ PrepFault /\ OnlyPrep(i, [prep[i] EXCEPT !.old = TRUE])

\* Expiry, by the clean-up or by expireDownloadJobIfNeeded: a row that was
\* loaded ready and expired loses its file, then it is recorded.
ReapExpired(i) ==
    /\ reaper.pc = "idle" /\ prep[i].st = "ready" /\ prep[i].aged
    /\ reaper' = [pc |-> "remove", row |-> i, out |-> prep[i].out]
    /\ UNCHANGED <<prep, asks, sweep, linkThere, downloadsOn, prepFaults>>
RemoveExpired ==
    /\ reaper.pc = "remove"
    /\ prep' = [prep EXCEPT ![reaper.row].file = FALSE, ![reaper.row].pulled = TRUE]
    /\ reaper' = [reaper EXCEPT !.pc = "record"]
    /\ UNCHANGED <<asks, sweep, linkThere, downloadsOn, prepFaults>>
RecordExpired ==
    /\ reaper.pc = "record"
    /\ prep' = [prep EXCEPT ![reaper.row].st = IF @ = "purged" THEN @
                                               ELSE "expired", ![reaper.row].out = FALSE]
    /\ reaper' = NoReaper
    /\ UNCHANGED <<asks, sweep, linkThere, downloadsOn, prepFaults>>

\* runDownloadPreparationCleanup and CancelDownloadPreparationsForFile: the
\* rows of a link that is gone are loaded, their handlers stopped, canceled.
DeleteLink ==
    /\ linkThere /\ PrepFault /\ linkThere' = FALSE
    /\ UNCHANGED <<prep, asks, reaper, sweep, downloadsOn>>
ReapInvalid(i) ==
    /\ reaper.pc = "idle" /\ ~ linkThere /\ prep[i].st \in ActivePreparation
    /\ reaper' = [pc |-> "cancel", row |-> i, out |-> prep[i].out]
    /\ UNCHANGED <<prep, asks, sweep, linkThere, downloadsOn, prepFaults>>
StoppedTask(r, how) == IF r.pc # "idle" /\ r.ctx = "live" THEN [r EXCEPT !.ctx = how] ELSE r
StoppedPrep(r, how) ==
    IF r.pc # "start" THEN StoppedTask(r, how) ELSE r
CancelInvalid ==
    /\ reaper.pc = "cancel"
    /\ prep' = [prep EXCEPT ![reaper.row] = CancelDownloadJob(StoppedPrep(@, "canceled"), reaper.out)]
    /\ reaper' = NoReaper
    /\ UNCHANGED <<asks, sweep, linkThere, downloadsOn, prepFaults>>

Purge(i) ==
    /\ prep[i].st \in TerminalPreparation /\ PrepFault
    /\ OnlyPrep(i, [prep[i] EXCEPT !.st = "purged"])

\* Mutant: files of ready preparations are not protected.
ReferencedWhilePreparing(i) == prep[i].st = "preparing" /\ prep[i].out

\* removeOrphanedDownloadJobFiles: the old files no row names are listed,
\* then those that were not written again are removed.
ReferencedFiles(i) == prep[i].st \in {"preparing", "ready"} /\ prep[i].out
SweepReads ==
    /\ sweep = {} /\ sweep' = {i \in Preps : prep[i].file /\ prep[i].old /\ ~ ReferencedFiles(i)} /\ sweep' # {}
    /\ UNCHANGED <<prep, asks, reaper, linkThere, downloadsOn, prepFaults>>
SweepRemoves(i) ==
    /\ i \in sweep /\ sweep' = sweep \ {i}
    /\ prep' = [prep EXCEPT ![i].file = @ /\ ~ prep[i].old]
    /\ UNCHANGED <<asks, reaper, linkThere, downloadsOn, prepFaults>>

-----------------------------------------------------------------------------
\* CancelJob and RetryJob of the runtime, the switch, stops and crashes.
CanceledPrep(r) == [StoppedTask(r, "canceled") EXCEPT !.task = CanceledRow(@)]
CancelPreparation(i) ==
    /\ prep[i].task.st \in TaskOpen /\ PrepFault /\ OnlyPrep(i, CanceledPrep(prep[i]))
RetryPreparation(i) ==
    /\ prep[i].task.st \in {"failed", "canceled"} /\ PrepFault
    /\ OnlyPrep(i, [prep[i] EXCEPT !.task = RetriedRow(@)])
DisableDownloads ==
    /\ downloadsOn /\ downloadsOn' = FALSE /\ PrepFault
    /\ prep' = [i \in Preps |-> IF prep[i].task.st \in TaskOpen THEN CanceledPrep(prep[i])
                                ELSE prep[i]]
    /\ UNCHANGED <<asks, reaper, sweep, linkThere>>
EnableDownloads ==
    /\ ~ downloadsOn /\ downloadsOn' = TRUE
    /\ UNCHANGED <<prep, asks, reaper, sweep, linkThere, prepFaults>>
PreparerStops ==
    /\ PrepFault /\ prep' = [i \in Preps |-> StoppedTask(prep[i], "interrupted")] /\ prep' # prep
    /\ UNCHANGED <<asks, reaper, sweep, linkThere, downloadsOn>>
PreparerCrash ==
    /\ PrepFault
    /\ prep' = [i \in Preps |-> [prep[i] EXCEPT !.task = RecoveredRow(@), !.pc = "idle",
                                                !.ctx = "live",
                                                !.had = FALSE, !.err = "ok"]]
    /\ asks' = [pc |-> "idle", row |-> 0] /\ reaper' = NoReaper /\ sweep' = {}
    /\ <<prep, asks, reaper, sweep>>' # <<prep, asks, reaper, sweep>>
    /\ UNCHANGED <<linkThere, downloadsOn>>

PreparedNext ==
    \/ CreateDownloadJob \/ PrepareEnqueue \/ PrepareLink
    \/ \E i \in Preps :
        \/ PrepareClaimed(i) \/ PrepareStarts(i) \/ ProcessPreparation(i) \/ Assemble(i)
        \/ PublishPreparation(i) \/ PreparationReturns(i) \/ Ages(i) \/ FileAges(i) \/ ReapExpired(i)
        \/ ReapInvalid(i) \/ Purge(i) \/ SweepRemoves(i) \/ CancelPreparation(i) \/ RetryPreparation(i)
    \/ RemoveExpired \/ RecordExpired \/ DeleteLink \/ CancelInvalid \/ SweepReads
    \/ DisableDownloads \/ EnableDownloads \/ PreparerStops \/ PreparerCrash

PreparedSpec == PreparedInit /\ [][PreparedNext]_preparedVars

-----------------------------------------------------------------------------
\* Every piece of state has its type.
PreparedTypeOK ==
    /\ \A i \in Preps : /\ prep[i].st \in ActivePreparation \cup TerminalPreparation \cup {"none", "purged"}
                        /\ prep[i].task \in TaskRows
                        /\ prep[i].st = "none" => prep[i] = NewPreparation
    /\ asks.row \in 0 .. MaxPreparations /\ reaper.row \in 0 .. MaxPreparations /\ sweep \subseteq Preps

\* A preparation that is offered as ready has its file, whatever was swept,
\* canceled, retried or interrupted, unless its time has run out or an expiry
\* that began before it was prepared again took the file.
ReadyHasFile ==
    \A i \in Preps : prep[i].st = "ready" /\ ~ prep[i].aged /\ ~ prep[i].pulled => prep[i].file
=============================================================================
