----------------------------- MODULE MCServices -----------------------------
(* The registry of stores, the SFTP provider and the traffic recorder, which *)
(* share nothing: a behaviour is one of one of them.                         *)
(* Stores: the built-in one and one more name, two handles, two operations.  *)
(* Recorder: three keys for a buffer of two, flushed one at a time.          *)
(* SFTP: two callers of one store, and one fault.                            *)
EXTENDS StorageService, SFTPStore, TrafficRecorder

CONSTANTS local, remote, h1, h2, c1, c2, a, b, c

VARIABLE part

TwoIds == {local, remote}
ThreeKeys == {a, b, c}

serviceVars == <<part, vars, sftpVars, recorderVars>>

InStores(A) == part = "stores" /\ A /\ UNCHANGED <<part, sftpVars, recorderVars>>
InSFTP(A) == part = "sftp" /\ A /\ UNCHANGED <<part, vars, recorderVars>>
InRecorder(A) == part = "recorder" /\ A /\ UNCHANGED <<part, vars, sftpVars>>

ServicesInit ==
    /\ part \in {"stores", "sftp", "recorder"}
    /\ Init /\ SFTPInit /\ RecorderInit
    /\ part = "stores" \/ stores[local] = h1

ServicesNext == InStores(Next) \/ InSFTP(SFTPNext) \/ InRecorder(RecorderNext)

(* The fairness of each module, for the part that moves. *)
ServicesFairness ==
    /\ \A u \in Client : /\ WF_serviceVars(InStores(Acquire(u)))
                         /\ WF_serviceVars(InStores(Release(u)))
    /\ \A h \in Handle : /\ WF_serviceVars(InStores(Retire(h)))
                         /\ WF_serviceVars(InStores(CloseProvider(h)))
                         /\ WF_serviceVars(InStores(StoreClosed(h)))
                         /\ WF_serviceVars(InStores(CloseDone(h)))
                         /\ WF_serviceVars(InStores(CloseRetires(h)))
    /\ WF_serviceVars(InStores(CloseWaits)) /\ WF_serviceVars(InStores(CloseReturns))
    /\ \A u \in Caller : WF_serviceVars(InSFTP(CallGoesOn(u)))
    /\ \A g \in Generations : WF_serviceVars(InSFTP(Keepalive(g)))
    /\ WF_serviceVars(InSFTP(RetryDelayEnds)) /\ WF_serviceVars(InSFTP(CloseStoreReturns))
    /\ \A f \in Flusher : /\ WF_serviceVars(InRecorder(FlushBatch(f)))
                          /\ SF_serviceVars(InRecorder(Commit(f)))
    /\ WF_serviceVars(InRecorder(LoopWakes \/ LoopStops))
    /\ WF_serviceVars(InRecorder(ShutdownFlush))

ServicesSpec == ServicesInit /\ [][ServicesNext]_serviceVars /\ ServicesFairness
=============================================================================
