---------------------------- MODULE TrafficRecorder ----------------------------
(***************************************************************************)
(* The traffic recorder (traffic/recorder.go): requests are counted per    *)
(* key in memory and rolled up into the database in batches, by the flush  *)
(* loop and at last by Shutdown.                                           *)
(*                                                                         *)
(* The counts stand for the requests and bytes of an aggregate, which      *)
(* change together; a key is in a map when its count is not zero.  Each    *)
(* critical section of Recorder.mu is one step, the transaction another.   *)
(***************************************************************************)
EXTENDS Integers, FiniteSets

CONSTANTS
    Key,         \* aggregateKey
    MaxPending,  \* Options.MaxPending
    BatchSize,   \* DefaultFlushBatchSize
    MaxEvents    \* bound: events recorded for one key

ASSUME RecorderAssumption ==
    /\ IsFiniteSet(Key)
    /\ MaxPending \in Nat \ {0} /\ BatchSize \in Nat \ {0} /\ MaxEvents \in Nat

VARIABLES
    pending,       \* Recorder.pending
    inflight,      \* Recorder.inflight
    inflightKeys,  \* Recorder.inflightKeys
    stopped,       \* Recorder.stopped, and the stop channel is closed
    batch,         \* the batch of the flushBatch that holds flushMu
    flushMu,       \* who holds flushMu
    at,            \* the flush loop and the caller of Shutdown
    db,            \* the rows of traffic_logs
    offered,       \* the events given to Record so far
    dropped        \* the ones it dropped

recorderVars == <<pending, inflight, inflightKeys, stopped, batch, flushMu, at, db, offered, dropped>>

Flusher == {"loop", "shutdown"}

(* waiting is run's select, or the caller of Shutdown before done is        *)
(* closed; flush, txn, committed and rolledback are steps of flushBatch.    *)
FlusherSteps == {"waiting", "flush", "txn", "committed", "rolledback", "returned", "failed", "none"}

Counts == [Key -> Nat]
Zero == [k \in Key |-> 0]

(* The keys of a map. *)
Keys(c) == {k \in Key : c[k] > 0}

RecorderTypeOK ==
    /\ pending \in Counts /\ batch \in Counts /\ db \in Counts
    /\ offered \in Counts /\ dropped \in Counts
    /\ inflight \in Nat /\ inflightKeys \subseteq Key
    /\ stopped \in BOOLEAN
    /\ flushMu \in Flusher \cup {"free"}
    /\ at \in [Flusher -> FlusherSteps]

(* NewRecorder starts the loop. *)
RecorderInit ==
    /\ pending = Zero /\ batch = Zero /\ db = Zero
    /\ offered = Zero /\ dropped = Zero
    /\ inflight = 0 /\ inflightKeys = {}
    /\ stopped = FALSE
    /\ flushMu = "free"
    /\ at = [f \in Flusher |-> IF f = "loop" THEN "waiting" ELSE "none"]

-----------------------------------------------------------------------------

(* Mutant: the keys that are being flushed are not counted. *)
RefusedByPendingOnly(k) ==
    \/ stopped
    \/ pending[k] = 0 /\ k \notin inflightKeys /\ Cardinality(Keys(pending)) >= MaxPending

(* No new key is taken into a full buffer, and nothing after Shutdown. *)
Refused(k) ==
    \/ stopped
    \/ /\ pending[k] = 0 /\ k \notin inflightKeys
       /\ Cardinality(Keys(pending)) + inflight >= MaxPending

Record(k) ==
    /\ offered[k] < MaxEvents
    /\ offered' = [offered EXCEPT ![k] = @ + 1]
    /\ IF Refused(k)
       THEN /\ dropped' = [dropped EXCEPT ![k] = @ + 1]
            /\ UNCHANGED pending
       ELSE /\ pending' = [pending EXCEPT ![k] = @ + 1]
            /\ UNCHANGED dropped
    /\ UNCHANGED <<inflight, inflightKeys, stopped, batch, flushMu, at, db>>

-----------------------------------------------------------------------------
(* flushBatch, on behalf of the loop or of Shutdown.                       *)

(* What the caller of flushBatch does with its result: the loop goes back   *)
(* to its select, Flush in Shutdown goes on while anything remains.         *)
After(f, remaining, err) ==
    at' = [at EXCEPT ![f] = CASE f = "loop" -> "waiting"
                              [] f = "shutdown" /\ err -> "failed"
                              [] f = "shutdown" /\ ~err /\ remaining -> "flush"
                              [] f = "shutdown" /\ ~err /\ ~remaining -> "returned"]

FlushNothing(f) ==
    /\ at[f] = "flush" /\ flushMu = "free"
    /\ Keys(pending) = {}
    /\ After(f, FALSE, FALSE)
    /\ UNCHANGED <<pending, inflight, inflightKeys, stopped, batch, flushMu, db, offered, dropped>>

(* Any BatchSize of the keys: the iteration over a map has no order. *)
Batches ==
    {B \in SUBSET Keys(pending) :
        \/ B = Keys(pending) /\ Cardinality(B) <= BatchSize
        \/ Cardinality(B) = BatchSize}

TakeBatch(f) ==
    /\ at[f] = "flush" /\ flushMu = "free"
    /\ Keys(pending) # {}
    /\ \E B \in Batches :
         /\ batch' = [k \in Key |-> IF k \in B THEN pending[k] ELSE 0]
         /\ pending' = [k \in Key |-> IF k \in B THEN 0 ELSE pending[k]]
         /\ inflight' = Cardinality(B)
         /\ inflightKeys' = B
    /\ flushMu' = f
    /\ at' = [at EXCEPT ![f] = "txn"]
    /\ UNCHANGED <<stopped, db, offered, dropped>>

(* The transaction adds the batch to the rows of its keys, or does nothing. *)
Commit(f) ==
    /\ at[f] = "txn"
    /\ db' = [k \in Key |-> db[k] + batch[k]]
    /\ at' = [at EXCEPT ![f] = "committed"]
    /\ UNCHANGED <<pending, inflight, inflightKeys, stopped, batch, flushMu, offered, dropped>>

Rollback(f) ==
    /\ at[f] = "txn"
    /\ at' = [at EXCEPT ![f] = "rolledback"]
    /\ UNCHANGED <<pending, inflight, inflightKeys, stopped, batch, flushMu, db, offered, dropped>>

(* Mutant: Flush stops after the first batch. *)
BatchCommittedOnce(f) ==
    /\ at[f] = "committed"
    /\ inflight' = 0 /\ inflightKeys' = {}
    /\ batch' = Zero
    /\ flushMu' = "free"
    /\ After(f, FALSE, FALSE)
    /\ UNCHANGED <<pending, stopped, db, offered, dropped>>

(* Back under mu, after a transaction that succeeded. *)
BatchCommitted(f) ==
    /\ at[f] = "committed"
    /\ inflight' = 0 /\ inflightKeys' = {}
    /\ batch' = Zero
    /\ flushMu' = "free"
    /\ After(f, Keys(pending) # {}, FALSE)
    /\ UNCHANGED <<pending, stopped, db, offered, dropped>>

(* Mutant: a failed batch replaces what was counted meanwhile. *)
BatchRestored(f) ==
    /\ at[f] = "rolledback"
    /\ pending' = [k \in Key |-> IF batch[k] > 0 THEN batch[k] ELSE pending[k]]
    /\ inflight' = 0 /\ inflightKeys' = {}
    /\ batch' = Zero
    /\ flushMu' = "free"
    /\ After(f, TRUE, TRUE)
    /\ UNCHANGED <<stopped, db, offered, dropped>>

(* After one that failed: the batch is added to what came meanwhile. *)
BatchMerged(f) ==
    /\ at[f] = "rolledback"
    /\ pending' = [k \in Key |-> pending[k] + batch[k]]
    /\ inflight' = 0 /\ inflightKeys' = {}
    /\ batch' = Zero
    /\ flushMu' = "free"
    /\ After(f, TRUE, TRUE)
    /\ UNCHANGED <<stopped, db, offered, dropped>>

FlushBatch(f) ==
    FlushNothing(f) \/ TakeBatch(f) \/ Commit(f) \/ Rollback(f) \/ BatchCommitted(f) \/ BatchMerged(f)

-----------------------------------------------------------------------------
(* The loop, and Shutdown.                                                 *)

(* The ticker or the wake channel. *)
LoopWakes ==
    /\ at["loop"] = "waiting"
    /\ at' = [at EXCEPT !["loop"] = "flush"]
    /\ UNCHANGED <<pending, inflight, inflightKeys, stopped, batch, flushMu, db, offered, dropped>>

LoopStops ==
    /\ at["loop"] = "waiting"
    /\ stopped
    /\ at' = [at EXCEPT !["loop"] = "returned"]
    /\ UNCHANGED <<pending, inflight, inflightKeys, stopped, batch, flushMu, db, offered, dropped>>

Shutdown ==
    /\ at["shutdown"] = "none"
    /\ stopped' = TRUE
    /\ at' = [at EXCEPT !["shutdown"] = "waiting"]
    /\ UNCHANGED <<pending, inflight, inflightKeys, batch, flushMu, db, offered, dropped>>

(* Mutant: Shutdown only waits for the loop. *)
ShutdownWithoutFlush ==
    /\ at["shutdown"] = "waiting"
    /\ at["loop"] = "returned"
    /\ at' = [at EXCEPT !["shutdown"] = "returned"]
    /\ UNCHANGED <<pending, inflight, inflightKeys, stopped, batch, flushMu, db, offered, dropped>>

(* The loop is done: one last Flush. *)
ShutdownFlush ==
    /\ at["shutdown"] = "waiting"
    /\ at["loop"] = "returned"
    /\ at' = [at EXCEPT !["shutdown"] = "flush"]
    /\ UNCHANGED <<pending, inflight, inflightKeys, stopped, batch, flushMu, db, offered, dropped>>

(* The context of Shutdown expires first. *)
ShutdownTimesOut ==
    /\ at["shutdown"] = "waiting"
    /\ at' = [at EXCEPT !["shutdown"] = "failed"]
    /\ UNCHANGED <<pending, inflight, inflightKeys, stopped, batch, flushMu, db, offered, dropped>>

RecorderNext ==
    \/ \E k \in Key : Record(k)
    \/ \E f \in Flusher : FlushBatch(f)
    \/ LoopWakes \/ LoopStops
    \/ Shutdown \/ ShutdownFlush \/ ShutdownTimesOut

RecorderSpec == RecorderInit /\ [][RecorderNext]_recorderVars

(* The ticker fires, goroutines run, and a transaction that is tried again  *)
(* and again succeeds in the end.                                           *)
RecorderFairness ==
    /\ \A f \in Flusher : WF_recorderVars(FlushBatch(f)) /\ SF_recorderVars(Commit(f))
    /\ WF_recorderVars(LoopWakes \/ LoopStops)
    /\ WF_recorderVars(ShutdownFlush)

RecorderFairSpec == RecorderSpec /\ RecorderFairness

-----------------------------------------------------------------------------

(* The part of the batch the database does not have yet. *)
InFlight(k) == IF \E f \in Flusher : at[f] \in {"txn", "rolledback"} THEN batch[k] ELSE 0

(* No event is lost or counted twice, whatever is recorded while a batch    *)
(* is in flight and however often its transaction fails (flushBatch).       *)
Conservation ==
    \A k \in Key : offered[k] = dropped[k] + pending[k] + InFlight(k) + db[k]

(* The buffer never holds more keys than MaxPending, the keys of a batch    *)
(* that may yet come back included (Record).                                *)
BufferBounded == Cardinality(Keys(pending) \cup Keys(batch)) <= MaxPending

(* A Shutdown that reports success has left nothing behind: every event     *)
(* that was not dropped is in the database, then and ever after.            *)
ShutdownFlushes ==
    at["shutdown"] = "returned" => \A k \in Key : offered[k] = dropped[k] + db[k]

(* What is recorded reaches the database, unless Shutdown failed. *)
Delivered ==
    \A k \in Key :
        pending[k] > 0 ~> (pending[k] = 0 /\ InFlight(k) = 0) \/ at["shutdown"] = "failed"

=============================================================================
