------------------------- MODULE TrafficRecorderProofs -------------------------
(***************************************************************************)
(* Proofs about the traffic recorder, for every set of keys and all sizes  *)
(* of the buffer and of a batch.                                           *)
(***************************************************************************)
EXTENDS TrafficRecorder, FiniteSetTheorems, TLAPS

InBatch == {"txn", "committed", "rolledback"}

(* flushMu is held exactly by the flushBatch that has a batch, and the       *)
(* fields about it describe that batch.                                      *)
FlushLocked ==
    /\ \A f \in Flusher : at[f] \in InBatch <=> flushMu = f
    /\ inflightKeys = Keys(batch)
    /\ inflight = Cardinality(Keys(batch))
    /\ flushMu = "free" => batch = Zero

LockInv == RecorderTypeOK /\ FlushLocked

(* After the stop signal: who may still be running, and what Shutdown has    *)
(* found.                                                                    *)
Stopping ==
    /\ at["loop"] = "returned" => stopped
    /\ at["shutdown"] # "none" => stopped
    /\ at["shutdown"] \in InBatch \cup {"flush", "returned"} => at["loop"] = "returned"
    /\ at["shutdown"] = "returned" => \A k \in Key : pending[k] = 0

-----------------------------------------------------------------------------

(* The keys of a map of counts form a finite set. *)
LEMMA KeysFinite ==
    ASSUME NEW c
    PROVE  /\ IsFiniteSet(Keys(c))
           /\ Cardinality(Keys(c)) \in Nat
  BY FS_Subset, FS_CardinalityType, RecorderAssumption DEF Keys

LEMMA KeysZero == Keys(Zero) = {} /\ Cardinality(Keys(Zero)) = 0
  <1>1. Keys(Zero) = {}
    BY DEF Keys, Zero
  <1> QED
    BY <1>1, FS_EmptySet

(* flushBatch leaves the batch it took behind for nobody else. *)
LEMMA LockInit == RecorderInit => LockInv
  <1> SUFFICES ASSUME RecorderInit PROVE LockInv
    OBVIOUS
  <1>1. RecorderTypeOK
    BY DEF RecorderInit, RecorderTypeOK, Counts, Zero, Flusher, FlusherSteps
  <1>2. FlushLocked
    BY KeysZero DEF RecorderInit, FlushLocked, InBatch, Flusher
  <1> QED
    BY <1>1, <1>2 DEF LockInv

LEMMA AfterStep ==
    ASSUME RecorderTypeOK, NEW f \in Flusher, NEW r \in BOOLEAN, NEW e \in BOOLEAN, After(f, r, e)
    PROVE  \E s \in {"waiting", "failed", "flush", "returned"} : at' = [at EXCEPT ![f] = s]
  BY DEF After, Flusher, RecorderTypeOK

LEMMA LockStep == LockInv /\ [RecorderNext]_recorderVars => LockInv'
  <1> SUFFICES ASSUME LockInv, [RecorderNext]_recorderVars PROVE LockInv'
    OBVIOUS
  <1> USE DEF LockInv
  <1>1. ASSUME NEW k \in Key, Record(k) PROVE LockInv'
    <2>1. RecorderTypeOK'
      BY <1>1 DEF Record, RecorderTypeOK, Counts
    <2>2. FlushLocked'
      BY <1>1 DEF Record, FlushLocked, Keys
    <2> QED
      BY <2>1, <2>2
  <1>2. ASSUME NEW f \in Flusher, FlushNothing(f) PROVE LockInv'
    <2>1. PICK s \in {"waiting", "failed", "flush", "returned"} : at' = [at EXCEPT ![f] = s]
      BY <1>2, AfterStep DEF FlushNothing
    <2>2. RecorderTypeOK'
      BY <1>2, <2>1 DEF FlushNothing, RecorderTypeOK, FlusherSteps
    <2>3. FlushLocked'
      BY <1>2, <2>1 DEF FlushNothing, FlushLocked, Keys, InBatch, RecorderTypeOK, Flusher
    <2> QED
      BY <2>2, <2>3
  <1>3. ASSUME NEW f \in Flusher, TakeBatch(f) PROVE LockInv'
    <2>1. PICK B \in Batches :
            /\ batch' = [k \in Key |-> IF k \in B THEN pending[k] ELSE 0]
            /\ pending' = [k \in Key |-> IF k \in B THEN 0 ELSE pending[k]]
            /\ inflight' = Cardinality(B)
            /\ inflightKeys' = B
      BY <1>3 DEF TakeBatch
    <2>2. B \subseteq Key /\ \A k \in B : pending[k] > 0
      BY DEF Batches, Keys
    <2>3. Keys(batch') = B
      BY <2>1, <2>2 DEF Keys
    <2>4. Cardinality(B) \in Nat
      BY <2>3, KeysFinite
    <2>5. batch' \in Counts /\ pending' \in Counts
      BY <2>1 DEF RecorderTypeOK, Counts
    <2>6. RecorderTypeOK'
      BY <1>3, <2>1, <2>2, <2>4, <2>5 DEF TakeBatch, RecorderTypeOK, FlusherSteps
    <2>7. (\A g \in Flusher : at[g] \in InBatch <=> flushMu = g)'
      BY <1>3 DEF TakeBatch, FlushLocked, RecorderTypeOK, InBatch, Flusher
    <2>8. FlushLocked'
      <3>1. Keys(batch)' = B
        BY <2>3 DEF Keys
      <3>2. flushMu' = f /\ f # "free"
        BY <1>3 DEF TakeBatch, Flusher
      <3> QED
        BY <2>1, <2>7, <3>1, <3>2 DEF FlushLocked
    <2> QED
      BY <2>6, <2>8
  <1>4. ASSUME NEW f \in Flusher, Commit(f) PROVE LockInv'
    <2>1. db' \in Counts
      BY <1>4 DEF Commit, RecorderTypeOK, Counts
    <2>2. RecorderTypeOK'
      BY <1>4, <2>1 DEF Commit, RecorderTypeOK, FlusherSteps
    <2>3. FlushLocked'
      BY <1>4 DEF Commit, FlushLocked, Keys, InBatch, RecorderTypeOK, Flusher
    <2> QED
      BY <2>2, <2>3
  <1>5. ASSUME NEW f \in Flusher, Rollback(f) PROVE LockInv'
    <2>2. RecorderTypeOK'
      BY <1>5 DEF Rollback, RecorderTypeOK, FlusherSteps
    <2>3. FlushLocked'
      BY <1>5 DEF Rollback, FlushLocked, Keys, InBatch, RecorderTypeOK, Flusher
    <2> QED
      BY <2>2, <2>3
  <1>6. ASSUME NEW f \in Flusher, BatchCommitted(f) \/ BatchMerged(f) PROVE LockInv'
    <2>1. PICK s \in {"waiting", "failed", "flush", "returned"} : at' = [at EXCEPT ![f] = s]
      BY <1>6, AfterStep DEF BatchCommitted, BatchMerged
    <2>2. pending' \in Counts
      <3>1. CASE BatchCommitted(f)
        BY <3>1 DEF BatchCommitted, RecorderTypeOK
      <3>2. CASE BatchMerged(f)
        <4>1. pending' = [k \in Key |-> pending[k] + batch[k]]
          BY <3>2 DEF BatchMerged
        <4> QED
          BY <4>1 DEF RecorderTypeOK, Counts
      <3> QED
        BY <1>6, <3>1, <3>2
    <2>3. /\ batch' = Zero /\ flushMu' = "free" /\ inflight' = 0 /\ inflightKeys' = {}
          /\ UNCHANGED <<stopped, db, offered, dropped>>
          /\ at[f] \in InBatch
      BY <1>6 DEF BatchCommitted, BatchMerged, InBatch
    <2>4. RecorderTypeOK'
      BY <2>1, <2>2, <2>3 DEF RecorderTypeOK, FlusherSteps, Counts, Zero
    <2>5. \A g \in Flusher : g # f => at[g] \notin InBatch
      BY <2>3 DEF FlushLocked, Flusher
    <2>6. \A g \in Flusher : at'[g] \notin InBatch
      BY <2>1, <2>5 DEF InBatch, RecorderTypeOK
    <2>7. Keys(batch)' = {} /\ Cardinality(Keys(batch)') = 0
      BY <2>3, KeysZero DEF Keys, Zero
    <2>8. FlushLocked'
      BY <2>3, <2>6, <2>7 DEF FlushLocked, Zero, Flusher
    <2> QED
      BY <2>4, <2>8
  <1>7. CASE LoopWakes \/ LoopStops \/ Shutdown \/ ShutdownFlush \/ ShutdownTimesOut
    <2>1. PICK f \in Flusher, s \in FlusherSteps \ InBatch :
             at' = [at EXCEPT ![f] = s] /\ at[f] \notin InBatch
      BY <1>7 DEF LoopWakes, LoopStops, Shutdown, ShutdownFlush, ShutdownTimesOut, Flusher, FlusherSteps, InBatch
    <2>2. UNCHANGED <<pending, inflight, inflightKeys, batch, flushMu, db, offered, dropped>>
      BY <1>7 DEF LoopWakes, LoopStops, Shutdown, ShutdownFlush, ShutdownTimesOut
    <2>3. stopped' \in BOOLEAN
      BY <1>7 DEF LoopWakes, LoopStops, Shutdown, ShutdownFlush, ShutdownTimesOut, RecorderTypeOK
    <2>4. RecorderTypeOK'
      BY <2>1, <2>2, <2>3 DEF RecorderTypeOK
    <2>5. FlushLocked'
      BY <2>1, <2>2 DEF FlushLocked, Keys, RecorderTypeOK
    <2> QED
      BY <2>4, <2>5
  <1>8. CASE UNCHANGED recorderVars
    BY <1>8 DEF recorderVars, RecorderTypeOK, FlushLocked, Keys
  <1> QED
    BY <1>1, <1>2, <1>3, <1>4, <1>5, <1>6, <1>7, <1>8 DEF RecorderNext, FlushBatch

(* Type correctness, and the fields that describe the batch in flight agree  *)
(* with it, whoever flushes (flushBatch, Recorder.flushMu).                  *)
THEOREM FlushIsExclusive == RecorderSpec => [](RecorderTypeOK /\ FlushLocked)
  <1>1. RecorderSpec => []LockInv
    BY LockInit, LockStep, PTL DEF RecorderSpec
  <1> QED
    BY <1>1, PTL DEF LockInv

-----------------------------------------------------------------------------
(* Conservation.                                                           *)

(* With the mutex held by a flusher, the batch counts as in flight until     *)
(* that flusher's transaction has committed.                                 *)
InFlightFacts ==
    \A k \in Key :
        /\ flushMu = "free" => InFlight(k) = 0 /\ batch[k] = 0
        /\ \A f \in Flusher : at[f] = "committed" => InFlight(k) = 0
        /\ \A f \in Flusher : at[f] \in {"txn", "rolledback"} => InFlight(k) = batch[k]

LEMMA InFlightIs == LockInv => InFlightFacts
  <1> SUFFICES ASSUME LockInv, NEW k \in Key
               PROVE  /\ flushMu = "free" => InFlight(k) = 0 /\ batch[k] = 0
                      /\ \A f \in Flusher : at[f] = "committed" => InFlight(k) = 0
                      /\ \A f \in Flusher : at[f] \in {"txn", "rolledback"} => InFlight(k) = batch[k]
    BY DEF InFlightFacts
  <1>1. flushMu = "free" => InFlight(k) = 0 /\ batch[k] = 0
    BY DEF InFlight, LockInv, FlushLocked, InBatch, Zero, Flusher
  <1>2. ASSUME NEW f \in Flusher, at[f] = "committed" PROVE InFlight(k) = 0
    <2>1. \A g \in Flusher : g # f => at[g] \notin InBatch
      BY <1>2 DEF LockInv, FlushLocked, InBatch
    <2> QED
      BY <1>2, <2>1 DEF InFlight, InBatch
  <1>3. ASSUME NEW f \in Flusher, at[f] \in {"txn", "rolledback"} PROVE InFlight(k) = batch[k]
    BY <1>3 DEF InFlight
  <1> QED
    BY <1>1, <1>2, <1>3

LEMMA ConservationStep ==
    LockInv /\ LockInv' /\ Conservation /\ [RecorderNext]_recorderVars => Conservation'
  <1> SUFFICES ASSUME LockInv, LockInv', Conservation, [RecorderNext]_recorderVars, NEW k \in Key
               PROVE  (offered[k] = dropped[k] + pending[k] + InFlight(k) + db[k])'
    BY DEF Conservation
  <1>t. /\ offered[k] \in Nat /\ dropped[k] \in Nat /\ pending[k] \in Nat /\ batch[k] \in Nat /\ db[k] \in Nat
        /\ InFlight(k) \in Nat
        /\ offered[k] = dropped[k] + pending[k] + InFlight(k) + db[k]
    BY DEF LockInv, RecorderTypeOK, Counts, InFlight, Conservation
  <1>h. /\ flushMu = "free" => InFlight(k) = 0 /\ batch[k] = 0
        /\ \A f \in Flusher : at[f] = "committed" => InFlight(k) = 0
        /\ \A f \in Flusher : at[f] \in {"txn", "rolledback"} => InFlight(k) = batch[k]
    BY InFlightIs DEF InFlightFacts
  <1>i. /\ (flushMu = "free" => InFlight(k) = 0 /\ batch[k] = 0)'
        /\ \A f \in Flusher : at'[f] = "committed" => InFlight(k)' = 0
        /\ \A f \in Flusher : at'[f] \in {"txn", "rolledback"} => InFlight(k)' = batch'[k]
    <2>1. InFlightFacts'
      BY InFlightIs, PTL
    <2> QED
      BY <2>1 DEF InFlightFacts
  <1>1. ASSUME NEW j \in Key, Record(j)
        PROVE  (offered[k] = dropped[k] + pending[k] + InFlight(k) + db[k])'
    <2>1. InFlight(k)' = InFlight(k) /\ db'[k] = db[k]
      BY <1>1 DEF Record, InFlight
    <2>2. CASE j # k
      BY <1>1, <1>t, <2>1, <2>2 DEF Record, LockInv, RecorderTypeOK, Counts
    <2>3. CASE j = k
      BY <1>1, <1>t, <2>1, <2>3 DEF Record, LockInv, RecorderTypeOK, Counts
    <2> QED
      BY <2>2, <2>3
  <1>2. ASSUME NEW f \in Flusher, FlushNothing(f)
        PROVE  (offered[k] = dropped[k] + pending[k] + InFlight(k) + db[k])'
    <2>1. flushMu = "free" /\ flushMu' = "free"
      BY <1>2 DEF FlushNothing
    <2>2. InFlight(k) = 0 /\ InFlight(k)' = 0
      BY <1>h, <1>i, <2>1
    <2> QED
      BY <1>2, <1>t, <2>2 DEF FlushNothing
  <1>3. ASSUME NEW f \in Flusher, TakeBatch(f)
        PROVE  (offered[k] = dropped[k] + pending[k] + InFlight(k) + db[k])'
    <2>1. InFlight(k) = 0
      BY <1>3, <1>h DEF TakeBatch
    <2>2. at'[f] = "txn"
      BY <1>3 DEF TakeBatch, LockInv, RecorderTypeOK
    <2>3. InFlight(k)' = batch'[k]
      BY <1>i, <2>2
    <2>4. pending'[k] + batch'[k] = pending[k]
      BY <1>3, <1>t DEF TakeBatch
    <2>5. pending'[k] \in Nat /\ batch'[k] \in Nat
      BY DEF LockInv, RecorderTypeOK, Counts
    <2>6. UNCHANGED <<db, offered, dropped>>
      BY <1>3 DEF TakeBatch
    <2> QED
      BY <1>t, <2>1, <2>3, <2>4, <2>5, <2>6
  <1>4. ASSUME NEW f \in Flusher, Commit(f)
        PROVE  (offered[k] = dropped[k] + pending[k] + InFlight(k) + db[k])'
    <2>1. at[f] = "txn" /\ at'[f] = "committed"
      BY <1>4 DEF Commit, LockInv, RecorderTypeOK
    <2>2. InFlight(k) = batch[k] /\ InFlight(k)' = 0
      BY <1>h, <1>i, <2>1
    <2> QED
      BY <1>4, <1>t, <2>2 DEF Commit
  <1>5. ASSUME NEW f \in Flusher, Rollback(f)
        PROVE  (offered[k] = dropped[k] + pending[k] + InFlight(k) + db[k])'
    <2>1. at[f] = "txn" /\ at'[f] = "rolledback"
      BY <1>5 DEF Rollback, LockInv, RecorderTypeOK
    <2>2. InFlight(k) = batch[k] /\ InFlight(k)' = batch'[k]
      BY <1>h, <1>i, <2>1
    <2> QED
      BY <1>5, <1>t, <2>2 DEF Rollback
  <1>6. ASSUME NEW f \in Flusher, BatchCommitted(f)
        PROVE  (offered[k] = dropped[k] + pending[k] + InFlight(k) + db[k])'
    <2>1. at[f] = "committed" /\ flushMu' = "free"
      BY <1>6 DEF BatchCommitted
    <2>2. InFlight(k) = 0 /\ InFlight(k)' = 0
      BY <1>h, <1>i, <2>1
    <2> QED
      BY <1>6, <1>t, <2>2 DEF BatchCommitted
  <1>7. ASSUME NEW f \in Flusher, BatchMerged(f)
        PROVE  (offered[k] = dropped[k] + pending[k] + InFlight(k) + db[k])'
    <2>1. at[f] = "rolledback" /\ flushMu' = "free"
      BY <1>7 DEF BatchMerged
    <2>2. InFlight(k) = batch[k] /\ InFlight(k)' = 0
      BY <1>h, <1>i, <2>1
    <2>3. pending'[k] = pending[k] + batch[k]
      BY <1>7 DEF BatchMerged
    <2> QED
      BY <1>7, <1>t, <2>2, <2>3 DEF BatchMerged
  <1>8. CASE LoopWakes \/ LoopStops \/ Shutdown \/ ShutdownFlush \/ ShutdownTimesOut
    <2>1. PICK f \in Flusher, s \in FlusherSteps \ InBatch :
             at' = [at EXCEPT ![f] = s] /\ at[f] \notin InBatch
      BY <1>8 DEF LoopWakes, LoopStops, Shutdown, ShutdownFlush, ShutdownTimesOut, Flusher, FlusherSteps, InBatch
    <2>2. UNCHANGED <<pending, batch, db, offered, dropped>>
      BY <1>8 DEF LoopWakes, LoopStops, Shutdown, ShutdownFlush, ShutdownTimesOut
    <2>3. InFlight(k)' = InFlight(k)
      BY <2>1, <2>2 DEF InFlight, InBatch, LockInv, RecorderTypeOK
    <2> QED
      BY <1>t, <2>2, <2>3
  <1>9. CASE UNCHANGED recorderVars
    BY <1>9, <1>t DEF recorderVars, InFlight
  <1> QED
    BY <1>1, <1>2, <1>3, <1>4, <1>5, <1>6, <1>7, <1>8, <1>9 DEF RecorderNext, FlushBatch

(* No event is lost or counted twice by a flush, whatever is recorded        *)
(* meanwhile and however often the transaction fails (flushBatch).           *)
THEOREM NothingLost == RecorderSpec => []Conservation
  <1>1. RecorderInit => Conservation
    <2> SUFFICES ASSUME RecorderInit, NEW k \in Key
                 PROVE  offered[k] = dropped[k] + pending[k] + InFlight(k) + db[k]
      BY DEF Conservation
    <2>1. InFlight(k) = 0
      BY DEF RecorderInit, InFlight, Zero
    <2> QED
      BY <2>1 DEF RecorderInit, Zero
  <1>2. RecorderSpec => []LockInv
    BY FlushIsExclusive, PTL DEF LockInv
  <1> QED
    BY <1>1, <1>2, ConservationStep, PTL DEF RecorderSpec

-----------------------------------------------------------------------------
(* The bound of the buffer.                                                *)

LEMMA BoundStep ==
    LockInv /\ LockInv' /\ BufferBounded /\ [RecorderNext]_recorderVars => BufferBounded'
  <1> SUFFICES ASSUME LockInv, LockInv', BufferBounded, [RecorderNext]_recorderVars PROVE BufferBounded'
    OBVIOUS
  <1> DEFINE U == Keys(pending) \cup Keys(batch)
  <1>f. /\ IsFiniteSet(U) /\ Cardinality(U) \in Nat
        /\ IsFiniteSet(Keys(pending)) /\ IsFiniteSet(Keys(batch))
        /\ Cardinality(Keys(pending)) \in Nat /\ Cardinality(Keys(batch)) \in Nat
    BY KeysFinite, FS_Union, FS_CardinalityType
  <1>t. pending \in Counts /\ batch \in Counts /\ pending' \in Counts /\ batch' \in Counts
    BY DEF LockInv, RecorderTypeOK
  <1>s. ASSUME U' \subseteq U PROVE BufferBounded'
    <2>1. Cardinality(U') \in Nat /\ Cardinality(U') <= Cardinality(U)
      BY <1>f, <1>s, FS_Subset, FS_CardinalityType
    <2> QED
      BY <1>f, <2>1, RecorderAssumption DEF BufferBounded
  <1>1. ASSUME NEW k \in Key, Record(k) PROVE BufferBounded'
    <2>1. CASE Refused(k)
      <3>1. U' = U
        BY <1>1, <2>1 DEF Record, Keys
      <3> QED
        BY <1>s, <3>1
    <2>2. CASE ~Refused(k) /\ k \in U
      <3>1. pending' = [pending EXCEPT ![k] = @ + 1] /\ batch' = batch
        BY <1>1, <2>2 DEF Record
      <3>2. U' \subseteq U
        BY <1>t, <2>2, <3>1 DEF Keys, Counts
      <3> QED
        BY <1>s, <3>2
    <2>3. CASE ~Refused(k) /\ k \notin U
      <3>1. pending' = [pending EXCEPT ![k] = @ + 1] /\ batch' = batch
        BY <1>1, <2>3 DEF Record
      <3>2. U' = U \cup {k}
        BY <1>t, <3>1 DEF Keys, Counts
      <3>3. Cardinality(Keys(pending)) + Cardinality(Keys(batch)) < MaxPending
        <4>1. pending[k] = 0 /\ k \notin inflightKeys /\ inflight = Cardinality(Keys(batch))
          BY <1>t, <2>3 DEF Keys, Counts, LockInv, FlushLocked
        <4> QED
          BY <1>f, <2>3, <4>1, RecorderAssumption DEF Refused
      <3>4. Cardinality(U) <= Cardinality(Keys(pending)) + Cardinality(Keys(batch))
        <4>1. Cardinality(U) = Cardinality(Keys(pending)) + Cardinality(Keys(batch))
                                - Cardinality(Keys(pending) \cap Keys(batch))
          BY <1>f, FS_Union
        <4>2. Cardinality(Keys(pending) \cap Keys(batch)) \in Nat
          BY <1>f, FS_Intersection, FS_CardinalityType
        <4> QED
          BY <1>f, <4>1, <4>2
      <3>5. Cardinality(U') = Cardinality(U) + 1
        BY <1>f, <2>3, <3>2, FS_AddElement
      <3> QED
        BY <1>f, <3>3, <3>4, <3>5, RecorderAssumption DEF BufferBounded
    <2> QED
      BY <2>1, <2>2, <2>3
  <1>2. ASSUME NEW f \in Flusher, TakeBatch(f) PROVE BufferBounded'
    <2>1. U' \subseteq U
      <3>1. PICK B \in Batches :
              /\ batch' = [k \in Key |-> IF k \in B THEN pending[k] ELSE 0]
              /\ pending' = [k \in Key |-> IF k \in B THEN 0 ELSE pending[k]]
        BY <1>2 DEF TakeBatch
      <3> QED
        BY <3>1 DEF Keys
    <2> QED
      BY <1>s, <2>1
  <1>3. ASSUME NEW f \in Flusher, BatchMerged(f) PROVE BufferBounded'
    <2>1. pending' = [k \in Key |-> pending[k] + batch[k]] /\ batch' = Zero
      BY <1>3 DEF BatchMerged
    <2>2. U' \subseteq U
      BY <1>t, <2>1 DEF Keys, Zero, Counts
    <2> QED
      BY <1>s, <2>2
  <1>4. ASSUME NEW f \in Flusher, BatchCommitted(f) PROVE BufferBounded'
    <2>1. U' \subseteq U
      BY <1>4 DEF BatchCommitted, Keys, Zero
    <2> QED
      BY <1>s, <2>1
  <1>5. ASSUME UNCHANGED <<pending, batch>> PROVE BufferBounded'
    <2>1. U' = U
      BY <1>5 DEF Keys
    <2> QED
      BY <1>s, <2>1
  <1>6. ASSUME NEW f \in Flusher, FlushNothing(f) \/ Commit(f) \/ Rollback(f) PROVE BufferBounded'
    <2>1. UNCHANGED <<pending, batch>>
      BY <1>6 DEF FlushNothing, Commit, Rollback
    <2> QED
      BY <1>5, <2>1
  <1>7. CASE LoopWakes \/ LoopStops \/ Shutdown \/ ShutdownFlush \/ ShutdownTimesOut
    <2>1. UNCHANGED <<pending, batch>>
      BY <1>7 DEF LoopWakes, LoopStops, Shutdown, ShutdownFlush, ShutdownTimesOut
    <2> QED
      BY <1>5, <2>1
  <1>8. CASE UNCHANGED recorderVars
    BY <1>5, <1>8 DEF recorderVars
  <1> QED
    BY <1>1, <1>2, <1>3, <1>4, <1>6, <1>7, <1>8 DEF RecorderNext, FlushBatch

(* The buffer never holds more than MaxPending keys, counting the batch in   *)
(* flight, which comes back when its transaction fails (Record).             *)
THEOREM BufferStaysBounded == RecorderSpec => []BufferBounded
  <1>1. RecorderInit => BufferBounded
    BY KeysZero, RecorderAssumption DEF RecorderInit, BufferBounded
  <1>2. RecorderSpec => []LockInv
    BY FlushIsExclusive, PTL DEF LockInv
  <1> QED
    BY <1>1, <1>2, BoundStep, PTL DEF RecorderSpec

-----------------------------------------------------------------------------
(* Shutdown.                                                               *)

LEMMA StoppingStep == LockInv /\ LockInv' /\ Stopping /\ [RecorderNext]_recorderVars => Stopping'
  <1> SUFFICES ASSUME LockInv, LockInv', Stopping, [RecorderNext]_recorderVars PROVE Stopping'
    OBVIOUS
  <1>t. at \in [Flusher -> FlusherSteps] /\ pending \in Counts
    BY DEF LockInv, RecorderTypeOK
  <1>1. ASSUME NEW k \in Key, Record(k) PROVE Stopping'
    <2>1. stopped => pending' = pending
      BY <1>1 DEF Record, Refused
    <2> QED
      BY <1>1, <2>1 DEF Record, Stopping
  <1>2. ASSUME NEW f \in Flusher, FlushNothing(f) PROVE Stopping'
    <2>1. \A k \in Key : pending[k] = 0
      BY <1>2, <1>t DEF FlushNothing, Keys, Counts
    <2>2. f = "loop" => at' = [at EXCEPT !["loop"] = "waiting"]
      BY <1>2 DEF FlushNothing, After
    <2>3. f = "shutdown" => at' = [at EXCEPT !["shutdown"] = "returned"]
      BY <1>2 DEF FlushNothing, After
    <2>4. at[f] = "flush" /\ UNCHANGED <<pending, stopped>>
      BY <1>2 DEF FlushNothing
    <2> QED
      BY <1>t, <2>1, <2>2, <2>3, <2>4 DEF Stopping, Flusher, InBatch
  <1>3. ASSUME NEW f \in Flusher, TakeBatch(f) PROVE Stopping'
    <2>1. at[f] = "flush" /\ at' = [at EXCEPT ![f] = "txn"] /\ stopped' = stopped
      BY <1>3 DEF TakeBatch
    <2>2. at["shutdown"] # "returned"
      BY <1>3, <1>t, <2>1 DEF TakeBatch, Stopping, Keys, Counts, Flusher
    <2> QED
      BY <1>t, <2>1, <2>2 DEF Stopping, Flusher, InBatch
  <1>4. ASSUME NEW f \in Flusher, Commit(f) \/ Rollback(f) PROVE Stopping'
    <2>1. /\ at[f] = "txn" /\ UNCHANGED <<pending, stopped>>
          /\ at' = [at EXCEPT ![f] = "committed"] \/ at' = [at EXCEPT ![f] = "rolledback"]
      BY <1>4 DEF Commit, Rollback
    <2> QED
      BY <1>t, <2>1 DEF Stopping, Flusher, InBatch
  <1>5. ASSUME NEW f \in Flusher, BatchCommitted(f) PROVE Stopping'
    <2>1. f = "loop" => at' = [at EXCEPT !["loop"] = "waiting"]
      BY <1>5 DEF BatchCommitted, After
    <2>2. f = "shutdown" => \/ at' = [at EXCEPT !["shutdown"] = "flush"]
                            \/ at' = [at EXCEPT !["shutdown"] = "returned"] /\ Keys(pending) = {}
      BY <1>5 DEF BatchCommitted, After
    <2>3. Keys(pending) = {} => \A k \in Key : pending[k] = 0
      BY <1>t DEF Keys, Counts
    <2>4. at[f] = "committed" /\ UNCHANGED <<pending, stopped>>
      BY <1>5 DEF BatchCommitted
    <2> QED
      BY <1>t, <2>1, <2>2, <2>3, <2>4 DEF Stopping, Flusher, InBatch
  <1>6. ASSUME NEW f \in Flusher, BatchMerged(f) PROVE Stopping'
    <2>1. f = "loop" => at' = [at EXCEPT !["loop"] = "waiting"]
      BY <1>6 DEF BatchMerged, After
    <2>2. f = "shutdown" => at' = [at EXCEPT !["shutdown"] = "failed"]
      BY <1>6 DEF BatchMerged, After
    <2>3. at[f] = "rolledback" /\ stopped' = stopped
      BY <1>6 DEF BatchMerged
    <2>4. CASE f = "loop"
      <3>1. at["shutdown"] \notin InBatch \cup {"flush", "returned"}
        BY <2>3, <2>4 DEF Stopping
      <3> QED
        BY <1>t, <2>1, <2>3, <2>4, <3>1 DEF Stopping, Flusher, InBatch
    <2>5. CASE f = "shutdown"
      BY <1>t, <2>2, <2>3, <2>5 DEF Stopping, Flusher, InBatch
    <2> QED
      BY <2>4, <2>5 DEF Flusher
  <1>7. CASE LoopWakes \/ LoopStops
    BY <1>7, <1>t DEF LoopWakes, LoopStops, Stopping, Flusher, InBatch
  <1>8. CASE Shutdown \/ ShutdownFlush \/ ShutdownTimesOut
    BY <1>8, <1>t DEF Shutdown, ShutdownFlush, ShutdownTimesOut, Stopping, Flusher, InBatch
  <1>9. CASE UNCHANGED recorderVars
    BY <1>9 DEF recorderVars, Stopping
  <1> QED
    BY <1>1, <1>2, <1>3, <1>4, <1>5, <1>6, <1>7, <1>8, <1>9 DEF RecorderNext, FlushBatch

(* When Shutdown reports success, every event that was not dropped is in the *)
(* database.                                                                 *)
THEOREM ShutdownLosesNothing == RecorderSpec => []ShutdownFlushes
  <1>1. RecorderInit => Stopping
    BY DEF RecorderInit, Stopping, Flusher, InBatch
  <1>2. RecorderSpec => []LockInv
    BY FlushIsExclusive, PTL DEF LockInv
  <1>3. RecorderSpec => []Stopping
    BY <1>1, <1>2, StoppingStep, PTL DEF RecorderSpec
  <1>4. LockInv /\ Stopping /\ Conservation => ShutdownFlushes
    <2> SUFFICES ASSUME LockInv, Stopping, Conservation, at["shutdown"] = "returned", NEW k \in Key
                 PROVE  offered[k] = dropped[k] + db[k]
      BY DEF ShutdownFlushes
    <2>1. pending[k] = 0 /\ at["loop"] = "returned"
      BY DEF Stopping
    <2>2. InFlight(k) = 0
      BY <2>1 DEF InFlight, Flusher
    <2> QED
      BY <2>1, <2>2 DEF Conservation, LockInv, RecorderTypeOK, Counts
  <1> QED
    BY <1>2, <1>3, <1>4, NothingLost, PTL

=============================================================================
