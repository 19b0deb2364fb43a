----------------------------- MODULE MediaProofs -----------------------------
(***************************************************************************)
(* Theorems about MediaCache, Uploads and FolderShares, for every set of   *)
(* requests, objects, mounts, upload sessions, groups and guests: the      *)
(* bound on a cache mount, the ownership of its claims, the bytes and the  *)
(* video of an upload, the quota of its owner, and the limit of a shared   *)
(* folder.                                                                 *)
(***************************************************************************)
EXTENDS MediaCache, Uploads, FolderShares, FiniteSetTheorems, NaturalsInduction,
        WellFoundedInduction, TLAPS

-----------------------------------------------------------------------------
(* The inductive invariant of the cache.                                   *)

CachePcs == {"idle", "opened", "capture", "handover", "promote", "targets", "commit"}
FlowRow == [pc : CachePcs, o : CacheObjects \cup {"none"}, got : Nat, ver : Nat, job : BOOLEAN,
            claim : BOOLEAN, room : BOOLEAN, left : SUBSET CacheMounts,
            at : CacheMounts \cup {"none"}]
FillRow == [o : CacheObjects, ver : Nat, got : Nat, left : SUBSET CacheMounts]
EntryRow == [at : CacheMounts \cup {"none"}, ver : Nat]

(* What a flow holds at each of its steps. *)
FlowShape(f) ==
    /\ f.claim => f.pc \in {"capture", "handover", "promote", "targets", "commit"}
    /\ f.room <=> f.pc = "capture"
    /\ f.at # "none" <=> f.pc = "commit"
    /\ f.pc # "idle" => f.o \in CacheObjects

CacheShape ==
    /\ version \in Nat /\ reserved \in Nat
    /\ origin \in [CacheObjects -> Nat]
    /\ cacheEntry \in [CacheObjects -> EntryRow]
    /\ flow \in [Flows -> FlowRow]
    /\ fills \subseteq FillRow
    /\ \A w \in Flows : FlowShape(flow[w])
    /\ \A o \in CacheObjects : cacheEntry[o].ver <= version

(* An object is claimed by one flow at most. *)
Claimants == {w \in Flows : flow[w].claim}
ClaimsInv ==
    /\ claims = {flow[w].o : w \in Claimants}
    /\ \A v, w \in Flows : flow[v].claim /\ flow[w].claim /\ v # w => flow[v].o # flow[w].o

Capturers == {w \in Flows : flow[w].room}
RoomInv == reserved = ObjectSize * Cardinality(Capturers)

(* A membership is locked by one promotion at most, and the room that one  *)
(* has made for its object stays free until it commits.                    *)
MountsLocked ==
    \A v, w \in Flows : flow[v].pc = "commit" /\ flow[w].pc = "commit" /\ v # w =>
        flow[v].at # flow[w].at
RoomMade ==
    \A w \in Flows, k \in CacheMounts :
        flow[w].pc = "commit" /\ flow[w].at = k => UsedBytes(k) + ObjectSize <= CacheMaxBytes
SpaceInv == MountsLocked /\ RoomMade /\ CacheBounded

CacheInv == CacheShape /\ ClaimsInv /\ RoomInv /\ SpaceInv
-----------------------------------------------------------------------------
(* Counting.                                                               *)

LEMMA Products ==
    ASSUME NEW a \in Nat, NEW b \in Nat, NEW s \in Nat
    PROVE  /\ a * s \in Nat /\ (a + 1) * s = a * s + s /\ s * (a + 1) = s * a + s /\ s * a \in Nat
           /\ a <= b => a * s <= b * s
<1>1. a * s \in Nat /\ (a + 1) * s = a * s + s /\ s * (a + 1) = s * a + s /\ s * a \in Nat
  OBVIOUS
<1>2. ASSUME a <= b PROVE a * s <= b * s
  <2>1. (b - a) * s >= 0 /\ (b - a) * s = b * s - a * s
    BY <1>2
  <2> QED
    BY <2>1
<1> QED
  BY <1>1, <1>2

LEMMA OnCounts ==
    ASSUME NEW k
    PROVE  /\ On(k) \subseteq CacheObjects /\ IsFiniteSet(On(k)) /\ Cardinality(On(k)) \in Nat
           /\ UsedBytes(k) \in Nat
           /\ \A V \in SUBSET On(k) : IsFiniteSet(V) /\ Cardinality(V) \in Nat
                                      /\ Cardinality(V) <= Cardinality(On(k))
<1>1. On(k) \subseteq CacheObjects /\ IsFiniteSet(On(k)) /\ Cardinality(On(k)) \in Nat
  BY CacheAssumption, FS_Subset, FS_CardinalityType DEF On
<1>2. UsedBytes(k) \in Nat
  BY <1>1, CacheAssumption DEF UsedBytes
<1>3. \A V \in SUBSET On(k) : IsFiniteSet(V) /\ Cardinality(V) \in Nat
                              /\ Cardinality(V) <= Cardinality(On(k))
  BY <1>1, FS_Subset, FS_CardinalityType
<1> QED
  BY <1>1, <1>2, <1>3

(* Fewer entries use less, one more at most one object more. *)
LEMMA OnShrinks ==
    ASSUME NEW k, On(k)' \subseteq On(k)
    PROVE  UsedBytes(k)' <= UsedBytes(k) /\ UsedBytes(k)' \in Nat
<1>1. /\ Cardinality(On(k)') \in Nat /\ Cardinality(On(k)) \in Nat
      /\ Cardinality(On(k)') <= Cardinality(On(k))
  BY OnCounts
<1>2. Cardinality(On(k)') * ObjectSize <= Cardinality(On(k)) * ObjectSize
      /\ Cardinality(On(k)') * ObjectSize \in Nat
  BY <1>1, Products, CacheAssumption
<1> QED
  BY <1>2 DEF UsedBytes

LEMMA OnGrows ==
    ASSUME NEW k, NEW o, On(k)' \subseteq On(k) \cup {o}
    PROVE  UsedBytes(k)' <= UsedBytes(k) + ObjectSize
<1>1. IsFiniteSet(On(k)) /\ Cardinality(On(k)) \in Nat
  BY OnCounts
<1>2. /\ IsFiniteSet(On(k) \cup {o}) /\ Cardinality(On(k) \cup {o}) \in Nat
      /\ Cardinality(On(k) \cup {o}) <= Cardinality(On(k)) + 1
  BY <1>1, FS_AddElement, FS_CardinalityType
<1>3. Cardinality(On(k)') <= Cardinality(On(k) \cup {o}) /\ Cardinality(On(k)') \in Nat
  BY <1>2, FS_Subset, FS_CardinalityType
<1>4. Cardinality(On(k)') <= Cardinality(On(k)) + 1 /\ Cardinality(On(k)) + 1 \in Nat
  BY <1>1, <1>2, <1>3
<1>5. Cardinality(On(k)') * ObjectSize <= (Cardinality(On(k)) + 1) * ObjectSize
  BY <1>3, <1>4, Products, CacheAssumption
<1>6. (Cardinality(On(k)) + 1) * ObjectSize = Cardinality(On(k)) * ObjectSize + ObjectSize
  BY <1>1, Products, CacheAssumption
<1> QED
  BY <1>5, <1>6 DEF UsedBytes

LEMMA Watermarks ==
    /\ HighWatermark \in Nat /\ LowWatermark \in Nat
    /\ HighWatermark <= CacheMaxBytes /\ LowWatermark <= CacheMaxBytes
BY CacheAssumption DEF HighWatermark, LowWatermark

(* What promoteToTarget evicts makes room for the object. *)
LEMMA EvictionMakesRoom ==
    ASSUME NEW k, NEW V \in SUBSET On(k), On(k)' = On(k) \ V,
           Cardinality(V) * ObjectSize >= BytesToFree(k, ObjectSize)
    PROVE  UsedBytes(k)' + ObjectSize <= CacheMaxBytes
<1>1. /\ IsFiniteSet(On(k)) /\ Cardinality(On(k)) \in Nat
      /\ IsFiniteSet(V) /\ Cardinality(V) \in Nat
      /\ UsedBytes(k) \in Nat
  BY OnCounts
<1>2. Cardinality(On(k) \ V) = Cardinality(On(k)) - Cardinality(On(k) \cap V)
      /\ IsFiniteSet(On(k) \ V) /\ Cardinality(On(k) \ V) \in Nat
  BY <1>1, FS_Difference, FS_CardinalityType
<1>3. On(k) \cap V = V
  OBVIOUS
<1>4. Cardinality(On(k)) = Cardinality(On(k) \ V) + Cardinality(V)
  <2>1. Cardinality(On(k) \cap V) = Cardinality(V)
    BY <1>3, Zenon
  <2> QED
    BY <1>1, <1>2, <2>1
<1> DEFINE left == Cardinality(On(k) \ V)
           gone == Cardinality(V)
<1>5. (left + gone) * ObjectSize = left * ObjectSize + gone * ObjectSize
      /\ left * ObjectSize \in Nat /\ gone * ObjectSize \in Nat
  <2>1. left \in Nat /\ gone \in Nat /\ ObjectSize \in Nat
    BY <1>1, <1>2, CacheAssumption
  <2> HIDE DEF left, gone
  <2> QED
    BY <2>1
<1>6. UsedBytes(k) = UsedBytes(k)' + gone * ObjectSize /\ UsedBytes(k)' \in Nat
  BY <1>4, <1>5 DEF UsedBytes
<1> HIDE DEF gone, left
<1>7. gone * ObjectSize >= BytesToFree(k, ObjectSize)
  BY DEF gone
<1> QED
  BY <1>1, <1>5, <1>6, <1>7, Watermarks, CacheAssumption DEF BytesToFree

-----------------------------------------------------------------------------
(* What a step of one flow does to each part of the invariant.             *)

FlowAt(w, r) == r \in FlowRow /\ FlowShape(r) /\ flow' = [flow EXCEPT ![w] = r]

LEMMA FlowEffect ==
    ASSUME CacheShape, NEW w \in Flows, NEW r, FlowAt(w, r)
    PROVE  /\ flow' \in [Flows -> FlowRow] /\ \A v \in Flows : FlowShape(flow'[v])
           /\ flow'[w] = r /\ \A v \in Flows : v # w => flow'[v] = flow[v]
<1>1. /\ flow' \in [Flows -> FlowRow]
      /\ flow'[w] = r /\ \A v \in Flows : v # w => flow'[v] = flow[v]
  BY DEF CacheShape, FlowAt
<1>2. \A v \in Flows : FlowShape(flow'[v])
  BY <1>1, Zenon DEF CacheShape, FlowAt
<1> QED
  BY <1>1, <1>2

LEMMA ClaimsKept ==
    ASSUME CacheInv, NEW w \in Flows, NEW r, FlowAt(w, r),
           \/ /\ r.claim = flow[w].claim /\ r.o = flow[w].o /\ claims' = claims
           \/ /\ ~flow[w].claim /\ ~r.claim /\ claims' = claims
           \/ /\ ~flow[w].claim /\ r.claim /\ r.o \notin claims
              /\ claims' = claims \cup {r.o}
           \/ Unclaim(w) /\ ~r.claim
    PROVE  ClaimsInv'
<1>1. /\ flow'[w] = r /\ \A v \in Flows : v # w => flow'[v] = flow[v]
      /\ flow \in [Flows -> FlowRow] /\ r \in FlowRow /\ flow[w] \in FlowRow
      /\ flow[w].claim \in BOOLEAN /\ r.claim \in BOOLEAN
  BY FlowEffect DEF CacheInv, CacheShape, FlowAt, FlowRow
<1>2. /\ \A x : x \in claims <=> \E v \in Flows : flow[v].claim /\ flow[v].o = x
      /\ \A u, v \in Flows : flow[u].claim /\ flow[v].claim /\ u # v => flow[u].o # flow[v].o
  BY DEF CacheInv, ClaimsInv, Claimants
<1>3. SUFFICES
        /\ \A x : x \in claims' <=> \E v \in Flows : flow'[v].claim /\ flow'[v].o = x
        /\ \A u, v \in Flows : flow'[u].claim /\ flow'[v].claim /\ u # v => flow'[u].o # flow'[v].o
  BY DEF ClaimsInv, Claimants
<1>4. CASE r.claim = flow[w].claim /\ r.o = flow[w].o /\ claims' = claims
  BY <1>1, <1>2, <1>4
<1>5. CASE ~flow[w].claim /\ ~r.claim /\ claims' = claims
  BY <1>1, <1>2, <1>5
<1>6. CASE ~flow[w].claim /\ r.claim /\ r.o \notin claims /\ claims' = claims \cup {r.o}
  <2>1. \A x : x \in claims' <=> \E v \in Flows : flow'[v].claim /\ flow'[v].o = x
    BY <1>1, <1>2, <1>6
  <2>2. \A u, v \in Flows : flow'[u].claim /\ flow'[v].claim /\ u # v => flow'[u].o # flow'[v].o
    BY <1>1, <1>2, <1>6
  <2> QED
    BY <2>1, <2>2
<1>7. CASE Unclaim(w) /\ ~r.claim
  <2>1. claims' = IF flow[w].claim THEN claims \ {flow[w].o} ELSE claims
    BY <1>7 DEF Unclaim
  <2>2. \A x : x \in claims' <=> \E v \in Flows : flow'[v].claim /\ flow'[v].o = x
    BY <1>1, <1>2, <1>7, <2>1
  <2>3. \A u, v \in Flows : flow'[u].claim /\ flow'[v].claim /\ u # v => flow'[u].o # flow'[v].o
    BY <1>1, <1>2, <1>7
  <2> QED
    BY <2>2, <2>3
<1> QED
  BY <1>4, <1>5, <1>6, <1>7

LEMMA RoomKept ==
    ASSUME CacheInv, NEW w \in Flows, NEW r, FlowAt(w, r),
           \/ r.room = flow[w].room /\ reserved' = reserved
           \/ ~flow[w].room /\ r.room /\ reserved' = reserved + ObjectSize
           \/ ~r.room /\ Release(w)
    PROVE  RoomInv' /\ reserved' \in Nat
<1>1. /\ flow'[w] = r /\ \A v \in Flows : v # w => flow'[v] = flow[v]
      /\ flow \in [Flows -> FlowRow] /\ r \in FlowRow /\ flow[w] \in FlowRow
      /\ flow[w].room \in BOOLEAN /\ r.room \in BOOLEAN
  BY FlowEffect DEF CacheInv, CacheShape, FlowAt, FlowRow
<1>2. IsFiniteSet(Capturers) /\ Cardinality(Capturers) \in Nat
  BY CacheAssumption, FS_Subset, FS_CardinalityType DEF Capturers
<1>3. reserved = ObjectSize * Cardinality(Capturers) /\ ObjectSize \in Nat /\ reserved \in Nat
  BY CacheAssumption DEF CacheInv, RoomInv, CacheShape
<1>4. CASE r.room = flow[w].room /\ reserved' = reserved
  <2>1. Capturers' = Capturers
    BY <1>1, <1>4 DEF Capturers
  <2> QED
    BY <1>3, <1>4, <2>1 DEF RoomInv
<1>5. CASE ~flow[w].room /\ r.room /\ reserved' = reserved + ObjectSize
  <2>1. Capturers' = Capturers \cup {w} /\ w \notin Capturers
    BY <1>1, <1>5 DEF Capturers
  <2>2. Cardinality(Capturers') = Cardinality(Capturers) + 1
    BY <1>2, <2>1, FS_AddElement
  <2>3. ObjectSize * (Cardinality(Capturers) + 1) = ObjectSize * Cardinality(Capturers) + ObjectSize
    BY <1>2, <1>3, Products
  <2>4. reserved' = ObjectSize * Cardinality(Capturers')
    BY <1>3, <1>5, <2>2, <2>3
  <2> QED
    BY <1>3, <1>5, <2>4 DEF RoomInv
<1>6. CASE ~r.room /\ Release(w)
  <2>1. CASE ~flow[w].room
    BY <1>1, <1>4, <1>6, <2>1 DEF Release
  <2>2. CASE flow[w].room
    <3>1. Capturers' = Capturers \ {w} /\ w \in Capturers
      BY <1>1, <1>6, <2>2 DEF Capturers
    <3>2. Cardinality(Capturers) = Cardinality(Capturers') + 1 /\ Cardinality(Capturers') \in Nat
      <4>1. IsFiniteSet(Capturers') /\ Cardinality(Capturers') = Cardinality(Capturers) - 1
        BY <1>2, <3>1, FS_RemoveElement
      <4>2. Cardinality(Capturers') \in Nat
        BY <4>1, FS_CardinalityType
      <4> QED
        BY <1>2, <4>1, <4>2
    <3>3. /\ ObjectSize * (Cardinality(Capturers') + 1) = ObjectSize * Cardinality(Capturers') + ObjectSize
          /\ ObjectSize * Cardinality(Capturers') \in Nat
      BY <1>3, <3>2, Products
    <3>4. reserved' = reserved - ObjectSize
      BY <1>6, <2>2 DEF Release
    <3>5. reserved' = ObjectSize * Cardinality(Capturers') /\ reserved' \in Nat
      BY <1>3, <3>2, <3>3, <3>4
    <3> QED
      BY <3>5 DEF RoomInv
  <2> QED
    BY <2>1, <2>2
<1> QED
  BY <1>4, <1>5, <1>6

(* Steps that only give room back. *)
LEMMA SpaceShrinks ==
    ASSUME CacheInv,
           \A v \in Flows : flow'[v].pc = "commit" => flow[v].pc = "commit" /\ flow'[v].at = flow[v].at,
           \A k \in CacheMounts : On(k)' \subseteq On(k)
    PROVE  SpaceInv'
<1>1. \A k \in CacheMounts : UsedBytes(k)' <= UsedBytes(k) /\ UsedBytes(k)' \in Nat /\ UsedBytes(k) \in Nat
  BY OnShrinks, OnCounts
<1>2. \A v \in Flows : flow[v].pc = "commit" => flow[v].at \in CacheMounts
  BY DEF CacheInv, CacheShape, FlowShape, FlowRow
<1>3. MountsLocked'
  BY DEF CacheInv, SpaceInv, MountsLocked
<1>4. RoomMade'
  <2> SUFFICES ASSUME NEW v \in Flows, NEW k \in CacheMounts, flow'[v].pc = "commit", flow'[v].at = k
               PROVE  UsedBytes(k)' + ObjectSize <= CacheMaxBytes
    BY DEF RoomMade
  <2>1. UsedBytes(k) + ObjectSize <= CacheMaxBytes
    BY <1>2 DEF CacheInv, SpaceInv, RoomMade
  <2> QED
    BY <1>1, <2>1, CacheAssumption
<1>5. CacheBounded'
  BY <1>1, CacheAssumption DEF CacheInv, SpaceInv, CacheBounded
<1> QED
  BY <1>3, <1>4, <1>5 DEF SpaceInv

ClaimStep(w, r) ==
    \/ /\ r.claim = flow[w].claim /\ r.o = flow[w].o /\ claims' = claims
    \/ /\ ~flow[w].claim /\ ~r.claim /\ claims' = claims
    \/ /\ ~flow[w].claim /\ r.claim /\ r.o \notin claims
       /\ claims' = claims \cup {r.o}
    \/ Unclaim(w) /\ ~r.claim
RoomStep(w, r) ==
    \/ r.room = flow[w].room /\ reserved' = reserved
    \/ ~flow[w].room /\ r.room /\ reserved' = reserved + ObjectSize
    \/ ~r.room /\ Release(w)

LEMMA FlowStepKeeps ==
    ASSUME CacheInv, NEW w \in Flows, NEW r, FlowAt(w, r), ClaimStep(w, r), RoomStep(w, r),
           UNCHANGED <<version, origin>>, fills' \subseteq FillRow,
           cacheEntry' \in [CacheObjects -> EntryRow],
           \A o \in CacheObjects : cacheEntry'[o].ver <= version,
           SpaceInv'
    PROVE  CacheInv'
<1>1. ClaimsInv'
  BY ClaimsKept DEF ClaimStep
<1>2. RoomInv' /\ reserved' \in Nat
  BY RoomKept DEF RoomStep
<1>3. CacheShape'
  <2>1. flow' \in [Flows -> FlowRow] /\ \A v \in Flows : FlowShape(flow'[v])
    BY FlowEffect DEF CacheInv
  <2>2. \A v \in Flows : FlowShape(flow[v])'
    BY <2>1 DEF FlowShape
  <2>3. version' \in Nat /\ origin' \in [CacheObjects -> Nat] /\ (\A o \in CacheObjects : cacheEntry'[o].ver <= version')
    BY DEF CacheInv, CacheShape
  <2> QED
    BY <1>2, <2>1, <2>2, <2>3 DEF CacheShape
<1> QED
  BY <1>1, <1>2, <1>3 DEF CacheInv

(* Steps that leave the entries alone and end no promotion in a commit. *)
LEMMA QuietFlowStep ==
    ASSUME CacheInv, NEW w \in Flows, NEW r, FlowAt(w, r), ClaimStep(w, r), RoomStep(w, r),
           UNCHANGED <<version, origin, cacheEntry>>, fills' \subseteq FillRow, r.pc # "commit"
    PROVE  CacheInv'
<1>1. flow'[w] = r /\ \A v \in Flows : v # w => flow'[v] = flow[v]
  BY FlowEffect DEF CacheInv
<1>2. SpaceInv'
  <2>1. \A v \in Flows : flow'[v].pc = "commit" => flow[v].pc = "commit" /\ flow'[v].at = flow[v].at
    BY <1>1
  <2>2. \A k \in CacheMounts : On(k)' \subseteq On(k)
    BY DEF On
  <2> QED
    BY <2>1, <2>2, SpaceShrinks
<1>3. cacheEntry' \in [CacheObjects -> EntryRow] /\ \A o \in CacheObjects : cacheEntry'[o].ver <= version
  BY DEF CacheInv, CacheShape
<1> QED
  BY <1>2, <1>3, FlowStepKeeps

LEMMA NoFlowRow == NoFlow \in FlowRow /\ FlowShape(NoFlow) /\ ~NoFlow.claim /\ ~NoFlow.room
                   /\ NoFlow.pc = "idle"
<1>1. NoFlow \in FlowRow
  BY DEF NoFlow, FlowRow, CachePcs
<1>2. FlowShape(NoFlow) /\ ~NoFlow.claim /\ ~NoFlow.room /\ NoFlow.pc = "idle"
  BY DEF NoFlow, FlowShape
<1> QED
  BY <1>1, <1>2

LEMMA QuitStep ==
    ASSUME CacheInv, NEW w \in Flows, Quit(w), Unclaim(w) \/ (~flow[w].claim /\ claims' = claims),
           Release(w) \/ (~flow[w].room /\ reserved' = reserved),
           UNCHANGED <<version, origin, cacheEntry>>, fills' \subseteq FillRow
    PROVE  CacheInv'
<1>1. FlowAt(w, NoFlow)
  BY NoFlowRow DEF FlowAt, Quit
<1>2. ClaimStep(w, NoFlow)
  BY NoFlowRow DEF ClaimStep
<1>3. RoomStep(w, NoFlow)
  <2>1. CASE Release(w)
    BY <2>1, NoFlowRow DEF RoomStep
  <2>2. CASE ~flow[w].room /\ reserved' = reserved
    BY <2>2, NoFlowRow DEF RoomStep, CacheInv, CacheShape, FlowRow, NoFlow
  <2> QED
    BY <2>1, <2>2
<1> QED
  BY <1>1, <1>2, <1>3, NoFlowRow, QuietFlowStep

LEMMA PayloadRow ==
    ASSUME CacheInv, NEW w \in Flows, flow[w].pc # "idle", NEW g \in Nat
    PROVE  Payload(w, g) \in FillRow /\ [Payload(w, g) EXCEPT !.left = Targets] \in FillRow
<1>1. /\ flow[w].o \in CacheObjects /\ flow[w].ver \in Nat /\ flow[w].left \in SUBSET CacheMounts
      /\ Targets \in SUBSET CacheMounts
  BY DEF CacheInv, CacheShape, FlowShape, FlowRow, Targets
<1> QED
  BY <1>1 DEF Payload, FillRow

LEMMA EnqueueKeeps ==
    ASSUME CacheInv, NEW p \in FillRow, NEW ok, EnqueuePromotion(p, ok)
    PROVE  fills' \subseteq FillRow
BY DEF EnqueuePromotion, CacheInv, CacheShape
-----------------------------------------------------------------------------
(* The steps of requests and promotions.                                   *)

LEMMA OpenSteps ==
    ASSUME CacheInv, NEW w \in Flows,
           \/ \E o \in CacheObjects : OpenOrigin(w, o)
           \/ \E p \in fills : FillTask(w, p)
           \/ BeginCapture(w)
    PROVE  CacheInv'
<1>0. /\ flow[w] \in FlowRow /\ FlowShape(flow[w]) /\ fills \subseteq FillRow /\ version \in Nat
      /\ cacheEntry \in [CacheObjects -> EntryRow] /\ origin \in [CacheObjects -> Nat]
  BY DEF CacheInv, CacheShape
<1>c. /\ flow[w].pc \in {"idle", "opened"} => ~flow[w].claim /\ ~flow[w].room
      /\ flow[w].room \in BOOLEAN /\ flow[w].claim \in BOOLEAN
  BY <1>0 DEF FlowShape, FlowRow
<1>1. ASSUME NEW o \in CacheObjects, OpenOrigin(w, o) PROVE CacheInv'
  <2> DEFINE r == [NoFlow EXCEPT !.pc = "opened", !.o = o, !.got = origin[o]]
  <2>0. origin[o] \in Nat
    BY <1>0
  <2>1. r \in FlowRow
    BY <2>0 DEF NoFlow, FlowRow, CachePcs
  <2>2. FlowShape(r) /\ r.pc = "opened" /\ r.claim = FALSE /\ r.room = FALSE
    BY DEF NoFlow, FlowShape
  <2>3. /\ flow[w].pc = "idle" /\ flow' = [flow EXCEPT ![w] = r]
        /\ cacheEntry' = IF Fresh(o) THEN [cacheEntry EXCEPT ![o] = NoEntry] ELSE cacheEntry
        /\ UNCHANGED <<origin, version, claims, reserved, fills>>
    BY <1>1, Zenon DEF OpenOrigin
  <2> HIDE DEF r
  <2>4. FlowAt(w, r) /\ ClaimStep(w, r) /\ RoomStep(w, r)
    BY <1>c, <2>1, <2>2, <2>3 DEF FlowAt, ClaimStep, RoomStep
  <2>5. NoEntry \in EntryRow /\ NoEntry.ver = 0 /\ NoEntry.at = "none"
    BY DEF NoEntry, EntryRow
  <2>6. /\ cacheEntry' \in [CacheObjects -> EntryRow]
        /\ \A x \in CacheObjects : cacheEntry'[x] \in {cacheEntry[x], NoEntry}
    BY <1>0, <2>3, <2>5
  <2>7. \A x \in CacheObjects : cacheEntry'[x].ver <= version
    BY <1>0, <2>5, <2>6 DEF CacheInv, CacheShape
  <2>8. SpaceInv'
    <3>1. \A v \in Flows : flow'[v].pc = "commit" => flow[v].pc = "commit" /\ flow'[v].at = flow[v].at
      BY <2>2, <2>4, FlowEffect DEF CacheInv
    <3>2. \A k \in CacheMounts : On(k)' \subseteq On(k)
      BY <2>5, <2>6, CacheAssumption DEF On
    <3> QED
      BY <3>1, <3>2, SpaceShrinks
  <2> QED
    BY <1>0, <2>3, <2>4, <2>6, <2>7, <2>8, FlowStepKeeps
<1>2. ASSUME NEW p \in fills, FillTask(w, p) PROVE CacheInv'
  <2> DEFINE r == [NoFlow EXCEPT !.pc = "promote", !.o = p.o, !.got = p.got,
                                 !.ver = p.ver, !.left = p.left, !.job = TRUE]
  <2>0. p.o \in CacheObjects /\ p.got \in Nat /\ p.ver \in Nat /\ p.left \in SUBSET CacheMounts
    BY <1>0 DEF FillRow
  <2>1. r \in FlowRow
    BY <2>0 DEF NoFlow, FlowRow, CachePcs
  <2>2. FlowShape(r) /\ r.pc = "promote" /\ r.claim = FALSE /\ r.room = FALSE
    BY <2>0 DEF NoFlow, FlowShape
  <2>3. /\ flow[w].pc = "idle" /\ flow' = [flow EXCEPT ![w] = r] /\ fills' = fills \ {p}
        /\ UNCHANGED <<origin, version, cacheEntry, claims, reserved>>
    BY <1>2, Zenon DEF FillTask
  <2> HIDE DEF r
  <2>4. FlowAt(w, r) /\ ClaimStep(w, r) /\ RoomStep(w, r)
    BY <1>c, <2>1, <2>2, <2>3 DEF FlowAt, ClaimStep, RoomStep
  <2> QED
    BY <1>0, <2>2, <2>3, <2>4, QuietFlowStep
<1>3. CASE BeginCapture(w)
  <2>1. flow[w].pc = "opened" /\ UNCHANGED <<origin, version, cacheEntry, fills>>
    BY <1>3 DEF BeginCapture
  <2>2. CASE Targets = {} \/ ~Claim(flow[w].o)
    BY <1>0, <1>3, <1>c, <2>1, <2>2, QuitStep DEF BeginCapture
  <2>3. CASE ~(Targets = {} \/ ~Claim(flow[w].o))
    <3> DEFINE b == ReserveWorkspace
               r == [flow[w] EXCEPT !.pc = IF b THEN "capture" ELSE "handover",
                                    !.ver = version, !.claim = TRUE, !.room = b, !.left = Targets]
    <3>0. b \in BOOLEAN /\ Targets \in SUBSET CacheMounts
      BY DEF ReserveWorkspace, Targets
    <3>1. /\ claims' = claims \cup {flow[w].o} /\ flow' = [flow EXCEPT ![w] = r]
          /\ reserved' = IF b THEN reserved + ObjectSize ELSE reserved
          /\ flow[w].o \notin claims
      BY <1>3, <2>3, Zenon DEF BeginCapture, Claim
    <3> HIDE DEF b
    <3>2. r \in FlowRow
      BY <1>0, <3>0 DEF FlowRow, CachePcs
    <3>3. FlowShape(r) /\ r.pc # "commit" /\ r.claim = TRUE /\ r.room = b /\ r.o = flow[w].o
      BY <1>0, <2>1, <3>0 DEF FlowRow, FlowShape
    <3> HIDE DEF r
    <3>4. FlowAt(w, r) /\ ClaimStep(w, r)
      BY <1>c, <2>1, <3>1, <3>2, <3>3 DEF FlowAt, ClaimStep
    <3>5. RoomStep(w, r)
      BY <1>c, <2>1, <3>0, <3>1, <3>3 DEF RoomStep
    <3> QED
      BY <1>0, <2>1, <3>3, <3>4, <3>5, QuietFlowStep
  <2> QED
    BY <2>2, <2>3
<1> QED
  BY <1>1, <1>2, <1>3

LEMMA CaptureSteps ==
    ASSUME CacheInv, NEW w \in Flows,
           \/ \E outcome \in {"unread", "complete", "stopped"} : CaptureEnds(w, outcome)
           \/ \E queued \in BOOLEAN : HandOver(w, queued) \/ NoTargetLeft(w, queued)
           \/ Fill(w)
    PROVE  CacheInv'
<1>0. flow[w] \in FlowRow /\ FlowShape(flow[w]) /\ fills \subseteq FillRow
  BY DEF CacheInv, CacheShape
<1>c. /\ flow[w].pc \in {"handover", "targets", "promote"} => ~flow[w].room
      /\ flow[w].room \in BOOLEAN /\ flow[w].claim \in BOOLEAN /\ flow[w].got \in Nat
  BY <1>0 DEF FlowShape, FlowRow
<1>1. ASSUME NEW outcome, CaptureEnds(w, outcome) PROVE CacheInv'
  <2>1. flow[w].pc = "capture" /\ Release(w) /\ UNCHANGED <<origin, version, cacheEntry, fills>>
    BY <1>1 DEF CaptureEnds
  <2>2. CASE outcome = "unread"
    BY <1>0, <1>1, <2>1, <2>2, QuitStep DEF CaptureEnds
  <2>3. CASE outcome # "unread"
    <3> DEFINE r == [flow[w] EXCEPT !.room = FALSE,
                                    !.pc = IF outcome = "complete" THEN "promote" ELSE "handover"]
    <3>1. flow' = [flow EXCEPT ![w] = r] /\ UNCHANGED claims
      BY <1>1, <2>3 DEF CaptureEnds
    <3>2. r \in FlowRow
      BY <1>0 DEF FlowRow, CachePcs
    <3>3. FlowShape(r) /\ r.pc # "commit" /\ r.claim = flow[w].claim /\ r.o = flow[w].o /\ r.room = FALSE
      BY <1>0, <2>1 DEF FlowRow, FlowShape
    <3> HIDE DEF r
    <3>4. FlowAt(w, r) /\ ClaimStep(w, r) /\ RoomStep(w, r)
      BY <2>1, <3>1, <3>2, <3>3 DEF FlowAt, ClaimStep, RoomStep
    <3> QED
      BY <1>0, <2>1, <3>3, <3>4, QuietFlowStep
  <2> QED
    BY <2>2, <2>3
<1>2. ASSUME NEW queued \in BOOLEAN, HandOver(w, queued) PROVE CacheInv'
  <2>1. /\ flow[w].pc = "handover" /\ EnqueuePromotion(Payload(w, 0), queued)
        /\ UNCHANGED <<origin, version, cacheEntry, reserved>>
    BY <1>2 DEF HandOver
  <2>2. fills' \subseteq FillRow
    BY <2>1, PayloadRow, EnqueueKeeps
  <2>3. CASE queued
    BY <1>2, <1>c, <2>1, <2>2, <2>3, QuitStep DEF HandOver
  <2>4. CASE ~queued
    <3> DEFINE r == [flow[w] EXCEPT !.pc = "promote", !.got = 0]
    <3>1. flow' = [flow EXCEPT ![w] = r] /\ UNCHANGED claims
      BY <1>2, <2>4 DEF HandOver
    <3>2. r \in FlowRow
      BY <1>0 DEF FlowRow, CachePcs
    <3>3. FlowShape(r) /\ r.pc # "commit" /\ r.claim = flow[w].claim /\ r.o = flow[w].o /\ r.room = flow[w].room
      BY <1>0, <2>1 DEF FlowRow, FlowShape
    <3> HIDE DEF r
    <3>4. FlowAt(w, r) /\ ClaimStep(w, r) /\ RoomStep(w, r)
      BY <2>1, <3>1, <3>2, <3>3 DEF FlowAt, ClaimStep, RoomStep
    <3> QED
      BY <2>1, <2>2, <3>3, <3>4, QuietFlowStep
  <2> QED
    BY <2>3, <2>4
<1>3. ASSUME NEW queued \in BOOLEAN, NoTargetLeft(w, queued) PROVE CacheInv'
  <2>1. /\ flow[w].pc = "targets" /\ Quit(w) /\ Unclaim(w)
        /\ EnqueuePromotion([Payload(w, flow[w].got) EXCEPT !.left = Targets], queued)
        /\ UNCHANGED <<origin, version, cacheEntry, reserved>>
    BY <1>3 DEF NoTargetLeft
  <2>2. fills' \subseteq FillRow
    <3>1. [Payload(w, flow[w].got) EXCEPT !.left = Targets] \in FillRow
      BY <1>c, <2>1, PayloadRow
    <3> QED
      BY <2>1, <3>1, EnqueueKeeps
  <2> QED
    BY <1>c, <2>1, <2>2, QuitStep
<1>4. CASE Fill(w)
  <2>1. flow[w].pc = "promote" /\ UNCHANGED <<origin, version, cacheEntry, reserved, fills>>
    BY <1>4 DEF Fill
  <2>2. CASE Quit(w) /\ Unclaim(w)
    BY <1>0, <1>c, <2>1, <2>2, QuitStep
  <2>3. CASE flow' = [flow EXCEPT ![w].pc = "targets"] /\ UNCHANGED claims
    <3> DEFINE r == [flow[w] EXCEPT !.pc = "targets"]
    <3>1. flow' = [flow EXCEPT ![w] = r] /\ UNCHANGED claims
      BY <2>3
    <3>2. r \in FlowRow
      BY <1>0 DEF FlowRow, CachePcs
    <3>3. FlowShape(r) /\ r.pc # "commit" /\ r.claim = flow[w].claim /\ r.o = flow[w].o /\ r.room = flow[w].room
      BY <1>0, <2>1 DEF FlowRow, FlowShape
    <3> HIDE DEF r
    <3>4. FlowAt(w, r) /\ ClaimStep(w, r) /\ RoomStep(w, r)
      BY <2>1, <3>1, <3>2, <3>3 DEF FlowAt, ClaimStep, RoomStep
    <3> QED
      BY <1>0, <2>1, <3>3, <3>4, QuietFlowStep
  <2> QED
    BY <1>4, <2>2, <2>3 DEF Fill
<1> QED
  BY <1>1, <1>2, <1>3, <1>4
(* Rows that are evicted leave their mount, the others stay as they are. *)
LEMMA Evictions ==
    ASSUME CacheInv, NEW k \in CacheMounts, NEW V \in SUBSET On(k), cacheEntry' = Evicted(k, V)
    PROVE  /\ cacheEntry' \in [CacheObjects -> EntryRow]
           /\ \A o \in CacheObjects : cacheEntry'[o].ver <= version
           /\ On(k)' = On(k) \ V
           /\ \A j \in CacheMounts : On(j)' \subseteq On(j)
<1>0. cacheEntry \in [CacheObjects -> EntryRow] /\ version \in Nat
      /\ \A o \in CacheObjects : cacheEntry[o].ver <= version
  BY DEF CacheInv, CacheShape
<1>1. NoEntry \in EntryRow /\ NoEntry.ver = 0 /\ NoEntry.at = "none"
  BY DEF NoEntry, EntryRow
<1>2. cacheEntry' = [o \in CacheObjects |-> IF o \in V THEN NoEntry ELSE cacheEntry[o]]
  BY DEF Evicted
<1>3. cacheEntry' \in [CacheObjects -> EntryRow]
  BY <1>0, <1>1, <1>2
<1>4. \A o \in CacheObjects : cacheEntry'[o].ver <= version
  BY <1>0, <1>1, <1>2
<1>5. On(k)' = On(k) \ V /\ \A j \in CacheMounts : On(j)' \subseteq On(j)
  BY <1>1, <1>2, CacheAssumption DEF On
<1> QED
  BY <1>3, <1>4, <1>5

LEMMA PromoteStep ==
    ASSUME CacheInv, NEW w \in Flows, NEW k \in CacheMounts, NEW V \in SUBSET CacheObjects,
           PromoteToTarget(w, k, V)
    PROVE  CacheInv'
<1>0. flow[w] \in FlowRow /\ FlowShape(flow[w]) /\ fills \subseteq FillRow
      /\ flow \in [Flows -> FlowRow]
  BY DEF CacheInv, CacheShape
<1>1. /\ flow[w].pc = "targets" /\ ~Locked(k) /\ V \in SUBSET On(k) /\ cacheEntry' = Evicted(k, V)
      /\ UNCHANGED <<origin, version, claims, reserved, fills>>
  BY DEF PromoteToTarget, Victims
<1>2. /\ cacheEntry' \in [CacheObjects -> EntryRow]
      /\ \A o \in CacheObjects : cacheEntry'[o].ver <= version
      /\ On(k)' = On(k) \ V
      /\ \A j \in CacheMounts : On(j)' \subseteq On(j)
  BY <1>1, Evictions
<1> DEFINE fits == Cardinality(V) * ObjectSize >= BytesToFree(k, ObjectSize)
<1>3. CASE ~fits
  <2> DEFINE r == [flow[w] EXCEPT !.left = @ \ {k}]
  <2>1. flow' = [flow EXCEPT ![w] = r]
    BY <1>3, Zenon DEF PromoteToTarget
  <2>2. r \in FlowRow
    BY <1>0 DEF FlowRow
  <2>3. FlowShape(r) /\ r.pc # "commit" /\ r.claim = flow[w].claim /\ r.o = flow[w].o /\ r.room = flow[w].room
    BY <1>0, <1>1 DEF FlowRow, FlowShape
  <2> HIDE DEF r
  <2>4. FlowAt(w, r) /\ ClaimStep(w, r) /\ RoomStep(w, r)
    BY <1>1, <2>1, <2>2, <2>3 DEF FlowAt, ClaimStep, RoomStep
  <2>5. SpaceInv'
    <3>1. \A v \in Flows : flow'[v].pc = "commit" => flow[v].pc = "commit" /\ flow'[v].at = flow[v].at
      BY <2>3, <2>4, FlowEffect DEF CacheInv
    <3> QED
      BY <1>2, <3>1, SpaceShrinks
  <2> QED
    BY <1>0, <1>1, <1>2, <2>4, <2>5, FlowStepKeeps
<1>4. CASE fits
  <2> DEFINE r == [flow[w] EXCEPT !.pc = "commit", !.at = k]
  <2>1. flow' = [flow EXCEPT ![w] = r]
    BY <1>4, Zenon DEF PromoteToTarget
  <2>2. r \in FlowRow
    BY <1>0 DEF FlowRow, CachePcs
  <2>3. /\ r.pc = "commit" /\ r.at = k /\ r.claim = flow[w].claim /\ r.o = flow[w].o
        /\ r.room = flow[w].room
    BY <1>0 DEF FlowRow
  <2>4. FlowShape(r)
    BY <1>0, <1>1, <2>3, CacheAssumption DEF FlowShape
  <2> HIDE DEF r
  <2>5. FlowAt(w, r) /\ ClaimStep(w, r) /\ RoomStep(w, r)
    BY <1>1, <2>1, <2>2, <2>3, <2>4 DEF FlowAt, ClaimStep, RoomStep
  <2>6. flow'[w] = r /\ \A v \in Flows : v # w => flow'[v] = flow[v]
    BY <2>5, FlowEffect DEF CacheInv
  <2>7. SpaceInv'
    <3>1. \A j \in CacheMounts : UsedBytes(j)' <= UsedBytes(j) /\ UsedBytes(j)' \in Nat /\ UsedBytes(j) \in Nat
      BY <1>2, OnShrinks, OnCounts
    <3>2. MountsLocked'
      BY <1>1, <2>3, <2>6 DEF CacheInv, SpaceInv, MountsLocked, Locked
    <3>3. RoomMade'
      <4> SUFFICES ASSUME NEW v \in Flows, NEW j \in CacheMounts, flow'[v].pc = "commit", flow'[v].at = j
                   PROVE  UsedBytes(j)' + ObjectSize <= CacheMaxBytes
        BY DEF RoomMade
      <4>1. CASE v = w
        <5>1. j = k
          BY <2>3, <2>6, <4>1
        <5>2. UsedBytes(k)' + ObjectSize <= CacheMaxBytes
          BY <1>1, <1>2, <1>4, EvictionMakesRoom
        <5> QED
          BY <5>1, <5>2
      <4>2. CASE v # w
        <5>1. UsedBytes(j) + ObjectSize <= CacheMaxBytes
          BY <2>6, <4>2 DEF CacheInv, SpaceInv, RoomMade
        <5> QED
          BY <3>1, <5>1, CacheAssumption
      <4> QED
        BY <4>1, <4>2
    <3>4. CacheBounded'
      BY <3>1, CacheAssumption DEF CacheInv, SpaceInv, CacheBounded
    <3> QED
      BY <3>2, <3>3, <3>4 DEF SpaceInv
  <2> QED
    BY <1>0, <1>1, <1>2, <2>5, <2>7, FlowStepKeeps
<1> QED
  BY <1>3, <1>4

LEMMA CommitSteps ==
    ASSUME CacheInv, NEW w \in Flows, CommitPromotion(w) \/ TargetFails(w)
    PROVE  CacheInv'
<1>0. /\ flow[w] \in FlowRow /\ FlowShape(flow[w]) /\ fills \subseteq FillRow /\ version \in Nat
      /\ flow \in [Flows -> FlowRow] /\ cacheEntry \in [CacheObjects -> EntryRow]
      /\ \A o \in CacheObjects : cacheEntry[o].ver <= version
  BY DEF CacheInv, CacheShape
<1>1. /\ flow[w].pc = "commit" /\ UNCHANGED <<origin, version, reserved, fills>>
  BY DEF CommitPromotion, TargetFails
<1>2. flow[w].at \in CacheMounts /\ flow[w].o \in CacheObjects /\ ~flow[w].room
  BY <1>0, <1>1 DEF FlowShape, FlowRow
<1>3. CASE TargetFails(w)
  <2> DEFINE k == flow[w].at
             r == [flow[w] EXCEPT !.pc = "targets", !.at = "none", !.left = @ \ {k}]
  <2>1. flow' = [flow EXCEPT ![w] = r] /\ UNCHANGED <<claims, cacheEntry>>
    BY <1>3, Zenon DEF TargetFails
  <2>2. r \in FlowRow
    BY <1>0 DEF FlowRow, CachePcs
  <2>3. FlowShape(r) /\ r.pc # "commit" /\ r.claim = flow[w].claim /\ r.o = flow[w].o /\ r.room = flow[w].room
    BY <1>0, <1>1 DEF FlowRow, FlowShape
  <2> HIDE DEF r
  <2>4. FlowAt(w, r) /\ ClaimStep(w, r) /\ RoomStep(w, r)
    BY <1>1, <2>1, <2>2, <2>3 DEF FlowAt, ClaimStep, RoomStep
  <2> QED
    BY <1>0, <1>1, <2>1, <2>3, <2>4, QuietFlowStep
<1>4. CASE CommitPromotion(w) /\ flow[w].ver # version
  BY <1>0, <1>1, <1>2, <1>4, QuitStep DEF CommitPromotion
<1>5. ASSUME CommitPromotion(w), flow[w].ver = version,
             NEW k \in CacheMounts, k = flow[w].at, NEW o \in CacheObjects, o = flow[w].o
      PROVE  CacheInv'
  <2>1. cacheEntry' = [cacheEntry EXCEPT ![o] = [at |-> k, ver |-> version]] /\ Quit(w) /\ Unclaim(w)
    BY <1>5 DEF CommitPromotion
  <2>2. FlowAt(w, NoFlow) /\ ClaimStep(w, NoFlow)
    BY <2>1, NoFlowRow DEF FlowAt, ClaimStep, Quit
  <2>3. RoomStep(w, NoFlow)
    BY <1>0, <1>1, <1>2, NoFlowRow DEF RoomStep, FlowRow, NoFlow
  <2>4. [at |-> k, ver |-> version] \in EntryRow
    BY <1>0 DEF EntryRow
  <2>5. /\ cacheEntry' \in [CacheObjects -> EntryRow]
        /\ \A x \in CacheObjects : cacheEntry'[x].ver <= version
    BY <1>0, <2>1, <2>4
  <2>6. /\ On(k)' \subseteq On(k) \cup {o}
        /\ \A j \in CacheMounts : j # k => On(j)' \subseteq On(j)
    BY <1>0, <2>1 DEF On
  <2>7. flow'[w] = NoFlow /\ \A v \in Flows : v # w => flow'[v] = flow[v]
    BY <2>2, FlowEffect DEF CacheInv
  <2>8. \A v \in Flows : flow'[v].pc = "commit" => v # w /\ flow[v].pc = "commit" /\ flow'[v].at = flow[v].at
    BY <2>7, NoFlowRow
  <2>9. UsedBytes(k)' <= UsedBytes(k) + ObjectSize /\ UsedBytes(k) + ObjectSize <= CacheMaxBytes
    BY <1>1, <1>5, <2>6, OnGrows DEF CacheInv, SpaceInv, RoomMade
  <2>10. \A j \in CacheMounts : UsedBytes(j)' \in Nat /\ UsedBytes(j) \in Nat /\ (j # k => UsedBytes(j)' <= UsedBytes(j))
    <3>1. \A j \in CacheMounts : UsedBytes(j) \in Nat
      BY OnCounts
    <3>2. \A j \in CacheMounts : UsedBytes(j)' \in Nat
      <4> SUFFICES ASSUME NEW j \in CacheMounts PROVE UsedBytes(j)' \in Nat
        OBVIOUS
      <4>1. On(j)' \subseteq CacheObjects
        BY DEF On
      <4>2. Cardinality(On(j)') \in Nat
        BY <4>1, CacheAssumption, FS_Subset, FS_CardinalityType
      <4> QED
        BY <4>2, CacheAssumption DEF UsedBytes
    <3> QED
      BY <2>6, <3>1, <3>2, OnShrinks
  <2>11. SpaceInv'
    <3>1. MountsLocked'
      BY <2>8 DEF CacheInv, SpaceInv, MountsLocked
    <3>2. RoomMade'
      <4> SUFFICES ASSUME NEW v \in Flows, NEW j \in CacheMounts, flow'[v].pc = "commit", flow'[v].at = j
                   PROVE  UsedBytes(j)' + ObjectSize <= CacheMaxBytes
        BY DEF RoomMade
      <4>1. v # w /\ flow[v].pc = "commit" /\ flow[v].at = j
        BY <2>8
      <4>2. j # k
        BY <1>1, <1>5, <4>1 DEF CacheInv, SpaceInv, MountsLocked
      <4>3. UsedBytes(j) + ObjectSize <= CacheMaxBytes
        BY <4>1 DEF CacheInv, SpaceInv, RoomMade
      <4> QED
        BY <2>10, <4>2, <4>3, CacheAssumption
    <3>3. CacheBounded'
      <4> SUFFICES ASSUME NEW j \in CacheMounts PROVE UsedBytes(j)' <= CacheMaxBytes
        BY DEF CacheBounded
      <4>1. UsedBytes(j) <= CacheMaxBytes
        BY DEF CacheInv, SpaceInv, CacheBounded
      <4> QED
        BY <2>9, <2>10, <4>1, CacheAssumption
    <3> QED
      BY <3>1, <3>2, <3>3 DEF SpaceInv
  <2> QED
    BY <1>0, <1>1, <2>2, <2>3, <2>5, <2>11, FlowStepKeeps
<1> QED
  BY <1>2, <1>3, <1>4, <1>5
LEMMA FileSteps ==
    ASSUME CacheInv,
           \/ EncodeStart \/ EncodePublishes \/ EncodeEnd \/ CloseCache
           \/ \E k \in CacheMounts : \/ \E V \in SUBSET CacheObjects : Prune(k, V)
                                     \/ \E o \in CacheObjects : RemoveObject(k, o)
    PROVE  CacheInv'
<1>0. CacheShape /\ cacheEntry \in [CacheObjects -> EntryRow] /\ version \in Nat
      /\ origin \in [CacheObjects -> Nat]
  BY DEF CacheInv, CacheShape
<1>f. UNCHANGED <<flow, claims, reserved, fills>>
  BY DEF EncodeStart, EncodePublishes, EncodeEnd, CloseCache, Prune, RemoveObject
<1>r. ClaimsInv' /\ RoomInv'
  BY <1>f DEF CacheInv, ClaimsInv, Claimants, RoomInv, Capturers
<1>e. NoEntry \in EntryRow /\ NoEntry.ver = 0 /\ NoEntry.at = "none"
  BY DEF NoEntry, EntryRow
<1>s. ASSUME version' \in Nat, origin' \in [CacheObjects -> Nat],
             cacheEntry' \in [CacheObjects -> EntryRow],
             \A o \in CacheObjects : cacheEntry'[o].ver <= version',
             \A k \in CacheMounts : On(k)' \subseteq On(k)
      PROVE  CacheInv'
  <2>1. CacheShape'
    BY <1>0, <1>f, <1>s DEF CacheShape, FlowShape
  <2>2. SpaceInv'
    BY <1>f, <1>s, SpaceShrinks
  <2> QED
    BY <1>r, <2>1, <2>2 DEF CacheInv
<1>1. CASE EncodeStart \/ EncodeEnd
  <2>1. version' = version + 1 /\ cacheEntry' = [o \in CacheObjects |-> NoEntry] /\ UNCHANGED origin
    BY <1>1 DEF EncodeStart, EncodeEnd, InvalidateFile
  <2>2. \A k \in CacheMounts : On(k)' \subseteq On(k)
    BY <1>e, <2>1, CacheAssumption DEF On
  <2>3. version' \in Nat /\ cacheEntry' \in [CacheObjects -> EntryRow] /\ origin' \in [CacheObjects -> Nat]
    BY <1>0, <1>e, <2>1
  <2>4. \A o \in CacheObjects : cacheEntry'[o].ver <= version'
    BY <1>0, <1>e, <2>1
  <2> QED
    BY <1>s, <2>2, <2>3, <2>4
<1>2. CASE EncodePublishes \/ CloseCache \/ \E k \in CacheMounts, o \in CacheObjects : RemoveObject(k, o)
  <2>1. UNCHANGED <<version, cacheEntry>> /\ origin' \in [CacheObjects -> Nat]
    <3>1. CASE EncodePublishes
      BY <1>0, <3>1 DEF EncodePublishes
    <3>2. CASE CloseCache \/ \E k \in CacheMounts, o \in CacheObjects : RemoveObject(k, o)
      BY <1>0, <3>2 DEF CloseCache, RemoveObject
    <3> QED
      BY <1>2, <3>1, <3>2
  <2>2. \A k \in CacheMounts : On(k)' \subseteq On(k)
    BY <2>1 DEF On
  <2> QED
    BY <1>0, <1>s, <2>1, <2>2 DEF CacheShape
<1>3. ASSUME NEW k \in CacheMounts, NEW V \in SUBSET CacheObjects, Prune(k, V) PROVE CacheInv'
  <2> DEFINE W == V \cup {o \in On(k) : cacheEntry[o].ver # version}
  <2>1. cacheEntry' = Evicted(k, W) /\ W \in SUBSET On(k) /\ UNCHANGED <<origin, version>>
    BY <1>3 DEF Prune, Victims
  <2> HIDE DEF W
  <2>2. /\ cacheEntry' \in [CacheObjects -> EntryRow]
        /\ \A o \in CacheObjects : cacheEntry'[o].ver <= version
        /\ \A j \in CacheMounts : On(j)' \subseteq On(j)
    BY <2>1, Evictions
  <2> QED
    BY <1>0, <1>s, <2>1, <2>2
<1> QED
  BY <1>1, <1>2, <1>3

LEMMA CacheInvHolds == CacheSpec => []CacheInv
<1>1. ASSUME CacheInit PROVE CacheInv
  <2>1. /\ NoFlow \in FlowRow /\ FlowShape(NoFlow) /\ ~NoFlow.claim /\ ~NoFlow.room /\ NoFlow.pc = "idle"
        /\ NoEntry \in EntryRow /\ NoEntry.ver = 0 /\ NoEntry.at = "none"
    BY NoFlowRow DEF NoEntry, EntryRow
  <2>2. flow = [w \in Flows |-> NoFlow] /\ cacheEntry = [o \in CacheObjects |-> NoEntry]
        /\ claims = {} /\ reserved = 0 /\ fills = {} /\ version = 0
        /\ origin = [o \in CacheObjects |-> 1]
    BY <1>1 DEF CacheInit
  <2>3. CacheShape
    <3>1. \A w \in Flows : flow[w] = NoFlow
      BY <2>2
    <3>2. \A w \in Flows : FlowShape(flow[w])
      BY <2>1, <3>1, Zenon
    <3> QED
      BY <2>1, <2>2, <3>2 DEF CacheShape
  <2>4. ClaimsInv
    BY <2>1, <2>2 DEF ClaimsInv, Claimants
  <2>5. RoomInv
    <3>1. Capturers = {}
      BY <2>1, <2>2 DEF Capturers
    <3>2. Cardinality(Capturers) = 0
      BY <3>1, FS_EmptySet, Zenon
    <3> QED
      BY <2>2, <3>2, CacheAssumption DEF RoomInv
  <2>6. SpaceInv
    <3>1. \A k \in CacheMounts : On(k) = {}
      BY <2>1, <2>2, CacheAssumption DEF On
    <3>2. \A k \in CacheMounts : UsedBytes(k) = 0
      <4> SUFFICES ASSUME NEW k \in CacheMounts PROVE UsedBytes(k) = 0
        OBVIOUS
      <4>1. Cardinality(On(k)) = 0
        BY <3>1, FS_EmptySet, Zenon
      <4> QED
        BY <4>1, CacheAssumption DEF UsedBytes
    <3> QED
      BY <2>1, <2>2, <3>2, CacheAssumption DEF SpaceInv, MountsLocked, RoomMade, CacheBounded
  <2> QED
    BY <2>3, <2>4, <2>5, <2>6 DEF CacheInv
<1>2. ASSUME CacheInv, [CacheNext]_cacheVars PROVE CacheInv'
  <2>1. CASE UNCHANGED cacheVars
    <3>1. UNCHANGED <<version, reserved, origin, cacheEntry, flow, fills, claims>>
      BY <2>1 DEF cacheVars
    <3>2. CacheShape' /\ ClaimsInv' /\ RoomInv'
      BY <1>2, <3>1 DEF CacheInv, CacheShape, FlowShape, ClaimsInv, Claimants, RoomInv, Capturers
    <3>3. SpaceInv'
      BY <1>2, <3>1 DEF CacheInv, SpaceInv, MountsLocked, RoomMade, CacheBounded, UsedBytes, On
    <3> QED
      BY <3>2, <3>3 DEF CacheInv
  <2>2. ASSUME NEW w \in Flows, FlowStep(w) PROVE CacheInv'
    BY <1>2, <2>2, OpenSteps, CaptureSteps, PromoteStep, CommitSteps DEF FlowStep
  <2> QED
    BY <1>2, <2>1, <2>2, FileSteps DEF CacheNext
<1> QED
  BY <1>1, <1>2, PTL DEF CacheSpec

(* The entries on a cache mount never exceed the size of its membership,   *)
(* whichever promotions, fill jobs and evictions run at the same time: the *)
(* lock of a membership is held from the eviction that makes room to the   *)
(* commit that uses it (promoteToTarget, commitPromotion).                 *)
THEOREM CacheStaysBounded == CacheSpec => []CacheBounded
<1>1. CacheInv => CacheBounded
  BY DEF CacheInv, SpaceInv
<1> QED
  BY <1>1, CacheInvHolds, PTL

(* Every claim belongs to exactly one request or promotion that gives it   *)
(* back, and the reserved workspace bytes are those of the captures under  *)
(* way (claim, reserveWorkspace, and their releases).                      *)
THEOREM ClaimsAreOwned == CacheSpec => []ClaimsOwned
<1>1. CacheInv => ClaimsOwned
  BY DEF CacheInv, ClaimsInv, Claimants, RoomInv, Capturers, ClaimsOwned
<1> QED
  BY <1>1, CacheInvHolds, PTL

-----------------------------------------------------------------------------
(* Totals.                                                                 *)

(* A function whose values can be added up: finitely many natural numbers. *)
Sizes(f) == IsFiniteSet(DOMAIN f) /\ \A x \in DOMAIN f : f[x] \in Nat

(* A total is a natural number.                                            *)
LEMMA UnitsFinite ==
    ASSUME NEW f, Sizes(f)
    PROVE  IsFiniteSet(Units(f)) /\ Total(f) \in Nat
<1> DEFINE D == DOMAIN f
           T == {{x} \X (1..f[x]) : x \in D}
           h == [x \in D |-> {x} \X (1..f[x])]
<1>1. h \in Surjection(D, T)
  BY DEF Surjection
<1>2. IsFiniteSet(T)
  <2> HIDE DEF T, h
  <2> QED
    BY <1>1, FS_Surjection DEF Sizes
<1>3. ASSUME NEW x \in D PROVE IsFiniteSet({x} \X (1..f[x]))
  <2>1. f[x] \in Nat
    BY DEF Sizes
  <2>2. 1 \in Int /\ f[x] \in Int
    BY <2>1
  <2>3. IsFiniteSet({x}) /\ IsFiniteSet(1..f[x])
    BY <2>2, FS_Singleton, FS_Interval, Zenon
  <2> QED
    BY <2>3, FS_Product
<1>4. \A t \in T : IsFiniteSet(t)
  BY <1>3
<1>5. Units(f) = UNION T
  BY DEF Units
<1> HIDE DEF T
<1> QED
  BY <1>2, <1>4, <1>5, FS_UNION, FS_CardinalityType DEF Total

(* The units of a value, and the value of a unit.                          *)
LEMMA UnitOf ==
    ASSUME NEW f, NEW x, NEW i
    PROVE  <<x, i>> \in Units(f) <=> x \in DOMAIN f /\ i \in 1..f[x]
BY DEF Units

LEMMA UnitsArePairs ==
    ASSUME NEW f, NEW u \in Units(f)
    PROVE  \E x \in DOMAIN f : \E i \in 1..f[x] : u = <<x, i>>
BY DEF Units

(* A total over fewer or smaller values is no larger. *)
Below(f, g) == \A x \in DOMAIN f : f[x] = 0 \/ (x \in DOMAIN g /\ f[x] <= g[x])

(* A sum over fewer sessions or links is no larger.                        *)
LEMMA TotalMonotonic ==
    ASSUME NEW f, NEW g, Sizes(f), Sizes(g), Below(f, g)
    PROVE  Total(f) <= Total(g) /\ Total(f) \in Nat /\ Total(g) \in Nat
<1>1. Units(f) \subseteq Units(g)
  <2> SUFFICES ASSUME NEW u \in Units(f) PROVE u \in Units(g)
    OBVIOUS
  <2>1. PICK x \in DOMAIN f : \E i \in 1..f[x] : u = <<x, i>>
    BY UnitsArePairs
  <2>2. PICK i \in 1..f[x] : u = <<x, i>>
    BY <2>1
  <2>3. f[x] \in Nat
    BY DEF Sizes
  <2>4. x \in DOMAIN g /\ f[x] <= g[x]
    BY <2>2, <2>3 DEF Below
  <2>5. g[x] \in Nat
    BY <2>4 DEF Sizes
  <2>6. i \in 1..g[x]
    BY <2>2, <2>3, <2>4, <2>5
  <2> QED
    BY <2>2, <2>4, <2>6, UnitOf
<1> QED
  BY <1>1, UnitsFinite, FS_Subset DEF Total

(* A total is that of its parts. *)
Parts(f, g, h) ==
    /\ DOMAIN f = DOMAIN g \cup DOMAIN h /\ DOMAIN g \cap DOMAIN h = {}
    /\ \A x \in DOMAIN g : g[x] = f[x]
    /\ \A x \in DOMAIN h : h[x] = f[x]

(* The total of two parts is that of both.                                 *)
LEMMA TotalSplit ==
    ASSUME NEW f, NEW g, NEW h, Sizes(f), Parts(f, g, h)
    PROVE  /\ Sizes(g) /\ Sizes(h) /\ Total(g) \in Nat /\ Total(h) \in Nat
           /\ Total(f) = Total(g) + Total(h)
<1>0. /\ DOMAIN f = DOMAIN g \cup DOMAIN h /\ DOMAIN g \cap DOMAIN h = {}
      /\ \A x \in DOMAIN g : g[x] = f[x]
      /\ \A x \in DOMAIN h : h[x] = f[x]
  BY DEF Parts
<1>1. Sizes(g) /\ Sizes(h)
  <2>1. IsFiniteSet(DOMAIN g) /\ IsFiniteSet(DOMAIN h)
    BY <1>0, FS_Subset DEF Sizes
  <2> QED
    BY <1>0, <2>1 DEF Sizes
<1>2. Units(f) = Units(g) \cup Units(h)
  <2>1. ASSUME NEW u \in Units(f) PROVE u \in Units(g) \cup Units(h)
    <3>1. PICK x \in DOMAIN f : \E i \in 1..f[x] : u = <<x, i>>
      BY <2>1, UnitsArePairs
    <3> QED
      BY <1>0, <3>1, UnitOf
  <2>2. ASSUME NEW u \in Units(g) PROVE u \in Units(f)
    <3>1. PICK x \in DOMAIN g : \E i \in 1..g[x] : u = <<x, i>>
      BY <2>2, UnitsArePairs
    <3> QED
      BY <1>0, <3>1, UnitOf
  <2>3. ASSUME NEW u \in Units(h) PROVE u \in Units(f)
    <3>1. PICK x \in DOMAIN h : \E i \in 1..h[x] : u = <<x, i>>
      BY <2>3, UnitsArePairs
    <3> QED
      BY <1>0, <3>1, UnitOf
  <2> QED
    BY <2>1, <2>2, <2>3
<1>3. Units(g) \cap Units(h) = {}
  <2> SUFFICES ASSUME NEW u \in Units(g), u \in Units(h) PROVE FALSE
    OBVIOUS
  <2>1. PICK x \in DOMAIN g : \E i \in 1..g[x] : u = <<x, i>>
    BY UnitsArePairs
  <2>2. PICK y \in DOMAIN h : \E i \in 1..h[y] : u = <<y, i>>
    BY UnitsArePairs
  <2> QED
    BY <1>0, <2>1, <2>2
<1>4. /\ IsFiniteSet(Units(g)) /\ Cardinality(Units(g)) \in Nat
      /\ IsFiniteSet(Units(h)) /\ Cardinality(Units(h)) \in Nat
  BY <1>1, UnitsFinite DEF Total
<1>5. Cardinality({}) = 0
  BY FS_EmptySet
<1>6. Cardinality(Units(g) \cup Units(h))
        = Cardinality(Units(g)) + Cardinality(Units(h)) - Cardinality(Units(g) \cap Units(h))
  BY <1>4, FS_Union, Zenon
<1>7. Total(f) = Cardinality(Units(g)) + Cardinality(Units(h)) - 0
  BY <1>2, <1>3, <1>5, <1>6 DEF Total
<1> QED
  BY <1>1, <1>4, <1>7, UnitsFinite DEF Total

(* The total of a single value.                                            *)
LEMMA TotalOfOne ==
    ASSUME NEW f, NEW z, DOMAIN f = {z}, f[z] \in Nat
    PROVE  Sizes(f) /\ Total(f) = f[z]
<1>1. IsFiniteSet({z}) /\ Cardinality({z}) = 1
  BY FS_Singleton
<1>2. 1 \in Int /\ f[z] \in Int /\ f[z] - 1 + 1 = f[z]
  OBVIOUS
<1>3. IsFiniteSet(1..f[z]) /\ Cardinality(1..f[z]) = f[z]
  BY <1>2, FS_Interval
<1>4. Cardinality({z} \X (1..f[z])) = 1 * f[z]
  BY <1>1, <1>3, FS_Product, Zenon
<1>5. Units(f) = {z} \X (1..f[z])
  BY DEF Units
<1> QED
  BY <1>1, <1>4, <1>5 DEF Total, Sizes

(* One value is taken out of a total. *)
LEMMA TotalWithout ==
    ASSUME NEW f, NEW g, Sizes(f), NEW z \in DOMAIN f,
           DOMAIN g = DOMAIN f \ {z}, \A x \in DOMAIN g : g[x] = f[x]
    PROVE  Sizes(g) /\ Total(g) \in Nat /\ Total(f) = f[z] + Total(g)
<1>0. f[z] \in Nat
  BY DEF Sizes
<1>1. PICK h : DOMAIN h = {z} /\ h[z] = f[z]
  <2>1. DOMAIN [x \in {z} |-> f[z]] = {z} /\ [x \in {z} |-> f[z]][z] = f[z]
    OBVIOUS
  <2> QED
    BY <2>1
<1>2. Total(h) = f[z]
  BY <1>0, <1>1, TotalOfOne
<1>3. Parts(f, g, h)
  BY <1>1 DEF Parts
<1>4. Sizes(g) /\ Total(g) \in Nat /\ Total(f) = Total(g) + Total(h)
  BY <1>3, TotalSplit
<1> QED
  BY <1>0, <1>2, <1>4

-----------------------------------------------------------------------------
(* Uploads.  The inductive invariant.                                      *)

UploadRow == [status : UploadStatuses, gone : BOOLEAN, late : BOOLEAN,
              group : UploadGroups \cup {"none"}, kind : {"single", "partial", "final"},
              protocol : {"tus", "simple"}, size : Nat, path : UploadPaths, link : BOOLEAN,
              dropped : BOOLEAN]
ImportRow == [pc : {"idle", "claim", "move", "create", "record", "complete"},
              from : {"upload", "import"}, clone : UploadSessions \cup {"none"}]

UploadShape ==
    /\ usession \in [UploadSessions -> UploadRow]
    /\ udata \in [UploadSessions -> {"none", "part", "upload", "import", "named"}]
    /\ usweep \in [UploadSessions -> UploadPaths \cup {"idle"}]
    /\ import \in [Attempts -> ImportRow]
    /\ ufiles \subseteq UploadSessions

(* A link is made once per creation key, which is that of its group. *)
LinksUnique ==
    /\ \A l \in ulinks : l.key = l.group
    /\ \A l, m \in ulinks : l.group = m.group => l = m

(* A session has its row for good, and its group may have its video. *)
Started(s) == Row(s).status \notin {"none", "staging"}
HasLink(s) == \E l \in ulinks : l.group = Row(s).group

(* Nothing has ended the life of the session's bytes. *)
Wanted(s) == /\ Started(s) /\ Row(s).protocol = "tus" /\ ~Row(s).late /\ ~Row(s).dropped
             /\ ~HasLink(s)

DataOK(s) == Wanted(s) => /\ udata[s] \in {"part", "upload", "import"}
                          /\ Row(s).path = "import" => udata[s] = "import"

(* An attempt that found the bytes at the import path still finds them     *)
(* there; one that completes has its link; a clone is of a recorded file.  *)
ImportOK(a) ==
    /\ import[a].pc # "idle" => Started(a[1])
    /\ import[a].pc \in {"claim", "move"} /\ import[a].from = "import" /\ Wanted(a[1]) =>
           udata[a[1]] = "import"
    /\ import[a].pc = "complete" => HasLink(a[1])
    /\ import[a].clone # "none" => import[a].clone \in ufiles

SweepOK(s) == usweep[s] # "idle" => Started(s) /\ Row(s).late
FileOK(s) == Started(s) /\ HasLink(s)

UploadsInv ==
    /\ UploadShape /\ LinksUnique
    /\ \A s \in UploadSessions : DataOK(s) /\ SweepOK(s)
    /\ \A a \in Attempts : ImportOK(a)
    /\ \A s \in ufiles : FileOK(s)
-----------------------------------------------------------------------------
(* What a step does to one session.                                        *)

(* A session that has its row keeps it, its group and its protocol, and    *)
(* what has ended the life of its bytes stays so.                          *)
Follows(s, r) ==
    /\ r \in UploadRow
    /\ Started(s) => /\ r.status \notin {"none", "staging"}
                     /\ r.group = Row(s).group /\ r.protocol = Row(s).protocol
                     /\ Row(s).late => r.late
                     /\ Row(s).dropped => r.dropped

Steady(t) == Follows(t, usession'[t])

KeepsData(t) ==
    Wanted(t)' => /\ udata'[t] \in {"part", "upload", "import"}
                  /\ usession'[t].path = "import" => udata'[t] = "import"
                  /\ Wanted(t) /\ udata[t] = "import" => udata'[t] = "import"

LEMMA StaysWanted ==
    ASSUME NEW t \in UploadSessions, Steady(t), Started(t), ulinks \subseteq ulinks', Wanted(t)'
    PROVE  Wanted(t)
BY DEF Steady, Follows, Wanted, HasLink, Row, Started

LEMMA StaysLinked ==
    ASSUME NEW t \in UploadSessions, Steady(t), Started(t), ulinks \subseteq ulinks'
    PROVE  Started(t)' /\ (HasLink(t) => HasLink(t)')
BY DEF Steady, Follows, HasLink, Row, Started

LEMMA UploadStepKeeps ==
    ASSUME UploadsInv, UploadShape', LinksUnique', ulinks \subseteq ulinks',
           \A t \in UploadSessions : Steady(t) /\ KeepsData(t),
           \A t \in UploadSessions : usweep'[t] \in {usweep[t], "idle"} \/ SweepOK(t)',
           \A a \in Attempts : import'[a] = import[a] \/ ImportOK(a)',
           ufiles \subseteq ufiles', \A x \in ufiles' \ ufiles : FileOK(x)'
    PROVE  UploadsInv'
<1>0. /\ UploadShape /\ \A s \in UploadSessions : DataOK(s) /\ SweepOK(s)
      /\ \A a \in Attempts : ImportOK(a)
      /\ \A s \in ufiles : FileOK(s) /\ s \in UploadSessions
  BY DEF UploadsInv, UploadShape
<1>1. ASSUME NEW t \in UploadSessions PROVE DataOK(t)'
  BY DEF DataOK, KeepsData, Row
<1>2. ASSUME NEW t \in UploadSessions PROVE SweepOK(t)'
  <2>1. CASE usweep'[t] = "idle"
    BY <2>1 DEF SweepOK
  <2>2. CASE usweep'[t] = usweep[t] /\ usweep[t] # "idle"
    <3>1. Started(t) /\ Row(t).late
      BY <1>0, <2>2 DEF SweepOK
    <3>2. Started(t)' /\ Row(t)'.late
      BY <3>1 DEF Steady, Follows, Row, Started
    <3> QED
      BY <3>2 DEF SweepOK, Row
  <2> QED
    BY <2>1, <2>2
<1>3. ASSUME NEW a \in Attempts PROVE ImportOK(a)'
  <2> SUFFICES ASSUME import'[a] = import[a] PROVE ImportOK(a)'
    OBVIOUS
  <2> DEFINE s == a[1]
  <2>0. s \in UploadSessions /\ ImportOK(a)
    BY <1>0 DEF Attempts
  <2>1. /\ import'[a].clone # "none" => import'[a].clone \in ufiles'
        /\ import'[a].pc # "idle" => Started(s)
    BY <2>0 DEF ImportOK
  <2>2. CASE import'[a].pc = "idle"
    BY <2>1, <2>2 DEF ImportOK
  <2>3. CASE import'[a].pc # "idle"
    <3>1. Started(s) /\ Started(s)' /\ (HasLink(s) => HasLink(s)')
      BY <2>0, <2>1, <2>3, StaysLinked
    <3>2. Wanted(s)' => Wanted(s)
      BY <2>0, <3>1, StaysWanted
    <3>3. Wanted(s)' /\ udata[s] = "import" => udata'[s] = "import"
      BY <2>0, <3>2 DEF KeepsData
    <3> HIDE DEF s
    <3>4. ImportOK(a) <=>
            /\ import[a].pc # "idle" => Started(s)
            /\ import[a].pc \in {"claim", "move"} /\ import[a].from = "import" /\ Wanted(s) =>
                   udata[s] = "import"
            /\ import[a].pc = "complete" => HasLink(s)
            /\ import[a].clone # "none" => import[a].clone \in ufiles
      BY DEF ImportOK, s
    <3>5. ImportOK(a)' <=>
            /\ import'[a].pc # "idle" => Started(s)'
            /\ import'[a].pc \in {"claim", "move"} /\ import'[a].from = "import" /\ Wanted(s)' =>
                   udata'[s] = "import"
            /\ import'[a].pc = "complete" => HasLink(s)'
            /\ import'[a].clone # "none" => import'[a].clone \in ufiles'
      BY DEF ImportOK, s
    <3> QED
      BY <2>0, <2>1, <3>1, <3>2, <3>3, <3>4, <3>5
  <2> QED
    BY <2>2, <2>3
<1>4. ASSUME NEW x \in ufiles' PROVE FileOK(x)'
  <2>1. CASE x \in ufiles
    BY <1>0, <2>1, StaysLinked DEF FileOK
  <2> QED
    BY <2>1
<1> QED
  BY <1>1, <1>2, <1>3, <1>4 DEF UploadsInv

(* The row and the bytes of one session change at most. *)
Only(s, r, d) ==
    /\ usession' \in [UploadSessions -> UploadRow]
    /\ usession'[s] = r /\ \A t \in UploadSessions : t # s => usession'[t] = usession[t]
    /\ udata' \in [UploadSessions -> {"none", "part", "upload", "import", "named"}]
    /\ udata'[s] = d /\ \A t \in UploadSessions : t # s => udata'[t] = udata[t]

LEMMA Unmoved ==
    ASSUME UploadsInv, NEW t \in UploadSessions, Steady(t), Started(t)' => Started(t),
           ulinks \subseteq ulinks', udata'[t] = udata[t],
           usession'[t].path \in {usession[t].path, "upload"}
    PROVE  KeepsData(t)
<1> SUFFICES ASSUME Wanted(t)'
             PROVE  /\ udata'[t] \in {"part", "upload", "import"}
                    /\ usession'[t].path = "import" => udata'[t] = "import"
  BY DEF KeepsData
<1>1. Wanted(t)
  BY StaysWanted DEF Wanted
<1>2. DataOK(t)
  BY DEF UploadsInv
<1> QED
  BY <1>1, <1>2 DEF DataOK, Row

LEMMA OnlyKeeps ==
    ASSUME UploadsInv, NEW s \in UploadSessions, NEW r, NEW d, Only(s, r, d), Follows(s, r),
           ulinks \subseteq ulinks',
           \/ KeepsData(s)
           \/ /\ r.status \in {"none", "staging"} \/ Started(s)
              /\ d = udata[s] /\ r.path \in {Row(s).path, "upload"}
           \/ ~Wanted(s)'
    PROVE  \A t \in UploadSessions : Steady(t) /\ KeepsData(t)
<1>1. ASSUME NEW t \in UploadSessions, t # s PROVE Steady(t) /\ KeepsData(t)
  <2>1. Steady(t) /\ usession'[t] = usession[t] /\ udata'[t] = udata[t]
    BY <1>1 DEF Only, Steady, Follows, UploadsInv, UploadShape, Row, Started
  <2> QED
    BY <2>1, Unmoved DEF Started, Row
<1>2. Steady(s)
  BY DEF Only, Steady
<1>3. KeepsData(s)
  <2>1. CASE ~Wanted(s)'
    BY <2>1 DEF KeepsData
  <2>2. CASE /\ r.status \in {"none", "staging"} \/ Started(s)
             /\ d = udata[s] /\ r.path \in {Row(s).path, "upload"}
    BY <1>2, <2>2, Unmoved DEF Only, Row, Started
  <2> QED
    BY <2>1, <2>2
<1> QED
  BY <1>1, <1>2, <1>3
LEMMA RowStep ==
    ASSUME UploadsInv, NEW s \in UploadSessions, NEW r, NEW d, Only(s, r, d), Follows(s, r),
           \/ KeepsData(s)
           \/ /\ r.status \in {"none", "staging"} \/ Started(s)
              /\ d = udata[s] /\ r.path \in {Row(s).path, "upload"}
           \/ ~Wanted(s)',
           UNCHANGED <<import, ufiles, ulinks>>,
           usweep' \in [UploadSessions -> UploadPaths \cup {"idle"}],
           \A t \in UploadSessions : usweep'[t] \in {usweep[t], "idle"}
    PROVE  UploadsInv'
<1>1. \A t \in UploadSessions : Steady(t) /\ KeepsData(t)
  BY OnlyKeeps
<1>2. UploadShape' /\ LinksUnique'
  BY DEF UploadsInv, UploadShape, Only, LinksUnique
<1> QED
  BY <1>1, <1>2, UploadStepKeeps

LEMMA OneRow ==
    ASSUME UploadsInv, NEW s \in UploadSessions, NEW r \in UploadRow,
           usession' = [usession EXCEPT ![s] = r],
           NEW d \in {"none", "part", "upload", "import", "named"}, udata' = [udata EXCEPT ![s] = d]
    PROVE  Only(s, r, d)
BY DEF UploadsInv, UploadShape, Only

LEMMA SameData ==
    ASSUME UploadsInv, NEW s \in UploadSessions, UNCHANGED udata
    PROVE  udata' = [udata EXCEPT ![s] = udata[s]]
           /\ udata[s] \in {"none", "part", "upload", "import", "named"}
BY DEF UploadsInv, UploadShape

LEMMA SameRow ==
    ASSUME UploadsInv, NEW s \in UploadSessions
    PROVE  /\ UNCHANGED usession => usession' = [usession EXCEPT ![s] = Row(s)]
           /\ Row(s) \in UploadRow /\ Follows(s, Row(s))
BY DEF UploadsInv, UploadShape, Row, Follows, Started

LEMMA PathNames == "upload" \in UploadPaths /\ "import" \in UploadPaths
BY Zenon DEF UploadPaths

LEMMA NoUploadRow ==
    NoUpload \in UploadRow /\ NoUpload.status = "none"
BY DEF NoUpload, UploadRow, UploadStatuses, UploadPaths

(* A new status, with or without the path of the upload. *)
LEMMA StatusRow ==
    ASSUME UploadsInv, NEW s \in UploadSessions, Started(s), NEW x \in UploadStatuses \ {"none", "staging"}
    PROVE  /\ Follows(s, [Row(s) EXCEPT !.status = x])
           /\ [Row(s) EXCEPT !.status = x].path = Row(s).path
           /\ Follows(s, [Row(s) EXCEPT !.path = "upload", !.status = x])
           /\ [Row(s) EXCEPT !.path = "upload", !.status = x].path = "upload"
           /\ Follows(s, [Row(s) EXCEPT !.status = x, !.gone = TRUE])
           /\ [Row(s) EXCEPT !.status = x, !.gone = TRUE].path = Row(s).path
<1>1. Row(s) \in UploadRow
  BY SameRow
<1>2. "upload" \in UploadPaths
  BY DEF UploadPaths
<1>3. Follows(s, [Row(s) EXCEPT !.status = x]) /\ [Row(s) EXCEPT !.status = x].path = Row(s).path
  BY <1>1 DEF Follows, UploadRow
<1>4. /\ Follows(s, [Row(s) EXCEPT !.path = "upload", !.status = x])
      /\ [Row(s) EXCEPT !.path = "upload", !.status = x].path = "upload"
  BY <1>1, <1>2 DEF Follows, UploadRow
<1>5. /\ Follows(s, [Row(s) EXCEPT !.status = x, !.gone = TRUE])
      /\ [Row(s) EXCEPT !.status = x, !.gone = TRUE].path = Row(s).path
  BY <1>1 DEF Follows, UploadRow
<1> QED
  BY <1>3, <1>4, <1>5

LEMMA StatusNames ==
    {"none", "staging", "created", "uploading", "uploaded", "importing", "failed", "done",
     "canceled", "expired"} \subseteq UploadStatuses
BY DEF UploadStatuses, ActiveStatuses

LEMMA LiveStarted ==
    ASSUME NEW s \in UploadSessions
    PROVE  (Live(s) => Started(s)) /\ (Active(s) => Started(s) /\ Live(s))
BY DEF Live, Active, Started

-----------------------------------------------------------------------------
(* Steps of the client and the server.                                     *)

(* expireSession: the bytes go only of a session that is late. *)
LEMMA Expires ==
    ASSUME UploadsInv, NEW s \in UploadSessions, NEW path, ExpireSession(s, path),
           Started(s), Row(s).late
    PROVE  \E r, d : Only(s, r, d) /\ Follows(s, r) /\ ~Wanted(s)'
<1> DEFINE d == IF At(s, path) THEN "none" ELSE udata[s]
           r == IF Row(s).gone THEN Row(s) ELSE [Row(s) EXCEPT !.status = "expired", !.gone = TRUE]
<1>1. udata' = [udata EXCEPT ![s] = d] /\ d \in {"none", "part", "upload", "import", "named"}
  BY DEF ExpireSession, UploadsInv, UploadShape
<1>2. Follows(s, r)
  <2>0. "expired" \in UploadStatuses \ {"none", "staging"}
    BY StatusNames
  <2>1. Follows(s, [Row(s) EXCEPT !.status = "expired", !.gone = TRUE])
    BY <2>0, StatusRow, Zenon
  <2>2. Follows(s, Row(s))
    BY SameRow, Zenon
  <2> QED
    BY <2>1, <2>2, Zenon
<1>3. usession' = [usession EXCEPT ![s] = r]
  <2>1. CASE Row(s).gone
    BY <2>1, SameRow DEF ExpireSession
  <2>2. CASE ~Row(s).gone
    BY <2>2 DEF ExpireSession, Row
  <2> QED
    BY <2>1, <2>2
<1> HIDE DEF d, r
<1>4. r \in UploadRow
  BY <1>2 DEF Follows
<1>5. Only(s, r, d)
  BY <1>1, <1>3, <1>4, OneRow
<1>6. ~Wanted(s)'
  BY <1>2, <1>5 DEF Only, Follows, Wanted, Row
<1> QED
  BY <1>2, <1>5, <1>6

LEMMA CreateSteps ==
    ASSUME UploadsInv, NEW s \in UploadSessions,
           \/ \E g \in UploadGroups, kind \in {"single", "partial", "final"},
                 size \in 1..MaxUploadSize : PreUploadCreate(s, g, kind, size)
           \/ \E g \in UploadGroups, size \in 1..MaxUploadSize : StageSimpleUpload(s, g, size)
           \/ \E whole \in BOOLEAN : StoreSimpleUpload(s, whole)
    PROVE  UploadsInv'
<1>0. usweep \in [UploadSessions -> UploadPaths \cup {"idle"}] /\ 1..MaxUploadSize \subseteq Nat
  BY UploadsAssumption DEF UploadsInv, UploadShape
<1>1. ASSUME NEW g \in UploadGroups, NEW kind \in {"single", "partial", "final"},
             NEW size \in 1..MaxUploadSize, PreUploadCreate(s, g, kind, size)
      PROVE  UploadsInv'
  <2> DEFINE r == [NoUpload EXCEPT !.status = "created", !.group = g, !.kind = kind,
                                   !.size = size, !.path = "upload"]
             d == IF kind = "final" THEN "upload" ELSE "part"
  <2>0. /\ "created" \in UploadStatuses /\ size \in Nat /\ "upload" \in UploadPaths
        /\ NoUpload \in UploadRow
    BY <1>0, StatusNames, PathNames, NoUploadRow
  <2>1. r \in UploadRow /\ r.path = "upload"
    BY <2>0 DEF UploadRow
  <2>2. /\ ~Started(s) /\ usession' = [usession EXCEPT ![s] = r] /\ udata' = [udata EXCEPT ![s] = d]
        /\ UNCHANGED <<usweep, import, ufiles, ulinks>>
    BY <1>1, Zenon DEF PreUploadCreate, Started
  <2>3. d \in {"part", "upload"}
    OBVIOUS
  <2> HIDE DEF r, d
  <2>4. Only(s, r, d) /\ Follows(s, r)
    BY <2>1, <2>2, <2>3, OneRow DEF Follows
  <2>5. KeepsData(s)
    BY <2>1, <2>2, <2>3, <2>4 DEF KeepsData, Only, Wanted
  <2> QED
    BY <1>0, <2>2, <2>4, <2>5, RowStep
<1>2. ASSUME NEW g \in UploadGroups, NEW size \in 1..MaxUploadSize, StageSimpleUpload(s, g, size)
      PROVE  UploadsInv'
  <2> DEFINE r == [NoUpload EXCEPT !.status = "staging", !.group = g, !.protocol = "simple", !.size = size]
  <2>0. "staging" \in UploadStatuses /\ size \in Nat /\ NoUpload \in UploadRow
    BY <1>0, StatusNames, NoUploadRow
  <2>1. r \in UploadRow /\ r.status = "staging"
    BY <2>0 DEF UploadRow
  <2>2. /\ ~Started(s) /\ usession' = [usession EXCEPT ![s] = r]
        /\ UNCHANGED <<udata, usweep, import, ufiles, ulinks>>
    BY <1>2, Zenon DEF StageSimpleUpload, Started
  <2> HIDE DEF r
  <2>3. Only(s, r, udata[s]) /\ Follows(s, r)
    BY <2>1, <2>2, SameData, OneRow DEF Follows
  <2>4. ~Wanted(s)'
    BY <2>1, <2>3 DEF Only, Wanted, Started, Row
  <2> QED
    BY <1>0, <2>2, <2>3, <2>4, RowStep
<1>3. ASSUME StoreSimpleUpload(s, TRUE) PROVE UploadsInv'
  <2> DEFINE r == [Row(s) EXCEPT !.status = "uploaded", !.path = "upload"]
  <2>0. Row(s) \in UploadRow /\ "uploaded" \in UploadStatuses /\ "upload" \in UploadPaths
    BY SameRow, StatusNames, PathNames
  <2>1. r \in UploadRow /\ r.path = "upload"
    BY <2>0 DEF UploadRow
  <2>2. /\ ~Started(s) /\ usession' = [usession EXCEPT ![s] = r]
        /\ udata' = [udata EXCEPT ![s] = "upload"]
        /\ UNCHANGED <<usweep, import, ufiles, ulinks>>
    BY <1>3 DEF StoreSimpleUpload, Started, Row
  <2> HIDE DEF r
  <2>3. Only(s, r, "upload") /\ Follows(s, r)
    BY <2>1, <2>2, OneRow DEF Follows
  <2>4. KeepsData(s)
    BY <2>1, <2>2, <2>3 DEF KeepsData, Only, Wanted
  <2> QED
    BY <1>0, <2>2, <2>3, <2>4, RowStep
<1>4. ASSUME StoreSimpleUpload(s, FALSE) PROVE UploadsInv'
  <2>1. /\ ~Started(s) /\ usession' = [usession EXCEPT ![s] = NoUpload]
        /\ UNCHANGED <<udata, usweep, import, ufiles, ulinks>>
    BY <1>4 DEF StoreSimpleUpload, Started, Row
  <2>2. Only(s, NoUpload, udata[s]) /\ Follows(s, NoUpload)
    BY <2>1, NoUploadRow, SameData, OneRow DEF Follows
  <2>3. ~Wanted(s)'
    BY <2>2, NoUploadRow DEF Only, Wanted, Started, Row
  <2> QED
    BY <1>0, <2>1, <2>2, <2>3, RowStep
<1> QED
  BY <1>1, <1>2, <1>3, <1>4
LEMMA ClientSteps ==
    ASSUME UploadsInv, NEW s \in UploadSessions,
           \/ \E last \in BOOLEAN : Patch(s, last)
           \/ TouchExpired(s) \/ Terminate(s) \/ EnqueueFinalize(s) \/ EnqueueSimpleUpload(s)
    PROVE  UploadsInv'
<1>0. /\ usweep \in [UploadSessions -> UploadPaths \cup {"idle"}]
      /\ Row(s) \in UploadRow /\ Follows(s, Row(s))
      /\ UNCHANGED usession => usession' = [usession EXCEPT ![s] = Row(s)]
  BY SameRow DEF UploadsInv, UploadShape
<1>1. ASSUME NEW last \in BOOLEAN, Patch(s, last) PROVE UploadsInv'
  <2> DEFINE d == IF last THEN "upload" ELSE "part"
  <2>1. /\ udata' = [udata EXCEPT ![s] = d] /\ udata[s] = "part"
        /\ UNCHANGED <<usession, usweep, import, ufiles, ulinks>>
    BY <1>1 DEF Patch
  <2>2. d \in {"part", "upload"}
    OBVIOUS
  <2> HIDE DEF d
  <2>3. Only(s, Row(s), d)
    BY <1>0, <2>1, <2>2, OneRow
  <2>4. KeepsData(s)
    <3>1. Wanted(s)' <=> Wanted(s)
      BY <2>1 DEF Wanted, Started, HasLink, Row
    <3>2. DataOK(s)
      BY DEF UploadsInv
    <3> QED
      BY <2>1, <2>2, <2>3, <3>1, <3>2 DEF KeepsData, DataOK, Only, Row
  <2> QED
    BY <1>0, <2>1, <2>3, <2>4, RowStep
<1>2. CASE TouchExpired(s)
  <2>1. /\ Live(s) /\ Row(s).late /\ ExpireSession(s, Row(s).path)
        /\ UNCHANGED <<usweep, import, ufiles, ulinks>>
    BY <1>2 DEF TouchExpired, AuthorizeUploadResource, IsExpired
  <2>2. PICK r, d : Only(s, r, d) /\ Follows(s, r) /\ ~Wanted(s)'
    BY <2>1, LiveStarted, Expires
  <2> QED
    BY <1>0, <2>1, <2>2, RowStep
<1>3. CASE Terminate(s)
  <2> DEFINE r == [Row(s) EXCEPT !.dropped = TRUE]
  <2>1. /\ udata' = [udata EXCEPT ![s] = "none"] /\ usession' = [usession EXCEPT ![s] = r]
        /\ UNCHANGED <<usweep, import, ufiles, ulinks>>
    BY <1>3 DEF Terminate, Row
  <2>2. r \in UploadRow /\ r.dropped /\ Follows(s, r)
    BY <1>0 DEF UploadRow, Follows, Started
  <2> HIDE DEF r
  <2>3. Only(s, r, "none")
    BY <2>1, <2>2, OneRow
  <2>4. ~Wanted(s)'
    BY <2>2, <2>3 DEF Only, Wanted, Row
  <2> QED
    BY <1>0, <2>1, <2>2, <2>3, <2>4, RowStep
<1>4. CASE EnqueueFinalize(s) \/ EnqueueSimpleUpload(s)
  <2>1. UNCHANGED <<usession, udata, usweep, import, ufiles, ulinks>>
    BY <1>4 DEF EnqueueFinalize, EnqueueSimpleUpload
  <2>2. Only(s, Row(s), udata[s])
    BY <1>0, <2>1, SameData, OneRow
  <2>3. Row(s).status \in {"none", "staging"} \/ Started(s)
    BY DEF Started
  <2> QED
    BY <1>0, <2>1, <2>2, <2>3, RowStep
<1> QED
  BY <1>1, <1>2, <1>3, <1>4

LEMMA ServerSteps ==
    ASSUME UploadsInv, NEW s \in UploadSessions,
           \/ \E ch \in EventChannels : ConsumeEvent(ch, s)
           \/ RetentionEnds(s) \/ CleanupSession(s)
    PROVE  UploadsInv'
<1>0. /\ usweep \in [UploadSessions -> UploadPaths \cup {"idle"}]
      /\ Row(s) \in UploadRow /\ Follows(s, Row(s))
      /\ UNCHANGED usession => usession' = [usession EXCEPT ![s] = Row(s)]
  BY SameRow DEF UploadsInv, UploadShape
<1>1. ASSUME NEW ch \in EventChannels, ConsumeEvent(ch, s) PROVE UploadsInv'
  <2>1. UNCHANGED <<udata, usweep, import, ufiles, ulinks>>
    BY <1>1 DEF ConsumeEvent
  <2>2. CASE Live(s)
    <3> DEFINE r == Consumed(ch, s)
    <3>1. usession' = [usession EXCEPT ![s] = r]
      BY <1>1, <2>2 DEF ConsumeEvent
    <3>2. Started(s) /\ {"uploading", "uploaded", "canceled"} \subseteq UploadStatuses \ {"none", "staging"}
      BY <2>2, LiveStarted, StatusNames
    <3>3. Follows(s, r) /\ r.path \in {Row(s).path, "upload"}
      <4>1. CASE ch = "progress"
        <5>1. r = [Row(s) EXCEPT !.path = "upload", !.status = "uploading"]
          BY <4>1 DEF Consumed, UpdateSessionFromEvent
        <5>2. "uploading" \in UploadStatuses \ {"none", "staging"}
          BY <3>2
        <5>3. Follows(s, [Row(s) EXCEPT !.path = "upload", !.status = "uploading"]) /\ [Row(s) EXCEPT !.path = "upload", !.status = "uploading"].path = "upload"
          BY <3>2, <5>2, StatusRow, Zenon
        <5> QED
          BY <5>1, <5>3, Zenon
      <4>2. CASE ch = "complete"
        <5>1. r = [Row(s) EXCEPT !.path = "upload", !.status = "uploaded"]
          BY <4>2 DEF Consumed, CompleteSessionFromEvent
        <5>2. "uploaded" \in UploadStatuses \ {"none", "staging"}
          BY <3>2
        <5>3. Follows(s, [Row(s) EXCEPT !.path = "upload", !.status = "uploaded"]) /\ [Row(s) EXCEPT !.path = "upload", !.status = "uploaded"].path = "upload"
          BY <3>2, <5>2, StatusRow, Zenon
        <5> QED
          BY <5>1, <5>3, Zenon
      <4>3. CASE ch = "terminated"
        <5>1. r = [Row(s) EXCEPT !.status = "canceled", !.gone = TRUE]
          BY <4>3 DEF Consumed, TerminateSession
        <5>2. "canceled" \in UploadStatuses \ {"none", "staging"}
          BY <3>2
        <5>3. Follows(s, [Row(s) EXCEPT !.status = "canceled", !.gone = TRUE]) /\ [Row(s) EXCEPT !.status = "canceled", !.gone = TRUE].path = Row(s).path
          BY <3>2, <5>2, StatusRow, Zenon
        <5> QED
          BY <5>1, <5>3, Zenon
      <4> QED
        BY <4>1, <4>2, <4>3 DEF EventChannels
    <3> HIDE DEF r
    <3>4. Only(s, r, udata[s])
      <4>1. r \in UploadRow
        BY <3>3 DEF Follows
      <4>2. udata' = [udata EXCEPT ![s] = udata[s]]
            /\ udata[s] \in {"none", "part", "upload", "import", "named"}
        BY <2>1, SameData
      <4> QED
        BY <3>1, <4>1, <4>2, OneRow
    <3> QED
      BY <1>0, <2>1, <3>2, <3>3, <3>4, RowStep
  <2>3. CASE ~Live(s)
    <3>1. Only(s, Row(s), udata[s])
      BY <1>0, <1>1, <2>1, <2>3, SameData, OneRow DEF ConsumeEvent
    <3>2. Row(s).status \in {"none", "staging"} \/ Started(s)
      BY DEF Started
    <3> QED
      BY <1>0, <2>1, <3>1, <3>2, RowStep
  <2> QED
    BY <2>2, <2>3
<1>2. CASE RetentionEnds(s)
  <2> DEFINE r == [Row(s) EXCEPT !.late = TRUE]
  <2>1. /\ usession' = [usession EXCEPT ![s] = r]
        /\ UNCHANGED <<udata, usweep, import, ufiles, ulinks>>
    BY <1>2 DEF RetentionEnds, Row
  <2>2. r \in UploadRow /\ r.late /\ Follows(s, r)
    BY <1>0 DEF UploadRow, Follows, Started
  <2> HIDE DEF r
  <2>3. Only(s, r, udata[s])
    BY <2>1, <2>2, SameData, OneRow
  <2>4. ~Wanted(s)'
    BY <2>2, <2>3 DEF Only, Wanted, Row
  <2> QED
    BY <1>0, <2>1, <2>2, <2>3, <2>4, RowStep
<1>3. CASE CleanupSession(s)
  <2>1. /\ usweep[s] # "idle" /\ ExpireSession(s, usweep[s]) /\ usweep' = [usweep EXCEPT ![s] = "idle"]
        /\ UNCHANGED <<import, ufiles, ulinks>>
    BY <1>3 DEF CleanupSession
  <2>2. Started(s) /\ Row(s).late
    BY <2>1 DEF UploadsInv, SweepOK
  <2>3. PICK r, d : Only(s, r, d) /\ Follows(s, r) /\ ~Wanted(s)'
    BY <2>1, <2>2, Expires
  <2>4. /\ usweep' \in [UploadSessions -> UploadPaths \cup {"idle"}]
        /\ \A t \in UploadSessions : usweep'[t] \in {usweep[t], "idle"}
    BY <1>0, <2>1
  <2> QED
    BY <2>1, <2>3, <2>4, RowStep
<1> QED
  BY <1>1, <1>2, <1>3

LEMMA ServiceSteps ==
    ASSUME UploadsInv, (\E g \in UploadGroups : RetryImport(g)) \/ CleanupExpired \/ UploadsRestart
    PROVE  UploadsInv'
<1>0. UploadShape /\ usession \in [UploadSessions -> UploadRow]
  BY DEF UploadsInv, UploadShape
<1>u. ASSUME UNCHANGED <<usession, udata, ulinks>>
      PROVE  \A t \in UploadSessions : Steady(t) /\ KeepsData(t)
  <2> TAKE t \in UploadSessions
  <2>1. Steady(t)
    BY <1>0, <1>u DEF Steady, Follows, Row, Started
  <2> QED
    BY <1>u, <2>1, Unmoved DEF Started, Row
<1>1. CASE \E g \in UploadGroups : RetryImport(g)
  <2>1. UNCHANGED <<usession, udata, usweep, import, ufiles, ulinks>>
    BY <1>1 DEF RetryImport
  <2>2. UploadShape' /\ LinksUnique'
    BY <2>1 DEF UploadsInv, UploadShape, LinksUnique
  <2> QED
    BY <1>u, <2>1, <2>2, UploadStepKeeps
<1>2. CASE CleanupExpired
  <2>1. /\ UNCHANGED <<usession, udata, import, ufiles, ulinks>>
        /\ usweep' = [s \in UploadSessions |-> IF Active(s) /\ Row(s).late THEN Row(s).path ELSE "idle"]
    BY <1>2 DEF CleanupExpired
  <2>2. UploadShape' /\ LinksUnique'
    <3>1. \A s \in UploadSessions : Row(s).path \in UploadPaths
      BY <1>0 DEF UploadRow, Row
    <3>2. usweep' \in [UploadSessions -> UploadPaths \cup {"idle"}]
      BY <2>1, <3>1
    <3> QED
      BY <2>1, <3>2 DEF UploadsInv, UploadShape, LinksUnique
  <2>3. \A t \in UploadSessions : SweepOK(t)'
    <3> TAKE t \in UploadSessions
    <3>1. usweep'[t] # "idle" => Active(t) /\ Row(t).late
      BY <2>1
    <3>2. usweep'[t] # "idle" => Started(t) /\ Row(t).late
      BY <3>1, LiveStarted
    <3> QED
      BY <2>1, <3>2 DEF SweepOK, Started, Row
  <2> QED
    BY <1>u, <2>1, <2>2, <2>3, UploadStepKeeps
<1>3. CASE UploadsRestart
  <2>1. /\ usweep' = [s \in UploadSessions |-> "idle"] /\ import' = [a \in Attempts |-> NoImport]
        /\ usession' = [s \in UploadSessions |-> IF Row(s).status = "staging" THEN NoUpload ELSE Row(s)]
        /\ UNCHANGED <<udata, ufiles, ulinks>>
    BY <1>3 DEF UploadsRestart
  <2>2. NoImport \in ImportRow /\ NoImport.pc = "idle" /\ NoImport.clone = "none"
    BY DEF NoImport, ImportRow
  <2>3. \A t \in UploadSessions : /\ usession'[t] \in UploadRow
                                  /\ Started(t)' => Started(t)
                                  /\ Started(t) => usession'[t] = usession[t]
    BY <1>0, <2>1, NoUploadRow DEF Started, Row
  <2>4. UploadShape' /\ LinksUnique'
    <3>1. usession' \in [UploadSessions -> UploadRow]
      BY <2>1, <2>3
    <3>2. usweep' \in [UploadSessions -> UploadPaths \cup {"idle"}] /\ import' \in [Attempts -> ImportRow]
      BY <2>1, <2>2
    <3> QED
      BY <2>1, <3>1, <3>2 DEF UploadsInv, UploadShape, LinksUnique
  <2>5. \A t \in UploadSessions : Steady(t) /\ KeepsData(t)
    <3> TAKE t \in UploadSessions
    <3>1. Steady(t)
      BY <2>3 DEF Steady, Follows, Started, Row
    <3>2. CASE ~Started(t)
      BY <2>3, <3>1, <3>2 DEF KeepsData, Wanted
    <3>3. CASE Started(t)
      BY <2>1, <2>3, <3>1, <3>3, Unmoved
    <3> QED
      BY <3>1, <3>2, <3>3
  <2>6. \A a \in Attempts : ImportOK(a)'
    BY <2>1, <2>2 DEF ImportOK
  <2> QED
    BY <2>1, <2>4, <2>5, <2>6, UploadStepKeeps
<1> QED
  BY <1>1, <1>2, <1>3
-----------------------------------------------------------------------------
(* Steps of an import.                                                     *)

LEMMA ImportStepKeeps ==
    ASSUME UploadsInv, NEW a \in Attempts, NEW s \in UploadSessions, s = a[1],
           NEW i \in ImportRow, import' = [import EXCEPT ![a] = i],
           NEW r, NEW d, Only(s, r, d), Follows(s, r),
           \/ KeepsData(s)
           \/ /\ r.status \in {"none", "staging"} \/ Started(s)
              /\ d = udata[s] /\ r.path \in {Row(s).path, "upload"}
           \/ ~Wanted(s)',
           UNCHANGED <<usweep, ufiles, ulinks>>,
           i.pc # "idle" => Started(s),
           i.pc \in {"claim", "move"} /\ i.from = "import" /\ Wanted(s)' => d = "import",
           i.pc = "complete" => HasLink(s),
           i.clone # "none" => i.clone \in ufiles
    PROVE  UploadsInv'
<1>1. \A t \in UploadSessions : Steady(t) /\ KeepsData(t)
  BY OnlyKeeps
<1>2. UploadShape' /\ LinksUnique'
  BY DEF UploadsInv, UploadShape, Only, LinksUnique
<1>3. import'[a] = i /\ \A b \in Attempts : b # a => import'[b] = import[b]
  BY DEF UploadsInv, UploadShape
<1>4. ImportOK(a)'
  <2>1. Started(s) => Started(s)' /\ (HasLink(s) => HasLink(s)')
    BY <1>1, StaysLinked
  <2>2. i.pc = "complete" => HasLink(s)'
    BY <2>1
  <2>3. udata'[s] = d
    BY DEF Only
  <2> QED
    BY <1>3, <2>1, <2>2, <2>3 DEF ImportOK
<1> QED
  BY <1>1, <1>2, <1>3, <1>4, UploadStepKeeps

LEMMA ImportRows ==
    ASSUME UploadsInv, NEW a \in Attempts
    PROVE  /\ NoImport \in ImportRow /\ NoImport.pc = "idle" /\ NoImport.clone = "none"
           /\ import[a] \in ImportRow /\ ImportOK(a) /\ a[1] \in UploadSessions
           /\ \A pc \in {"idle", "claim", "move", "create", "record", "complete"} :
                 LET i == [import[a] EXCEPT !.pc = pc]
                 IN  i \in ImportRow /\ i.pc = pc /\ i.clone = import[a].clone /\ i.from = import[a].from
<1>1. NoImport \in ImportRow /\ NoImport.pc = "idle" /\ NoImport.clone = "none"
  BY DEF NoImport, ImportRow
<1>2. import[a] \in ImportRow /\ ImportOK(a) /\ a[1] \in UploadSessions
  BY DEF UploadsInv, UploadShape, Attempts
<1>3. ASSUME NEW pc \in {"idle", "claim", "move", "create", "record", "complete"}
      PROVE  LET i == [import[a] EXCEPT !.pc = pc]
             IN  i \in ImportRow /\ i.pc = pc /\ i.clone = import[a].clone /\ i.from = import[a].from
  BY <1>2 DEF ImportRow
<1> QED
  BY <1>1, <1>2, <1>3

(* The row of a session whose import fails, and the one that does not change. *)
LEMMA FailRow ==
    ASSUME UploadsInv, NEW s \in UploadSessions, usession' = FailFinalize(s) \/ UNCHANGED usession
    PROVE  \E r \in UploadRow : /\ usession' = [usession EXCEPT ![s] = r] /\ Follows(s, r)
                                /\ r.path = Row(s).path
                                /\ r.status \in {"none", "staging"} \/ Started(s)
<1>0. Row(s) \in UploadRow /\ Follows(s, Row(s)) /\ (Row(s).status \in {"none", "staging"} \/ Started(s))
  BY SameRow DEF Started
<1>1. CASE UNCHANGED usession
  BY <1>0, <1>1, SameRow
<1>2. CASE usession' = FailFinalize(s) /\ Live(s)
  <2> DEFINE r == [Row(s) EXCEPT !.status = "failed"]
  <2>1. usession' = [usession EXCEPT ![s] = r]
    BY <1>2 DEF FailFinalize, Row
  <2>2. "failed" \in UploadStatuses \ {"none", "staging"} /\ Started(s)
    BY <1>2, StatusNames, LiveStarted
  <2>3. Follows(s, r) /\ r.path = Row(s).path
    BY <2>2, StatusRow, Zenon
  <2> HIDE DEF r
  <2> QED
    BY <2>1, <2>2, <2>3 DEF Follows
<1>3. CASE usession' = FailFinalize(s) /\ ~Live(s)
  BY <1>1, <1>3 DEF FailFinalize
<1> QED
  BY <1>1, <1>2, <1>3

(* An attempt goes on or ends, and at most a status changes. *)
LEMMA QuietImport ==
    ASSUME UploadsInv, NEW a \in Attempts, NEW i \in ImportRow, import' = [import EXCEPT ![a] = i],
           \E r \in UploadRow : /\ usession' = [usession EXCEPT ![a[1]] = r] /\ Follows(a[1], r)
                                /\ r.path = Row(a[1]).path
                                /\ r.status \in {"none", "staging"} \/ Started(a[1]),
           UNCHANGED <<udata, usweep, ufiles, ulinks>>,
           i.pc # "idle" => Started(a[1]),
           i.pc \in {"claim", "move"} /\ i.from = "import" /\ Wanted(a[1]) => udata[a[1]] = "import",
           i.pc = "complete" => HasLink(a[1]),
           i.clone # "none" => i.clone \in ufiles
    PROVE  UploadsInv'
<1> DEFINE s == a[1]
<1>0. s \in UploadSessions
  BY ImportRows
<1>1. PICK r \in UploadRow : /\ usession' = [usession EXCEPT ![s] = r] /\ Follows(s, r)
                             /\ r.path = Row(s).path /\ (r.status \in {"none", "staging"} \/ Started(s))
  OBVIOUS
<1>2. udata' = [udata EXCEPT ![s] = udata[s]]
      /\ udata[s] \in {"none", "part", "upload", "import", "named"}
  BY <1>0, SameData
<1>3. Only(s, r, udata[s])
  <2>1. usession' = [usession EXCEPT ![s] = r]
    BY <1>1
  <2> HIDE DEF s
  <2> QED
    BY <1>0, <1>2, <2>1 DEF Only, UploadsInv, UploadShape
<1>4. i.pc \in {"claim", "move"} /\ i.from = "import" /\ Wanted(s)' => udata[s] = "import"
  <2>1. Steady(s)
    BY <1>1, <1>3 DEF Steady, Only
  <2>2. i.pc \in {"claim", "move"} => Started(s)
    OBVIOUS
  <2>3. Started(s) /\ Wanted(s)' => Wanted(s)
    BY <1>0, <2>1, StaysWanted
  <2> QED
    BY <2>2, <2>3
<1> HIDE DEF s
<1>5. s = a[1]
  BY DEF s
<1> QED
  BY <1>0, <1>1, <1>3, <1>4, <1>5, ImportStepKeeps
LEMMA LoadSteps ==
    ASSUME UploadsInv, NEW a \in Attempts,
           ImportLoad(a) \/ ImportLoadSimple(a) \/ TransitionToImporting(a)
    PROVE  UploadsInv'
<1>0. /\ NoImport \in ImportRow /\ NoImport.pc = "idle" /\ NoImport.clone = "none"
      /\ import[a] \in ImportRow /\ ImportOK(a) /\ a[1] \in UploadSessions
      /\ import \in [Attempts -> ImportRow]
  BY ImportRows DEF UploadsInv, UploadShape
<1>q. ASSUME NEW i \in ImportRow, import' = [import EXCEPT ![a] = i],
             usession' = FailFinalize(a[1]) \/ UNCHANGED usession,
             UNCHANGED <<udata, usweep, ufiles, ulinks>>,
             i.pc # "idle" => Started(a[1]),
             i.pc \in {"claim", "move"} /\ i.from = "import" => udata[a[1]] = "import",
             i.pc = "complete" => HasLink(a[1]), i.clone # "none" => i.clone \in ufiles
      PROVE  UploadsInv'
  BY <1>0, <1>q, FailRow, QuietImport
<1>k. ASSUME usession' = FailFinalize(a[1]) \/ UNCHANGED usession,
             UNCHANGED <<import, udata, usweep, ufiles, ulinks>>
      PROVE  UploadsInv'
  <2>1. import' = [import EXCEPT ![a] = import[a]]
    BY <1>0, <1>k
  <2> QED
    BY <1>0, <1>k, <2>1, FailRow, QuietImport DEF ImportOK
<1>1. CASE ImportLoad(a)
  <2> DEFINE s == a[1]
             at(pc, from) == [NoImport EXCEPT !.pc = pc, !.from = from]
  <2>0. /\ Started(s) /\ s \in UploadSessions /\ UNCHANGED <<usweep, ufiles, ulinks>>
        /\ usweep \in [UploadSessions -> UploadPaths \cup {"idle"}]
    BY <1>0, <1>1 DEF ImportLoad, Admitted, Started, UploadsInv, UploadShape
  <2>1. \A pc \in {"claim", "move", "complete"}, from \in {"upload", "import"} :
          at(pc, from) \in ImportRow /\ at(pc, from).pc = pc /\ at(pc, from).clone = "none"
          /\ at(pc, from).from = from
    BY <1>0 DEF ImportRow
  <2>2. CASE UNCHANGED <<import, usession, udata>>
    BY <1>k, <2>0, <2>2
  <2>3. CASE /\ FindFinalizedUpload(s) /\ import' = [import EXCEPT ![a] = at("complete", "import")]
             /\ UNCHANGED <<usession, udata>>
    <3>1. HasLink(s)
      BY <2>3 DEF FindFinalizedUpload, UploadsInv, FileOK
    <3> QED
      BY <1>q, <2>0, <2>1, <2>3, <3>1
  <2>4. CASE IsExpired(s) /\ ExpireSession(s, Row(s).path) /\ UNCHANGED import
    <3>1. PICK r, d : Only(s, r, d) /\ Follows(s, r) /\ ~Wanted(s)'
      BY <2>0, <2>4, Expires DEF IsExpired
    <3> QED
      BY <2>0, <2>4, <3>1, RowStep
  <2>5. CASE usession' = FailFinalize(s) /\ UNCHANGED <<import, udata>>
    BY <1>k, <2>0, <2>5
  <2>6. CASE /\ Staged(s) \in {"upload", "import"} /\ import' = [import EXCEPT ![a] = at("move", Staged(s))]
             /\ UNCHANGED <<usession, udata>>
    <3>1. Staged(s) = "import" => udata[s] = "import"
      BY DEF Staged
    <3> QED
      BY <1>q, <2>0, <2>1, <2>6, <3>1
  <2>7. CASE /\ Staged(s) \in {"upload", "import"} /\ import' = [import EXCEPT ![a] = at("claim", Staged(s))]
             /\ usession' = IF Live(s) /\ Row(s).status # "failed"
                            THEN [usession EXCEPT ![s].status = "uploaded"] ELSE usession
             /\ UNCHANGED udata
    <3>1. Staged(s) = "import" => udata[s] = "import"
      BY DEF Staged
    <3>2. CASE UNCHANGED usession
      BY <1>q, <2>0, <2>1, <2>7, <3>1, <3>2
    <3>3. CASE usession' = [usession EXCEPT ![s].status = "uploaded"]
      <4> DEFINE r == [Row(s) EXCEPT !.status = "uploaded"]
      <4>1. usession' = [usession EXCEPT ![s] = r]
        BY <3>3 DEF Row
      <4>2. "uploaded" \in UploadStatuses \ {"none", "staging"}
        BY StatusNames
      <4>3. Follows(s, r) /\ r.path = Row(s).path
        BY <2>0, <4>2, StatusRow, Zenon
      <4> HIDE DEF r
      <4>4. r \in UploadRow
        BY <4>3 DEF Follows
      <4> DEFINE i == at("claim", Staged(s))
      <4>5. i \in ImportRow /\ i.pc = "claim" /\ i.clone = "none" /\ i.from = Staged(s)
        BY <2>1, <2>7
      <4>6. import' = [import EXCEPT ![a] = i]
        BY <2>7
      <4> HIDE DEF i
      <4> QED
        BY <2>0, <2>7, <3>1, <4>1, <4>3, <4>4, <4>5, <4>6, QuietImport
    <3> QED
      BY <2>7, <3>2, <3>3
  <2> QED
    BY <1>1, <2>2, <2>3, <2>4, <2>5, <2>6, <2>7, Zenon DEF ImportLoad
<1>2. CASE ImportLoadSimple(a)
  <2> DEFINE s == a[1]
             at(pc) == [NoImport EXCEPT !.pc = pc]
  <2>0. Started(s) /\ UNCHANGED <<usession, udata, usweep, ufiles, ulinks>>
    BY <1>0, <1>2 DEF ImportLoadSimple, Admitted, Started
  <2>1. \A pc \in {"claim", "create"} :
          /\ at(pc) \in ImportRow /\ at(pc).pc = pc /\ at(pc).clone = "none"
          /\ at(pc).from = "upload"
    BY <1>0 DEF ImportRow, NoImport
  <2>2. CASE UNCHANGED import
    BY <1>k, <2>0, <2>2
  <2>3. ASSUME NEW pc \in {"claim", "create"}, import' = [import EXCEPT ![a] = at(pc)] PROVE UploadsInv'
    BY <1>q, <2>0, <2>1, <2>3
  <2> QED
    BY <1>2, <2>2, <2>3, Zenon DEF ImportLoadSimple
<1>3. CASE TransitionToImporting(a)
  <2> DEFINE s == a[1]
  <2>0. import[a].pc = "claim" /\ UNCHANGED <<udata, usweep, ufiles, ulinks>> /\ s \in UploadSessions
    BY <1>0, <1>3 DEF TransitionToImporting
  <2>1. Started(s)
    BY <1>0, <2>0 DEF ImportOK
  <2>2. CASE /\ usession' = [usession EXCEPT ![s].status = "importing"]
             /\ Goes(a, IF Row(s).protocol = "tus" THEN "move" ELSE "create")
    <3> DEFINE pc == IF Row(s).protocol = "tus" THEN "move" ELSE "create"
               i == [import[a] EXCEPT !.pc = pc]
               r == [Row(s) EXCEPT !.status = "importing"]
    <3>1. import' = [import EXCEPT ![a] = i] /\ usession' = [usession EXCEPT ![s] = r]
      BY <2>2 DEF Goes, Row
    <3>2. pc \in {"move", "create"}
      OBVIOUS
    <3> HIDE DEF pc
    <3>3. i \in ImportRow /\ i.pc = pc /\ i.clone = import[a].clone /\ i.from = import[a].from
      BY <1>0, <3>2 DEF ImportRow
    <3>4. "importing" \in UploadStatuses \ {"none", "staging"}
      BY StatusNames
    <3>5. Follows(s, r) /\ r.path = Row(s).path
      BY <2>0, <2>1, <3>4, StatusRow, Zenon
    <3> HIDE DEF r, i
    <3>6. r \in UploadRow
      BY <3>5 DEF Follows
    <3>7. import[a].from = "import" /\ Wanted(s) => udata[s] = "import"
      BY <1>0, <2>0 DEF ImportOK
    <3>8. import[a].clone # "none" => import[a].clone \in ufiles
      BY <1>0 DEF ImportOK
    <3> QED
      BY <2>0, <2>1, <3>1, <3>2, <3>3, <3>5, <3>6, <3>7, <3>8, QuietImport
  <2>3. CASE (\E how : Ends(a, how)) /\ UNCHANGED usession
    <3>1. import' = [import EXCEPT ![a] = NoImport]
      BY <2>3 DEF Ends
    <3> QED
      BY <1>0, <1>q, <2>0, <2>3, <3>1
  <2> QED
    BY <1>3, <2>2, <2>3 DEF TransitionToImporting
<1> QED
  BY <1>1, <1>2, <1>3
LEMMA CreateImportSteps ==
    ASSUME UploadsInv, NEW a \in Attempts,
           \/ ImportMove(a) \/ CreateFromKey(a) \/ PublishSource(a) \/ CreateRefused(a)
           \/ ImportFails(a) \/ \E f \in UploadSessions : CloneFileByHash(a, f)
    PROVE  UploadsInv'
<1> DEFINE s == a[1]
<1>0. /\ NoImport \in ImportRow /\ NoImport.pc = "idle" /\ NoImport.clone = "none"
      /\ import[a] \in ImportRow /\ ImportOK(a) /\ s \in UploadSessions
      /\ import \in [Attempts -> ImportRow]
      /\ Row(s) \in UploadRow /\ Follows(s, Row(s))
      /\ udata \in [UploadSessions -> {"none", "part", "upload", "import", "named"}]
      /\ UNCHANGED usession => usession' = [usession EXCEPT ![s] = Row(s)]
  BY ImportRows, SameRow DEF UploadsInv, UploadShape
<1>c. /\ import[a].clone # "none" => import[a].clone \in ufiles
      /\ import[a].pc # "idle" => Started(s)
  BY <1>0 DEF ImportOK
<1>i. \A pc \in {"idle", "claim", "move", "create", "record", "complete"} :
         LET i == [import[a] EXCEPT !.pc = pc]
         IN  i \in ImportRow /\ i.pc = pc /\ i.clone = import[a].clone /\ i.from = import[a].from
  BY ImportRows
<1>g. \A pc : Goes(a, pc) => import' = [import EXCEPT ![a] = [import[a] EXCEPT !.pc = pc]]
  BY DEF Goes
<1>e. \A how : Ends(a, how) => import' = [import EXCEPT ![a] = NoImport]
  BY DEF Ends
<1>q. ASSUME import' = [import EXCEPT ![a] = NoImport],
             usession' = FailFinalize(s) \/ UNCHANGED usession,
             UNCHANGED <<udata, usweep, ufiles, ulinks>>
      PROVE  UploadsInv'
  BY <1>0, <1>q, FailRow, QuietImport
<1>1. CASE CreateRefused(a) \/ ImportFails(a)
  BY <1>1, <1>e, <1>q DEF CreateRefused, ImportFails
<1>2. CASE ImportMove(a)
  <2>0. import[a].pc = "move" /\ UNCHANGED <<usweep, ufiles, ulinks>> /\ Started(s)
    BY <1>2, <1>c DEF ImportMove
  <2>1. CASE ~(import[a].from = "import" \/ udata[s] = "upload")
    BY <1>2, <1>e, <1>q, <2>0, <2>1 DEF ImportMove
  <2>2. CASE import[a].from = "import" \/ udata[s] = "upload"
    <3> DEFINE d == IF udata[s] = "upload" THEN "import" ELSE udata[s]
               r == [Row(s) EXCEPT !.path = "import"]
               i == [import[a] EXCEPT !.pc = "create"]
    <3>1. /\ udata' = [udata EXCEPT ![s] = d] /\ usession' = [usession EXCEPT ![s] = r]
          /\ import' = [import EXCEPT ![a] = i]
      BY <1>0, <1>2, <1>g, <2>2 DEF ImportMove, Row
    <3>2. d \in {"none", "part", "upload", "import", "named"} /\ (Wanted(s) => d = "import")
      BY <1>0, <2>0, <2>2 DEF ImportOK
    <3>3. r \in UploadRow /\ Follows(s, r)
      BY <1>0, PathNames DEF UploadRow, Follows, Started
    <3>4. i \in ImportRow /\ i.pc = "create" /\ i.clone = import[a].clone
      BY <1>i
    <3> HIDE DEF d, r, i
    <3>5. Only(s, r, d)
      BY <1>0, <3>1, <3>2, <3>3 DEF Only, UploadsInv, UploadShape
    <3>6. KeepsData(s)
      <4>1. Steady(s)
        BY <3>3, <3>5 DEF Steady, Only
      <4>2. Wanted(s)' => Wanted(s)
        BY <1>0, <2>0, <4>1, StaysWanted
      <4> QED
        BY <3>2, <3>5, <4>2 DEF KeepsData, Only
    <3>7. /\ i.pc # "idle" => Started(s) /\ i.pc \notin {"claim", "move", "complete"}
          /\ i.clone # "none" => i.clone \in ufiles
      BY <1>c, <2>0, <3>4
    <3> QED
      BY <1>0, <2>0, <3>1, <3>3, <3>4, <3>5, <3>6, <3>7, ImportStepKeeps
  <2> QED
    BY <2>1, <2>2
<1>3. CASE CreateFromKey(a)
  <2> DEFINE d == IF udata[s] = "import" \/ Readable(s) THEN "none" ELSE udata[s]
             i == [import[a] EXCEPT !.pc = "complete"]
  <2>0. /\ import[a].pc = "create" /\ UNCHANGED <<usession, usweep, ufiles, ulinks>> /\ Started(s)
        /\ udata' = [udata EXCEPT ![s] = d] /\ import' = [import EXCEPT ![a] = i]
        /\ LinkOf(Row(s).group) # {}
    BY <1>3, <1>c, <1>g DEF CreateFromKey
  <2>1. HasLink(s)
    BY <2>0 DEF LinkOf, CreationKey, HasLink, UploadsInv, LinksUnique
  <2>2. d \in {"none", "part", "upload", "import", "named"}
    BY <1>0
  <2>3. i \in ImportRow /\ i.pc = "complete" /\ i.clone = import[a].clone
    BY <1>i
  <2> HIDE DEF d, i
  <2>4. Only(s, Row(s), d)
    BY <1>0, <2>0, <2>2 DEF Only, UploadsInv, UploadShape
  <2>5. ~Wanted(s)'
    BY <2>0, <2>1 DEF Wanted, HasLink, Row
  <2>6. i.clone # "none" => i.clone \in ufiles
    BY <1>c, <2>3
  <2> QED
    BY <1>0, <2>0, <2>1, <2>3, <2>4, <2>5, <2>6, ImportStepKeeps
<1>4. CASE PublishSource(a)
  <2> DEFINE d == IF Row(s).protocol = "simple" THEN "named" ELSE udata[s]
             i == [import[a] EXCEPT !.pc = "record"]
  <2>0. /\ import[a].pc = "create" /\ UNCHANGED <<usession, usweep, ufiles, ulinks>> /\ Started(s)
        /\ udata' = [udata EXCEPT ![s] = d] /\ import' = [import EXCEPT ![a] = i]
    BY <1>4, <1>c, <1>g DEF PublishSource
  <2>1. d \in {"none", "part", "upload", "import", "named"} /\ (Row(s).protocol # "simple" => d = udata[s])
    BY <1>0
  <2>2. i \in ImportRow /\ i.pc = "record" /\ i.clone = import[a].clone
    BY <1>i
  <2> HIDE DEF d, i
  <2>3. Only(s, Row(s), d)
    BY <1>0, <2>0, <2>1 DEF Only, UploadsInv, UploadShape
  <2>4. ~Wanted(s)' \/ d = udata[s]
    BY <2>0, <2>1 DEF Wanted, Row
  <2>5. i.clone # "none" => i.clone \in ufiles
    BY <1>c, <2>2
  <2> QED
    BY <1>0, <2>0, <2>2, <2>3, <2>4, <2>5, ImportStepKeeps
<1>5. ASSUME NEW f \in UploadSessions, CloneFileByHash(a, f) PROVE UploadsInv'
  <2> DEFINE i == [import[a] EXCEPT !.pc = "record", !.clone = f]
  <2>0. /\ import[a].pc = "create" /\ UNCHANGED <<usession, udata, usweep, ufiles, ulinks>> /\ Started(s)
        /\ import' = [import EXCEPT ![a] = i] /\ f \in ufiles
    BY <1>5, <1>c DEF CloneFileByHash, SameHash
  <2>1. i \in ImportRow /\ i.pc = "record" /\ i.clone = f
    BY <1>0 DEF ImportRow
  <2> HIDE DEF i
  <2> QED
    BY <1>0, <2>0, <2>1, FailRow, QuietImport
<1> QED
  BY <1>1, <1>2, <1>3, <1>4, <1>5

LEMMA RecordSteps ==
    ASSUME UploadsInv, NEW a \in Attempts, RecordFile(a)
    PROVE  UploadsInv'
<1> DEFINE s == a[1]
           g == Row(s).group
           f == IF import[a].clone = "none" THEN s ELSE import[a].clone
<1>0. /\ NoImport \in ImportRow /\ NoImport.pc = "idle" /\ NoImport.clone = "none"
      /\ import[a] \in ImportRow /\ ImportOK(a) /\ s \in UploadSessions
      /\ import \in [Attempts -> ImportRow] /\ usession \in [UploadSessions -> UploadRow]
      /\ udata \in [UploadSessions -> {"none", "part", "upload", "import", "named"}]
  BY ImportRows DEF UploadsInv, UploadShape
<1>1. /\ import[a].pc = "record" /\ usweep' = usweep /\ Started(s)
      /\ import[a].clone # "none" => import[a].clone \in ufiles
  BY <1>0 DEF ImportOK, RecordFile
<1>2. CASE LinkOf(g) # {}
  <2>1. /\ import' = [import EXCEPT ![a] = NoImport] /\ usession' = FailFinalize(s)
        /\ UNCHANGED <<udata, usweep, ufiles, ulinks>>
    BY <1>2 DEF RecordFile, Ends
  <2> QED
    BY <1>0, <2>1, FailRow, QuietImport
<1>3. CASE LinkOf(g) = {}
  <2> DEFINE l == [key |-> CreationKey(g), file |-> f, group |-> g,
                   id |-> Cardinality(ulinks), lapsed |-> HeldStorage(s) < SizeOf(s)]
             i == [import[a] EXCEPT !.pc = "complete"]
  <2>1. /\ ulinks' = ulinks \cup {l} /\ ufiles' = ufiles \cup {f}
        /\ udata' = [udata EXCEPT ![s] = "none"] /\ import' = [import EXCEPT ![a] = i]
        /\ UNCHANGED <<usession, usweep>>
    BY <1>3 DEF RecordFile, Goes
  <2>2. l.group = g /\ l.key = g
    BY DEF CreationKey
  <2>3. i \in ImportRow /\ i.pc = "complete" /\ i.clone = import[a].clone
    BY <1>0 DEF ImportRow
  <2>4. f \in UploadSessions /\ (f # s => f \in ufiles)
    BY <1>0, <1>1 DEF UploadsInv, UploadShape
  <2> HIDE DEF l, i, f
  <2>5. \A m \in ulinks : m.group # g
    BY <1>3 DEF LinkOf, CreationKey, UploadsInv, LinksUnique
  <2>6. LinksUnique'
    BY <2>1, <2>2, <2>5 DEF UploadsInv, LinksUnique
  <2>7. UploadShape'
    BY <1>0, <2>1, <2>3, <2>4 DEF UploadsInv, UploadShape
  <2>8. HasLink(s)' /\ Started(s)'
    BY <1>1, <2>1, <2>2 DEF HasLink, Started, Row
  <2>9. \A t \in UploadSessions : Steady(t) /\ KeepsData(t)
    <3> TAKE t \in UploadSessions
    <3>1. Steady(t)
      BY <1>0, <2>1 DEF Steady, Follows, Started, Row
    <3>2. CASE t = s
      BY <2>8, <3>1, <3>2 DEF KeepsData, Wanted
    <3>3. CASE t # s
      <4>1. udata'[t] = udata[t]
        BY <1>0, <2>1, <3>3
      <4> QED
        BY <2>1, <3>1, <4>1, Unmoved DEF Started, Row
    <3> QED
      BY <3>2, <3>3
  <2>10. \A b \in Attempts : import'[b] = import[b] \/ ImportOK(b)'
    <3>1. ImportOK(a)'
      <4>1. import'[a] = i /\ (i.clone # "none" => i.clone \in ufiles')
        BY <1>0, <1>1, <2>1, <2>3
      <4> QED
        BY <2>3, <2>8, <4>1 DEF ImportOK
    <3> QED
      BY <1>0, <2>1, <3>1
  <2>11. \A x \in ufiles' \ ufiles : FileOK(x)'
    BY <2>1, <2>4, <2>8 DEF FileOK
  <2> QED
    BY <2>1, <2>6, <2>7, <2>9, <2>10, <2>11, UploadStepKeeps
<1> QED
  BY <1>2, <1>3

(* The row of a session of the group that is complete. *)
DoneRow(t, b) == [Row(t) EXCEPT !.status = "done", !.link = TRUE, !.gone = @ \/ b]

LEMMA DoneFollows ==
    ASSUME UploadsInv, NEW t \in UploadSessions, NEW b \in BOOLEAN
    PROVE  /\ Follows(t, DoneRow(t, b)) /\ DoneRow(t, b) \in UploadRow
           /\ DoneRow(t, b).group = Row(t).group /\ DoneRow(t, b).protocol = Row(t).protocol
<1>1. Row(t) \in UploadRow /\ "done" \in UploadStatuses
  BY SameRow, StatusNames
<1> QED
  BY <1>1 DEF DoneRow, Follows, UploadRow

LEMMA CompleteSteps ==
    ASSUME UploadsInv, NEW a \in Attempts, CompleteFinalize(a)
    PROVE  UploadsInv'
<1> DEFINE s == a[1]
           tus == Row(s).protocol = "tus"
           group == IF tus THEN {t \in Own(s) : Started(t)} ELSE {s}
<1>0. /\ NoImport \in ImportRow /\ NoImport.pc = "idle" /\ NoImport.clone = "none"
      /\ import[a] \in ImportRow /\ ImportOK(a) /\ s \in UploadSessions
  BY ImportRows
<1>1. /\ import \in [Attempts -> ImportRow] /\ usession \in [UploadSessions -> UploadRow]
      /\ udata \in [UploadSessions -> {"none", "part", "upload", "import", "named"}]
  BY DEF UploadsInv, UploadShape
<1>2. /\ import[a].pc = "complete" /\ import' = [import EXCEPT ![a] = NoImport]
      /\ UNCHANGED <<usweep, ufiles, ulinks>>
  BY Zenon DEF CompleteFinalize, Ends
<1>3. usession' = [t \in UploadSessions |-> IF t \in group THEN DoneRow(t, tus) ELSE Row(t)]
  BY Zenon DEF CompleteFinalize, DoneRow, Started
<1>4. udata' = [t \in UploadSessions |->
                  IF tus /\ t \in group /\ At(t, Row(t).path) THEN "none" ELSE udata[t]]
  BY Zenon DEF CompleteFinalize, Started
<1>5. HasLink(s) /\ Started(s)
  BY <1>0, <1>2 DEF ImportOK
<1>6. \A t \in group : t \in UploadSessions /\ (tus => HasLink(t)) /\ (~tus => t = s)
  <2>1. CASE tus
    BY <1>5, <2>1 DEF Own, Group, HasLink
  <2>2. CASE ~tus
    BY <1>0, <2>2
  <2> QED
    BY <2>1, <2>2
<1>7. (~tus => Row(s).protocol # "tus") /\ tus \in BOOLEAN
  OBVIOUS
<1> HIDE DEF tus, group
<1>8. ASSUME NEW t \in UploadSessions, t \in group
      PROVE  /\ Follows(t, usession'[t]) /\ usession'[t] \in UploadRow
             /\ usession'[t].group = Row(t).group /\ usession'[t].protocol = Row(t).protocol
  <2>1. usession'[t] = DoneRow(t, tus)
    BY <1>3, <1>8
  <2> QED
    BY <1>7, <2>1, DoneFollows
<1>9. ASSUME NEW t \in UploadSessions, t \notin group
      PROVE  usession'[t] = usession[t] /\ udata'[t] = udata[t]
  BY <1>3, <1>4, <1>9 DEF Row
<1>10. \A t \in UploadSessions : Steady(t) /\ KeepsData(t)
  <2> TAKE t \in UploadSessions
  <2>1. CASE t \in group
    <3>1. Steady(t)
      BY <1>8, <2>1 DEF Steady
    <3>2. ~Wanted(t)'
      <4>1. CASE tus
        <5>1. HasLink(t)
          BY <1>6, <2>1, <4>1
        <5>2. usession'[t].group = usession[t].group
          BY <1>8, <2>1 DEF Row
        <5>3. HasLink(t)'
          BY <1>2, <5>1, <5>2 DEF HasLink, Row
        <5> QED
          BY <5>3 DEF Wanted
      <4>2. CASE ~tus
        <5>1. usession'[t].protocol # "tus"
          BY <1>6, <1>7, <1>8, <2>1, <4>2
        <5> QED
          BY <5>1 DEF Wanted, Row
      <4> QED
        BY <4>1, <4>2
    <3> QED
      BY <3>1, <3>2 DEF KeepsData
  <2>2. CASE t \notin group
    <3>1. usession'[t] = usession[t] /\ udata'[t] = udata[t]
      BY <1>9, <2>2
    <3>2. Steady(t)
      BY <1>1, <3>1 DEF Steady, Follows, Started, Row
    <3> QED
      BY <1>2, <3>1, <3>2, Unmoved DEF Started, Row
  <2> QED
    BY <2>1, <2>2
<1>11. UploadShape' /\ LinksUnique'
  <2>1. \A t \in UploadSessions : usession'[t] \in UploadRow
    BY <1>1, <1>8, <1>9
  <2>2. usession' \in [UploadSessions -> UploadRow]
    BY <1>3, <2>1
  <2>3. udata' \in [UploadSessions -> {"none", "part", "upload", "import", "named"}]
    BY <1>1, <1>4
  <2>4. import' \in [Attempts -> ImportRow]
    BY <1>0, <1>1, <1>2
  <2> QED
    BY <1>2, <2>2, <2>3, <2>4 DEF UploadsInv, UploadShape, LinksUnique
<1>12. \A b \in Attempts : import'[b] = import[b] \/ ImportOK(b)'
  <2>1. import'[a] = NoImport
    BY <1>1, <1>2
  <2>2. ImportOK(a)'
    BY <1>0, <2>1 DEF ImportOK
  <2> QED
    BY <1>1, <1>2, <2>2
<1> QED
  BY <1>2, <1>10, <1>11, <1>12, UploadStepKeeps
-----------------------------------------------------------------------------
(* The theorems about uploads.                                             *)

LEMMA UploadsInvInit == UploadsInit => UploadsInv
<1> SUFFICES ASSUME UploadsInit PROVE UploadsInv
  OBVIOUS
<1>1. \A s \in UploadSessions : Row(s) = NoUpload /\ ~Started(s)
  BY NoUploadRow DEF UploadsInit, Row, Started
<1>2. /\ ulinks = {} /\ ufiles = {}
      /\ \A s \in UploadSessions : usweep[s] = "idle"
      /\ \A a \in Attempts : import[a] = NoImport
  BY DEF UploadsInit
<1>3. NoImport \in ImportRow /\ NoImport.pc = "idle" /\ NoImport.clone = "none"
  BY DEF NoImport, ImportRow
<1>4. UploadShape
  BY <1>3, NoUploadRow DEF UploadsInit, UploadShape
<1>5. \A s \in UploadSessions : DataOK(s) /\ SweepOK(s)
  BY <1>1, <1>2 DEF DataOK, SweepOK, Wanted
<1>6. \A a \in Attempts : ImportOK(a)
  BY <1>2, <1>3 DEF ImportOK
<1> QED
  BY <1>2, <1>4, <1>5, <1>6 DEF UploadsInv, LinksUnique

LEMMA UploadsInvHolds == UploadsSpec => []UploadsInv
<1>1. ASSUME UploadsInv, [UploadsNext]_uploadVars PROVE UploadsInv'
  <2>1. ASSUME NEW s \in UploadSessions, ClientStep(s) PROVE UploadsInv'
    BY <1>1, <2>1, CreateSteps, ClientSteps, Zenon DEF ClientStep
  <2>2. ASSUME NEW s \in UploadSessions, ServerStep(s) PROVE UploadsInv'
    BY <1>1, <2>2, ServerSteps, Zenon DEF ServerStep
  <2>3. ASSUME NEW a \in Attempts, ImportStep(a) PROVE UploadsInv'
    BY <1>1, <2>3, LoadSteps, CreateImportSteps, RecordSteps, CompleteSteps, Zenon
       DEF ImportStep
  <2>4. CASE (\E g \in UploadGroups : RetryImport(g)) \/ CleanupExpired \/ UploadsRestart
    BY <1>1, <2>4, ServiceSteps, Zenon
  <2>5. CASE UNCHANGED uploadVars
    BY <1>1, <2>5
       DEF uploadVars, UploadsInv, UploadShape, LinksUnique, DataOK, SweepOK, ImportOK, FileOK,
           Wanted, Started, HasLink, Row
  <2> QED
    BY <1>1, <2>1, <2>2, <2>3, <2>4, <2>5, Zenon DEF UploadsNext
<1> QED
  BY <1>1, UploadsInvInit, PTL DEF UploadsSpec

(* Finalization finds the bytes of every upload that is still wanted: late *)
(* events that put the path of the row back to the upload path, failed     *)
(* attempts, sweeps with an old path and restarts lose none of them        *)
(* (findStagedUpload, moveToImport, expireSession, completeFinalize).      *)
THEOREM UploadsAreKept == UploadsSpec => []UploadDataKept
<1>1. UploadsInv => UploadDataKept
  <2> SUFFICES ASSUME UploadsInv, NEW s \in UploadSessions, Active(s), Row(s).protocol = "tus",
                      ~Row(s).late, ~Row(s).dropped, ~HasLink(s)
               PROVE  Staged(s) # "missing"
    BY DEF UploadDataKept, HasLink
  <2>1. Started(s)
    BY LiveStarted
  <2>2. Wanted(s) /\ DataOK(s)
    BY <2>1 DEF Wanted, UploadsInv
  <2> QED
    BY <2>2 DEF DataOK, Staged
<1> QED
  BY <1>1, UploadsInvHolds, PTL

(* However often a group is finalized, by tasks, by direct requests and    *)
(* after restarts, it has one video at most: the unique creation key makes *)
(* the loser of a race fail (CreateFileContext, RecordFile).               *)
THEOREM OneVideoPerUpload == UploadsSpec => []OneLinkPerUpload
<1>1. UploadsInv => OneLinkPerUpload
  <2> SUFFICES ASSUME UploadsInv, NEW g \in UploadGroups
               PROVE  Cardinality({l \in ulinks : l.group = g}) <= 1
    BY DEF OneLinkPerUpload
  <2> DEFINE L == {l \in ulinks : l.group = g}
  <2>1. CASE L = {}
    <3>1. Cardinality(L) = 0
      BY <2>1, FS_EmptySet, Zenon
    <3> QED
      BY <3>1
  <2>2. ASSUME NEW m \in L PROVE Cardinality(L) <= 1
    <3>1. L = {m}
      BY <2>2 DEF UploadsInv, LinksUnique
    <3>2. Cardinality({m}) = 1
      BY FS_Singleton, Zenon
    <3> QED
      BY <3>1, <3>2
  <2> QED
    BY <2>1, <2>2
<1> QED
  BY <1>1, UploadsInvHolds, PTL

-----------------------------------------------------------------------------
(* The room of the quota.  An import that has passed the check is promised *)
(* room while its group has no video and its session, or its parts, are    *)
(* still counted as pending.                                               *)
Recording(s) == \E a \in Attempts : a[1] = s /\ import[a].pc = "record"
Promised(s) == Recording(s) /\ ~HasLink(s) /\ SizeOf(s) <= HeldStorage(s)

KeptLinks == [l \in {m \in ulinks : ~m.lapsed} |-> LinkSize(l)]
Promises(p) ==
    /\ \A s \in UploadSessions : p[s] # 0 => Started(s)
    /\ \A s \in UploadSessions : Promised(s) => SizeOf(s) <= Total([t \in Own(s) |-> p[t]])
    /\ Total(KeptLinks) + Total(p) <= UserStorage

(* A session that ends is deleted, and has no attempt left if it stays.    *)
RowOK(t) ==
    /\ Row(t).kind = "partial" => Row(t).protocol = "tus" /\ Row(t).status # "staging"
    /\ Row(t).protocol = "tus" /\ Started(t) /\ ~Row(t).gone => Row(t).status \in ActiveStatuses
TryOK(a) ==
    /\ import[a].pc # "idle" /\ ~Row(a[1]).gone => Row(a[1]).status \in ActiveStatuses
    /\ import[a].pc # "idle" /\ a[2] = "direct" => Row(a[1]).protocol = "tus"
    /\ import[a].clone # "none" =>
          import[a].pc # "idle" /\ SizeOf(import[a].clone) = SizeOf(a[1])

HoldInv ==
    /\ IsFiniteSet(ulinks) /\ \A l \in ulinks : l.file \in ufiles
    /\ \A t \in UploadSessions : RowOK(t)
    /\ \A a \in Attempts : TryOK(a)

QuotaInv == HoldInv /\ \E p \in [UploadSessions -> Nat] : Promises(p)

-----------------------------------------------------------------------------
(* What a step may do to a row and to an attempt.                          *)
IdleNext(t) == \A a \in Attempts : a[1] = t => import'[a].pc = "idle"

Firm(t, r) ==
    IF Started(t)
    THEN /\ r.status \notin {"none", "staging"} /\ r.group = Row(t).group
         /\ r.protocol = Row(t).protocol /\ r.kind = Row(t).kind /\ r.size = Row(t).size
         /\ \/ r.gone
            \/ ~Row(t).gone /\ (r.status = Row(t).status \/ r.status \in ActiveStatuses)
            \/ r.protocol = "simple" /\ r.status = "done" /\ IdleNext(t)
    ELSE /\ r.status \in ActiveStatuses \cup {"none", "staging"}
         /\ r.kind = "partial" => r.protocol = "tus" /\ r.status # "staging"

AttemptGoes(a, i) ==
    \/ i = import[a]
    \/ i.pc = "idle" /\ i.clone = "none"
    \/ /\ import[a].pc # "idle" /\ i.pc # "idle"
       /\ \/ i.clone = import[a].clone
          \/ i.clone \in ufiles /\ SizeOf(i.clone) = SizeOf(a[1])
    \/ /\ i.clone = "none" /\ Started(a[1])
       /\ \/ Row(a[1]).protocol = "tus"
          \/ a[2] = "task" /\ usession'[a[1]].status \in ActiveStatuses

Firmly == /\ \A t \in UploadSessions : Firm(t, usession'[t])
          /\ \A a \in Attempts : AttemptGoes(a, import'[a])

(* Rows and attempts that move as allowed leave the room they hold in      *)
(* order.                                                                  *)
LEMMA HoldStep ==
    ASSUME UploadsInv, UploadsInv', HoldInv, Firmly,
           IsFiniteSet(ulinks'), \A l \in ulinks' : l.file \in ufiles'
    PROVE  HoldInv'
<1>0. /\ \A t \in UploadSessions : usession'[t] \in UploadRow /\ usession[t] \in UploadRow
      /\ \A a \in Attempts : a[1] \in UploadSessions /\ ImportOK(a) /\ ImportOK(a)'
      /\ \A t \in ufiles : t \in UploadSessions /\ Started(t)
  BY DEF UploadsInv, UploadShape, Attempts, FileOK
<1>1. \A t \in UploadSessions : Firm(t, usession'[t])
  BY DEF Firmly
<1>2. ASSUME NEW t \in UploadSessions, Started(t)
      PROVE  SizeOf(t)' = SizeOf(t) /\ Row(t)'.protocol = Row(t).protocol
  BY <1>1, <1>2 DEF Firm, SizeOf, Row
<1>3. ASSUME NEW t \in UploadSessions
      PROVE  RowOK(t)'
  <2>1. CASE Started(t)
    <3>1. RowOK(t)
      BY DEF HoldInv
    <3> QED
      BY <1>1, <2>1, <3>1 DEF Firm, Row, RowOK, Started
  <2>2. CASE ~Started(t)
    BY <1>1, <2>2 DEF Firm, Row, Started, RowOK
  <2> QED
    BY <2>1, <2>2
<1>4. ASSUME NEW a \in Attempts
      PROVE  TryOK(a)'
  <2>0. PICK s \in UploadSessions : s = a[1]
    BY <1>0
  <2>c. PICK c : c = import'[a].clone
    OBVIOUS
  <2>1. /\ import[a].pc # "idle" => Started(s)
        /\ import[a].clone # "none" => import[a].clone \in ufiles
        /\ import[a].pc # "idle" /\ ~Row(s).gone => Row(s).status \in ActiveStatuses
        /\ import[a].pc # "idle" /\ a[2] = "direct" => Row(s).protocol = "tus"
        /\ import[a].clone # "none" => import[a].pc # "idle" /\ SizeOf(import[a].clone) = SizeOf(s)
    BY <1>0, <2>0 DEF ImportOK, HoldInv, TryOK
  <2>2. AttemptGoes(a, import'[a])
    BY DEF Firmly
  <2>3. import'[a].pc # "idle" => Started(s)'
    BY <1>0, <2>0 DEF ImportOK, Started, Row
  <2>4. import'[a].pc # "idle" => Started(s)
    BY <2>0, <2>1, <2>2 DEF AttemptGoes
  <2>5. ASSUME import'[a].pc # "idle", ~Row(s)'.gone PROVE Row(s)'.status \in ActiveStatuses
    <3>1. CASE Row(s).protocol = "tus"
      BY <1>2, <1>3, <2>3, <2>4, <2>5, <3>1 DEF RowOK
    <3>2. CASE Row(s).protocol # "tus" /\ import[a].pc # "idle"
      <4>1. ~IdleNext(s)
        BY <2>0, <2>5 DEF IdleNext
      <4> QED
        BY <1>1, <2>1, <2>4, <2>5, <3>2, <4>1 DEF Firm, Row
    <3>3. CASE Row(s).protocol # "tus" /\ import[a].pc = "idle"
      BY <2>0, <2>2, <2>5, <3>3 DEF AttemptGoes, Row
    <3> QED
      BY <3>1, <3>2, <3>3
  <2>6. ASSUME import'[a].pc # "idle", a[2] = "direct" PROVE Row(s)'.protocol = "tus"
    <3>1. CASE import[a].pc # "idle"
      BY <1>2, <2>1, <2>4, <2>6, <3>1
    <3>2. CASE import[a].pc = "idle"
      <4>1. Row(s).protocol = "tus"
        BY <2>0, <2>1, <2>2, <2>6, <3>2 DEF AttemptGoes
      <4> QED
        BY <1>2, <2>4, <2>6, <4>1
    <3> QED
      BY <3>1, <3>2
  <2>7. ASSUME c # "none" PROVE import'[a].pc # "idle" /\ SizeOf(c)' = SizeOf(s)'
    <3>1. c \in ufiles /\ SizeOf(c) = SizeOf(s) /\ import'[a].pc # "idle"
      BY <2>0, <2>c, <2>1, <2>2, <2>7 DEF AttemptGoes
    <3>2. c \in UploadSessions /\ Started(c)
      BY <1>0, <3>1
    <3>3. SizeOf(c)' = SizeOf(c)
      BY <1>2, <3>2
    <3>4. SizeOf(s)' = SizeOf(s)
      BY <1>2, <2>4, <3>1
    <3> QED
      BY <3>1, <3>3, <3>4
  <2> QED
    BY <2>0, <2>c, <2>5, <2>6, <2>7 DEF TryOK, SizeOf, Row
<1> QED
  BY <1>3, <1>4 DEF HoldInv

(* No part of an upload is new, no import passes its check and no link is  *)
(* made.                                                                   *)
Quiet ==
    /\ \A t \in UploadSessions : Started(t)' /\ Row(t)'.kind = "partial" => Started(t)
    /\ \A a \in Attempts : import'[a].pc = "record" => import[a].pc = "record"
    /\ UNCHANGED <<ulinks, ufiles>>

(* Promises and quota bytes of any sessions can be added up.               *)
LEMMA SizesOfSessions ==
    ASSUME NEW S, S \subseteq UploadSessions
    PROVE  /\ IsFiniteSet(S)
           /\ \A p \in [UploadSessions -> Nat] : Sizes([t \in S |-> p[t]])
           /\ UploadShape => Sizes([t \in S |-> QuotaBytes(t)])
<1>1. IsFiniteSet(S)
  BY UploadsAssumption, FS_Subset
<1>2. UploadShape => \A t \in UploadSessions : QuotaBytes(t) \in Nat
  BY DEF UploadShape, QuotaBytes, SizeOf, Row, UploadRow
<1> QED
  BY <1>1, <1>2 DEF Sizes

(* A session keeps its size, group and kind, and one that is active was so *)
(* before.                                                                 *)
LEMMA FirmSession ==
    ASSUME HoldInv, Firmly, NEW t \in UploadSessions, Started(t)
    PROVE  /\ Started(t)' /\ SizeOf(t)' = SizeOf(t) /\ QuotaBytes(t)' = QuotaBytes(t)
           /\ Row(t)'.group = Row(t).group /\ Row(t)'.kind = Row(t).kind
           /\ Active(t)' => /\ Live(t)
                            /\ Row(t).protocol = "tus" \/ Recording(t) => Active(t)
<1>1. Firm(t, usession'[t])
  BY DEF Firmly
<1>2. /\ Started(t)' /\ SizeOf(t)' = SizeOf(t) /\ QuotaBytes(t)' = QuotaBytes(t)
      /\ Row(t)'.group = Row(t).group /\ Row(t)'.kind = Row(t).kind
  BY <1>1 DEF Firm, Started, SizeOf, QuotaBytes, Row
<1>3. "done" \notin ActiveStatuses
  BY DEF ActiveStatuses
<1>4. Active(t)' => ~Row(t)'.gone /\ Row(t)'.status \in ActiveStatuses
  BY DEF Active, Live, Row
<1>5. Active(t)' => ~Row(t).gone /\ Live(t)
  BY <1>1, <1>3, <1>4 DEF Firm, Row, Live, Started
<1>6. ASSUME ~Row(t).gone, Row(t).protocol = "tus" PROVE Row(t).status \in ActiveStatuses
  BY <1>6 DEF HoldInv, RowOK
<1>7. ASSUME ~Row(t).gone, Recording(t) PROVE Row(t).status \in ActiveStatuses
  BY <1>7 DEF HoldInv, TryOK, Recording
<1> QED
  BY <1>2, <1>5, <1>6, <1>7 DEF Active

(* The room an import holds only shrinks while it is under way: parts      *)
(* expire, none is added.                                                  *)
LEMMA HeldShrinks ==
    ASSUME UploadsInv, UploadsInv', HoldInv, Firmly, NEW s \in UploadSessions, Recording(s),
           \A t \in UploadSessions : Started(t)' /\ Row(t)'.kind = "partial" => Started(t)
    PROVE  /\ HeldStorage(s)' <= HeldStorage(s)
           /\ HeldStorage(s) \in Nat /\ HeldStorage(s)' \in Nat
<1>0. Started(s)
  BY DEF Recording, UploadsInv, ImportOK
<1>1. ASSUME NEW t \in HeldBy(s)'
      PROVE  t \in HeldBy(s) /\ QuotaBytes(t)' = QuotaBytes(t)
  <2>1. t \in UploadSessions /\ Active(t)' /\ Started(t)'
    BY DEF HeldBy, Active, Live, Started
  <2>2. Row(s)'.kind = Row(s).kind /\ Row(s)'.group = Row(s).group
    BY <1>0, FirmSession
  <2>3. CASE Row(s).kind = "final"
    <3>1. Row(t)'.group = Row(s)'.group /\ Row(t)'.kind = "partial"
      BY <2>2, <2>3 DEF HeldBy, Own, Group
    <3>2. Started(t)
      BY <2>1, <3>1
    <3>3. Row(t).protocol = "tus" /\ Row(t).kind = "partial" /\ Row(t).group = Row(s).group
      BY <2>1, <2>2, <3>1, <3>2, FirmSession DEF HoldInv, RowOK
    <3> QED
      BY <2>1, <2>3, <3>2, <3>3, FirmSession DEF HeldBy, Own, Group
  <2>4. CASE Row(s).kind # "final"
    <3>1. t = s
      BY <2>2, <2>4 DEF HeldBy
    <3> QED
      BY <1>0, <2>1, <2>4, <3>1, FirmSession DEF HeldBy
  <2> QED
    BY <2>3, <2>4
<1>2. PICK g : g = [t \in HeldBy(s) |-> QuotaBytes(t)]
  OBVIOUS
<1>3. PICK f : f = [t \in HeldBy(s)' |-> QuotaBytes(t)']
  OBVIOUS
<1>4. Sizes(g) /\ HeldStorage(s) = Total(g)
  BY <1>2, SizesOfSessions DEF HeldBy, HeldStorage, UploadsInv
<1>5. Below(f, g) /\ HeldStorage(s)' = Total(f)
  <2>1. QuotaBytes(s) \in Nat /\ \A t \in UploadSessions : QuotaBytes(t) \in Nat
    BY DEF UploadsInv, UploadShape, QuotaBytes, SizeOf, Row, UploadRow
  <2>2. HeldBy(s) \subseteq UploadSessions
    BY DEF HeldBy
  <2> QED
    BY <1>1, <1>2, <1>3, <2>1, <2>2 DEF Below, HeldStorage
<1>6. Sizes(f)
  <2>1. HeldBy(s)' \subseteq UploadSessions
    BY DEF HeldBy
  <2>2. IsFiniteSet(HeldBy(s)')
    BY <2>1, UploadsAssumption, FS_Subset
  <2>3. \A t \in UploadSessions : QuotaBytes(t)' \in Nat
    BY DEF UploadsInv, UploadShape, QuotaBytes, SizeOf, Row, UploadRow
  <2> QED
    BY <1>3, <2>1, <2>2, <2>3 DEF Sizes
<1> QED
  BY <1>4, <1>5, <1>6, TotalMonotonic

(* Without a new link the recorded bytes stay.                             *)
LEMMA KeptLinksSame ==
    ASSUME UploadsInv, HoldInv, Firmly, UNCHANGED ulinks
    PROVE  KeptLinks' = KeptLinks
<1>1. ASSUME NEW l \in ulinks PROVE LinkSize(l)' = LinkSize(l)
  <2>1. l.file \in UploadSessions /\ Started(l.file)
    BY DEF HoldInv, UploadsInv, UploadShape, FileOK
  <2> QED
    BY <2>1, FirmSession DEF LinkSize
<1> QED
  BY <1>1 DEF KeptLinks

(* A group only grows, and with it what it was promised.                   *)
LEMMA OwnGrows ==
    ASSUME HoldInv, Firmly, NEW p \in [UploadSessions -> Nat], NEW s \in UploadSessions, Started(s),
           \A t \in UploadSessions : p[t] # 0 => Started(t)
    PROVE  /\ Total([t \in Own(s) |-> p[t]]) <= Total([t \in Own(s)' |-> p[t]])
           /\ Total([t \in Own(s) |-> p[t]]) \in Nat /\ Total([t \in Own(s)' |-> p[t]]) \in Nat
<1>1. PICK f : f = [t \in Own(s) |-> p[t]]
  OBVIOUS
<1>2. PICK g : g = [t \in Own(s)' |-> p[t]]
  OBVIOUS
<1>3. Own(s) \subseteq UploadSessions /\ Own(s)' \subseteq UploadSessions
  BY DEF Own, Group
<1>4. Sizes(f)
  BY <1>1, <1>3, SizesOfSessions
<1>5. Sizes(g)
  <2>1. IsFiniteSet(Own(s)')
    BY <1>3, UploadsAssumption, FS_Subset
  <2> QED
    BY <1>2, <1>3, <2>1 DEF Sizes
<1>6. Below(f, g)
  <2> SUFFICES ASSUME NEW t \in Own(s), p[t] # 0 PROVE t \in Own(s)'
    BY <1>1, <1>2, <1>3 DEF Below
  <2>1. t \in UploadSessions /\ Started(t) /\ Row(t).group = Row(s).group
    BY <1>3 DEF Own, Group
  <2>2. Row(t)'.group = Row(s)'.group
    BY <2>1, FirmSession
  <2> QED
    BY <2>1, <2>2 DEF Own, Group
<1> QED
  BY <1>1, <1>2, <1>4, <1>5, <1>6, TotalMonotonic

(* Such a step keeps every promise.                                        *)
LEMMA QuietPromises ==
    ASSUME UploadsInv, UploadsInv', HoldInv, Firmly, Quiet,
           NEW p \in [UploadSessions -> Nat], Promises(p)
    PROVE  Promises(p)'
<1>1. \A s \in UploadSessions : p[s] # 0 => Started(s)'
  BY FirmSession DEF Promises
<1>2. ASSUME NEW s \in UploadSessions, Promised(s)'
      PROVE  SizeOf(s)' <= Total([t \in Own(s)' |-> p[t]])
  <2>1. Recording(s) /\ Started(s)
    BY <1>2 DEF Promised, Recording, Quiet, UploadsInv, ImportOK
  <2>2. /\ HeldStorage(s)' <= HeldStorage(s) /\ HeldStorage(s) \in Nat /\ HeldStorage(s)' \in Nat
    BY <2>1, HeldShrinks DEF Quiet
  <2>3. SizeOf(s)' = SizeOf(s) /\ Row(s)'.group = Row(s).group /\ SizeOf(s) \in Nat
    <3>1. SizeOf(s) \in Nat
      BY DEF UploadsInv, UploadShape, SizeOf, Row, UploadRow
    <3> QED
      BY <2>1, <3>1, FirmSession
  <2>4. ~HasLink(s)
    BY <1>2, <2>3 DEF Promised, HasLink, Quiet
  <2>5. SizeOf(s)' <= HeldStorage(s)'
    BY <1>2 DEF Promised
  <2>6. SizeOf(s) <= Total([t \in Own(s) |-> p[t]])
    BY <2>1, <2>2, <2>3, <2>4, <2>5 DEF Promises, Promised
  <2>7. /\ Total([t \in Own(s) |-> p[t]]) <= Total([t \in Own(s)' |-> p[t]])
        /\ Total([t \in Own(s) |-> p[t]]) \in Nat /\ Total([t \in Own(s)' |-> p[t]]) \in Nat
    BY <2>1, OwnGrows DEF Promises
  <2> QED
    BY <2>3, <2>6, <2>7
<1>3. Total(KeptLinks)' + Total(p) <= UserStorage
  BY KeptLinksSame DEF Promises, Quiet
<1> QED
  BY <1>1, <1>2, <1>3 DEF Promises

(* What a session holds is part of the promises that cover its own group.  *)
LEMMA HeldBelow ==
    ASSUME UploadShape', NEW p \in [UploadSessions -> Nat], NEW s \in UploadSessions,
           \A t \in Own(s)' : Active(t)' => QuotaBytes(t)' <= p[t]
    PROVE  /\ HeldStorage(s)' <= Total([t \in Own(s)' |-> p[t]])
           /\ HeldStorage(s)' \in Nat /\ Total([t \in Own(s)' |-> p[t]]) \in Nat
<1>1. PICK f : f = [t \in HeldBy(s)' |-> QuotaBytes(t)']
  OBVIOUS
<1>2. PICK g : g = [t \in Own(s)' |-> p[t]]
  OBVIOUS
<1>3. Own(s)' \subseteq UploadSessions /\ HeldBy(s)' \subseteq Own(s)'
  BY DEF Own, Group, HeldBy
<1>4. IsFiniteSet(Own(s)') /\ IsFiniteSet(HeldBy(s)')
  BY <1>3, UploadsAssumption, FS_Subset
<1>5. \A t \in UploadSessions : QuotaBytes(t)' \in Nat
  BY DEF UploadShape, QuotaBytes, SizeOf, Row, UploadRow
<1>6. Sizes(f) /\ Sizes(g)
  BY <1>1, <1>2, <1>3, <1>4, <1>5 DEF Sizes
<1>7. Below(f, g)
  <2>1. \A t \in HeldBy(s)' : Active(t)'
    BY DEF HeldBy
  <2> QED
    BY <1>1, <1>2, <1>3, <2>1 DEF Below
<1> QED
  BY <1>1, <1>2, <1>6, <1>7, TotalMonotonic DEF HeldStorage

(* The recorded videos under the quota are among those CheckStorageQuota   *)
(* adds up.                                                                *)
LEMMA LinkSizes ==
    ASSUME UploadsInv, HoldInv
    PROVE  /\ Sizes(KeptLinks) /\ Total(KeptLinks) \in Nat
           /\ UsedStorage \in Nat /\ Total(KeptLinks) <= UsedStorage
<1>1. PICK f : f = [l \in ulinks |-> LinkSize(l)]
  OBVIOUS
<1>2. \A l \in ulinks : LinkSize(l) \in Nat
  <2>1. \A l \in ulinks : l.file \in UploadSessions
    BY DEF HoldInv, UploadsInv, UploadShape
  <2> QED
    BY <2>1 DEF LinkSize, SizeOf, Row, UploadsInv, UploadShape, UploadRow
<1>3. IsFiniteSet(ulinks) /\ IsFiniteSet({m \in ulinks : ~m.lapsed})
  BY FS_Subset DEF HoldInv
<1>4. Sizes(f) /\ Sizes(KeptLinks)
  BY <1>1, <1>2, <1>3 DEF Sizes, KeptLinks
<1>5. Below(KeptLinks, f)
  BY <1>1, <1>2 DEF Below, KeptLinks
<1> QED
  BY <1>1, <1>4, <1>5, TotalMonotonic DEF UsedStorage

(* Every active session is promised its quota bytes.                       *)
LEMMA PendingTotal ==
    ASSUME UploadShape, NEW S, NEW p \in [UploadSessions -> Nat],
           \A t \in UploadSessions \ S : p[t] = 0 \/ (Active(t) /\ p[t] = QuotaBytes(t))
    PROVE  /\ Total([t \in UploadSessions \ S |-> p[t]]) <= PendingStorage(S)
           /\ Total([t \in UploadSessions \ S |-> p[t]]) \in Nat /\ PendingStorage(S) \in Nat
<1>1. PICK f : f = [t \in UploadSessions \ S |-> p[t]]
  OBVIOUS
<1>2. PICK A : A = {t \in UploadSessions : Active(t)} \ S
  OBVIOUS
<1>3. PICK g : g = [t \in A |-> QuotaBytes(t)]
  OBVIOUS
<1>4. A \subseteq UploadSessions /\ PendingStorage(S) = Total(g)
  BY <1>2, <1>3 DEF PendingStorage
<1>5. Sizes(f) /\ Sizes(g)
  BY <1>1, <1>3, <1>4, SizesOfSessions
<1>6. Below(f, g)
  BY <1>1, <1>2, <1>3, SizesOfSessions DEF Below, Sizes
<1> QED
  BY <1>1, <1>4, <1>5, <1>6, TotalMonotonic

(* A total over all sessions is that of any of them and of the others.     *)
LEMMA SplitOff ==
    ASSUME NEW p \in [UploadSessions -> Nat], NEW S, S \subseteq UploadSessions
    PROVE  /\ Total(p) = Total([t \in S |-> p[t]]) + Total([t \in UploadSessions \ S |-> p[t]])
           /\ Total(p) \in Nat /\ Total([t \in S |-> p[t]]) \in Nat
           /\ Total([t \in UploadSessions \ S |-> p[t]]) \in Nat
<1>1. PICK f : f = [t \in S |-> p[t]]
  OBVIOUS
<1>2. PICK g : g = [t \in UploadSessions \ S |-> p[t]]
  OBVIOUS
<1>3. Sizes(p)
  BY UploadsAssumption DEF Sizes
<1>4. Parts(p, f, g)
  BY <1>1, <1>2 DEF Parts
<1> QED
  BY <1>1, <1>2, <1>3, <1>4, TotalSplit

(* A session created under the quota: every active session is promised its *)
(* quota bytes.                                                            *)
LEMMA CreationPromises ==
    ASSUME UploadsInv, UploadsInv', HoldInv, Firmly, UNCHANGED ulinks,
           NEW s \in UploadSessions, NEW z \in Nat, CheckStorageQuota(z, {}), ~Started(s),
           QuotaBytes(s)' = z, \A t \in UploadSessions : t # s => usession'[t] = usession[t]
    PROVE  \E p \in [UploadSessions -> Nat] : Promises(p)'
<1>0. /\ \A t \in UploadSessions : QuotaBytes(t)' \in Nat
      /\ UploadShape /\ UploadShape' /\ UserStorage \in Nat
  BY UploadsAssumption DEF UploadsInv, UploadShape, QuotaBytes, SizeOf, Row, UploadRow
<1>1. PICK p \in [UploadSessions -> Nat] :
          \A t \in UploadSessions : p[t] = IF Active(t)' THEN QuotaBytes(t)' ELSE 0
  <2>1. [t \in UploadSessions |-> IF Active(t)' THEN QuotaBytes(t)' ELSE 0] \in [UploadSessions -> Nat]
    BY <1>0
  <2> QED
    BY <2>1
<1>2. \A t \in UploadSessions \ {s} : p[t] = 0 \/ (Active(t) /\ p[t] = QuotaBytes(t))
  BY <1>1 DEF Active, Live, QuotaBytes, SizeOf, Row
<1>3. PendingStorage({s}) = PendingStorage({})
  <2>1. ~Active(s)
    BY DEF Active, Live, Started
  <2>2. {t \in UploadSessions : Active(t)} \ {s} = {t \in UploadSessions : Active(t)} \ {}
    BY <2>1
  <2> QED
    BY <2>2 DEF PendingStorage
<1>4. Total([t \in {s} |-> p[t]]) <= z /\ Total([t \in {s} |-> p[t]]) \in Nat
  <2>1. PICK f : f = [t \in {s} |-> p[t]]
    OBVIOUS
  <2>2. DOMAIN f = {s} /\ f[s] \in Nat /\ f[s] <= z
    BY <1>1, <2>1
  <2> QED
    BY <2>1, <2>2, TotalOfOne
<1>5. Total(p) <= PendingStorage({}) + z /\ Total(p) \in Nat /\ PendingStorage({}) \in Nat
  <2>1. /\ Total([t \in UploadSessions \ {s} |-> p[t]]) <= PendingStorage({s})
        /\ Total([t \in UploadSessions \ {s} |-> p[t]]) \in Nat /\ PendingStorage({s}) \in Nat
    BY <1>0, <1>2, PendingTotal
  <2>2. {s} \subseteq UploadSessions
    OBVIOUS
  <2> QED
    BY <1>3, <1>4, <2>1, <2>2, SplitOff
<1>6. Total(KeptLinks)' + Total(p) <= UserStorage
  <2>1. Total(KeptLinks)' = Total(KeptLinks)
    BY KeptLinksSame
  <2>2. UsedStorage + PendingStorage({}) + z <= UserStorage
    BY DEF CheckStorageQuota
  <2> QED
    BY <1>0, <1>5, <2>1, <2>2, LinkSizes
<1>7. \A t \in UploadSessions : p[t] # 0 => Started(t)'
  BY <1>1 DEF Active, Live, Started
<1>8. ASSUME NEW t \in UploadSessions, Promised(t)'
      PROVE  SizeOf(t)' <= Total([x \in Own(t)' |-> p[x]])
  <2>1. Own(t)' \subseteq UploadSessions
    BY DEF Own, Group
  <2>2. /\ HeldStorage(t)' <= Total([x \in Own(t)' |-> p[x]])
        /\ HeldStorage(t)' \in Nat /\ Total([x \in Own(t)' |-> p[x]]) \in Nat
    <3>1. \A x \in Own(t)' : Active(x)' => QuotaBytes(x)' <= p[x]
      BY <1>0, <1>1, <2>1
    <3> QED
      BY <1>0, <3>1, HeldBelow
  <2>3. SizeOf(t)' <= HeldStorage(t)' /\ SizeOf(t)' \in Nat
    BY <1>8 DEF Promised, UploadsInv, UploadShape, SizeOf, Row, UploadRow
  <2> QED
    BY <2>2, <2>3
<1> QED
  BY <1>6, <1>7, <1>8 DEF Promises

(* An import that passes the check: its group is promised the video, and   *)
(* every other session what it has as pending.                             *)
LEMMA CheckedPromises ==
    ASSUME UploadsInv, UploadsInv', HoldInv, Firmly, UNCHANGED <<usession, ulinks>>,
           NEW s \in UploadSessions, Started(s), CheckStorageQuota(SizeOf(s), Own(s)),
           \A t \in UploadSessions : Recording(t)' => Recording(t) \/ t = s,
           NEW p \in [UploadSessions -> Nat], Promises(p)
    PROVE  \E q \in [UploadSessions -> Nat] : Promises(q)'
<1> DEFINE z == SizeOf(s)
<1>0. /\ \A t \in UploadSessions : QuotaBytes(t) \in Nat /\ SizeOf(t) \in Nat
      /\ UploadShape /\ UploadShape' /\ UserStorage \in Nat
      /\ Own(s) \subseteq UploadSessions /\ s \in Own(s)
  BY UploadsAssumption
     DEF UploadsInv, UploadShape, QuotaBytes, SizeOf, Row, UploadRow, Own, Group
<1>1. \A t \in UploadSessions :
        /\ SizeOf(t)' = SizeOf(t) /\ Own(t)' = Own(t) /\ QuotaBytes(t)' = QuotaBytes(t)
        /\ Active(t)' = Active(t) /\ Started(t)' = Started(t)
        /\ HeldStorage(t)' = HeldStorage(t) /\ HasLink(t)' = HasLink(t)
  BY DEF SizeOf, Own, Group, QuotaBytes, Active, Live, Started, HeldStorage, HeldBy, HasLink, Row
<1>2. Total(KeptLinks)' = Total(KeptLinks)
  BY KeptLinksSame
<1>3. ASSUME NEW t \in UploadSessions, Promised(t)', t # s
      PROVE  SizeOf(t) <= Total([x \in Own(t) |-> p[x]])
  BY <1>1, <1>3 DEF Promises, Promised
<1>4. Total([x \in Own(s) |-> p[x]]) \in Nat
  BY <1>0, SplitOff
<1>5. CASE z <= Total([x \in Own(s) |-> p[x]])
  <2>1. \A t \in UploadSessions : Promised(t)' => SizeOf(t)' <= Total([x \in Own(t)' |-> p[x]])
    BY <1>1, <1>3, <1>5
  <2>2. Promises(p)'
    BY <1>1, <1>2, <2>1 DEF Promises
  <2> QED
    BY <2>2
<1>6. CASE Total([x \in Own(s) |-> p[x]]) < z
  <2> HIDE DEF z
  <2>0. z \in Nat
    BY <1>0 DEF z
  <2>1. PICK q \in [UploadSessions -> Nat] : \A t \in UploadSessions :
            q[t] = IF t = s THEN z ELSE IF t \notin Own(s) /\ Active(t) THEN QuotaBytes(t) ELSE 0
    <3>1. [t \in UploadSessions |-> IF t = s THEN z ELSE
             IF t \notin Own(s) /\ Active(t) THEN QuotaBytes(t) ELSE 0] \in [UploadSessions -> Nat]
      BY <1>0, <2>0
    <3> QED
      BY <3>1
  <2>2. Total([t \in Own(s) |-> q[t]]) = z
    <3>1. PICK f : f = [t \in Own(s) |-> q[t]]
      OBVIOUS
    <3>2. PICK g : g = [t \in {s} |-> z]
      OBVIOUS
    <3>3. DOMAIN g = {s} /\ g[s] = z
      BY <3>2
    <3>4. Sizes(f) /\ Sizes(g) /\ Total(g) = z
      <4>1. Sizes(g) /\ Total(g) = z
        BY <2>0, <3>3, TotalOfOne
      <4>2. Sizes(f)
        BY <1>0, <3>1, SizesOfSessions
      <4> QED
        BY <4>1, <4>2
    <3>5. Below(f, g) /\ Below(g, f)
      BY <1>0, <2>0, <2>1, <3>1, <3>2 DEF Below
    <3>6. Total(f) <= Total(g) /\ Total(g) <= Total(f) /\ Total(f) \in Nat /\ Total(g) \in Nat
      BY <3>4, <3>5, TotalMonotonic
    <3> QED
      BY <2>0, <3>1, <3>4, <3>6
  <2>3. Total(q) <= z + PendingStorage(Own(s)) /\ Total(q) \in Nat /\ PendingStorage(Own(s)) \in Nat
    <3>1. \A t \in UploadSessions \ Own(s) : q[t] = 0 \/ (Active(t) /\ q[t] = QuotaBytes(t))
      BY <1>0, <2>1
    <3> QED
      <4>1. /\ Total([t \in UploadSessions \ Own(s) |-> q[t]]) <= PendingStorage(Own(s))
            /\ Total([t \in UploadSessions \ Own(s) |-> q[t]]) \in Nat
            /\ PendingStorage(Own(s)) \in Nat
        BY <1>0, <3>1, PendingTotal
      <4>2. /\ Total(q) = Total([t \in Own(s) |-> q[t]])
                           + Total([t \in UploadSessions \ Own(s) |-> q[t]])
            /\ Total(q) \in Nat
        BY <1>0, SplitOff
      <4> QED
        BY <2>0, <2>2, <4>1, <4>2
  <2>4. Total(KeptLinks)' + Total(q) <= UserStorage
    <3>1. UsedStorage + PendingStorage(Own(s)) + z <= UserStorage
      BY DEF CheckStorageQuota, z
    <3> QED
      BY <1>0, <1>2, <2>0, <2>3, <3>1, LinkSizes
  <2>5. \A t \in UploadSessions : q[t] # 0 => Started(t)'
    BY <1>1, <2>1 DEF Active, Live, Started
  <2>6. ASSUME NEW t \in UploadSessions, Promised(t)'
        PROVE  SizeOf(t)' <= Total([x \in Own(t)' |-> q[x]])
    <3>1. CASE Own(t) = Own(s)
      <4>1. SizeOf(t) <= z
        BY <1>0, <1>3, <1>4, <1>6, <2>0, <2>6, <3>1 DEF z
      <4> QED
        BY <1>1, <2>2, <3>1, <4>1
    <3>2. CASE Own(t) # Own(s)
      <4>1. Own(t) \cap Own(s) = {} /\ Own(t) \subseteq UploadSessions
        BY <3>2 DEF Own, Group
      <4>2. \A x \in Own(t)' : Active(x)' => QuotaBytes(x)' <= q[x]
        BY <1>0, <1>1, <2>1, <4>1
      <4>3. /\ HeldStorage(t)' <= Total([x \in Own(t)' |-> q[x]])
            /\ HeldStorage(t)' \in Nat /\ Total([x \in Own(t)' |-> q[x]]) \in Nat
        BY <1>0, <4>2, HeldBelow
      <4>4. SizeOf(t)' <= HeldStorage(t)' /\ SizeOf(t)' \in Nat
        BY <1>0, <1>1, <2>6 DEF Promised
      <4> QED
        BY <4>3, <4>4
    <3> QED
      BY <3>1, <3>2
  <2>7. Promises(q)'
    BY <2>4, <2>5, <2>6 DEF Promises
  <2> QED
    BY <2>7
<1> QED
  BY <1>0, <1>4, <1>5, <1>6

(* The video is recorded: it takes the room its group was promised.        *)
LEMMA RecordedPromises ==
    ASSUME UploadsInv, UploadsInv', HoldInv, Firmly, UNCHANGED usession,
           NEW s \in UploadSessions, Recording(s), ~HasLink(s),
           NEW f \in UploadSessions, Started(f), SizeOf(f) = SizeOf(s),
           NEW l, ulinks' = ulinks \cup {l}, l.group = Row(s).group, l.file = f,
           l.lapsed = (HeldStorage(s) < SizeOf(s)),
           \A t \in UploadSessions : Recording(t)' => Recording(t),
           NEW p \in [UploadSessions -> Nat], Promises(p)
    PROVE  \E q \in [UploadSessions -> Nat] : Promises(q)'
<1>0. /\ \A t \in UploadSessions : SizeOf(t) \in Nat
      /\ UploadShape /\ UploadShape' /\ UserStorage \in Nat
      /\ Own(s) \subseteq UploadSessions /\ s \in Own(s)
  BY UploadsAssumption
     DEF UploadsInv, UploadShape, SizeOf, Row, UploadRow, Own, Group
<1>1. \A t \in UploadSessions :
        /\ SizeOf(t)' = SizeOf(t) /\ Own(t)' = Own(t) /\ Started(t)' = Started(t)
        /\ HeldStorage(t)' = HeldStorage(t) /\ (~HasLink(t)' => ~HasLink(t))
  BY DEF SizeOf, Own, Group, QuotaBytes, Active, Live, Started, HeldStorage, HeldBy, HasLink, Row
<1>2. \A m \in ulinks : m # l /\ LinkSize(m)' = LinkSize(m)
  BY DEF HasLink, LinkSize, SizeOf, Row
<1>3. HasLink(s)'
  BY DEF HasLink, Row
<1>4. ASSUME NEW t \in UploadSessions, Promised(t)'
      PROVE  SizeOf(t) <= Total([x \in Own(t) |-> p[x]]) /\ Own(t) \cap Own(s) = {}
  <2>1. Promised(t)
    BY <1>1, <1>4 DEF Promised
  <2>2. Row(t).group # Row(s).group
    BY <1>3, <1>4 DEF Promised, HasLink, Row
  <2> QED
    BY <2>1, <2>2 DEF Promises, Own, Group
<1>5. HeldStorage(s) \in Nat
  <2>1. HeldBy(s) \subseteq UploadSessions
    BY DEF HeldBy
  <2> QED
    BY <1>0, <2>1, SizesOfSessions, UnitsFinite DEF HeldStorage
<1>6. CASE HeldStorage(s) < SizeOf(s)
  <2>1. KeptLinks' = KeptLinks
    BY <1>2, <1>6 DEF KeptLinks
  <2>2. Promises(p)'
    BY <1>1, <1>4, <2>1 DEF Promises
  <2> QED
    BY <2>2
<1>7. CASE ~(HeldStorage(s) < SizeOf(s))
  <2>1. SizeOf(s) <= Total([t \in Own(s) |-> p[t]])
    <3>1. Promised(s)
      BY <1>0, <1>5, <1>7 DEF Promised
    <3> QED
      BY <3>1 DEF Promises
  <2>2. PICK q \in [UploadSessions -> Nat] :
            \A t \in UploadSessions : q[t] = IF t \in Own(s) THEN 0 ELSE p[t]
    <3>1. [t \in UploadSessions |-> IF t \in Own(s) THEN 0 ELSE p[t]] \in [UploadSessions -> Nat]
      OBVIOUS
    <3> QED
      BY <3>1
  <2>3. Total(q) + SizeOf(s) <= Total(p) /\ Total(q) \in Nat /\ Total(p) \in Nat
    <3>1. PICK r : r = [t \in UploadSessions \ Own(s) |-> p[t]]
      OBVIOUS
    <3>2. Sizes(q) /\ Sizes(r)
      <4>1. IsFiniteSet(UploadSessions)
        BY UploadsAssumption
      <4>2. Sizes(r)
        BY <3>1, SizesOfSessions
      <4> QED
        BY <4>1, <4>2 DEF Sizes
    <3>3. Below(q, r)
      BY <2>2, <3>1 DEF Below
    <3>4. Total(q) <= Total(r) /\ Total(q) \in Nat /\ Total(r) \in Nat
      BY <3>2, <3>3, TotalMonotonic
    <3>5. /\ Total(p) = Total([t \in Own(s) |-> p[t]]) + Total(r)
          /\ Total(p) \in Nat /\ Total([t \in Own(s) |-> p[t]]) \in Nat
      BY <1>0, <3>1, SplitOff
    <3> QED
      BY <1>0, <2>1, <3>4, <3>5
  <2>4. Total(KeptLinks)' = Total(KeptLinks) + SizeOf(s)
    <3>1. PICK k : k = KeptLinks'
      OBVIOUS
    <3>2. /\ DOMAIN k = DOMAIN KeptLinks \cup {l} /\ l \notin DOMAIN KeptLinks
          /\ \A m \in DOMAIN KeptLinks : k[m] = KeptLinks[m]
      BY <1>2, <1>7, <3>1 DEF KeptLinks
    <3>3. k[l] = SizeOf(s)
      <4>1. l \in {m \in ulinks' : ~m.lapsed}
        BY <1>7
      <4>2. LinkSize(l)' = SizeOf(s)
        BY DEF LinkSize, SizeOf, Row
      <4> QED
        BY <3>1, <4>1, <4>2 DEF KeptLinks
    <3>4. Sizes(KeptLinks) /\ Total(KeptLinks) \in Nat
      BY LinkSizes
    <3>5. Sizes(k)
      BY <1>0, <3>2, <3>3, <3>4, FS_AddElement DEF Sizes
    <3>6. Total(k) = k[l] + Total(KeptLinks)
      BY <3>2, <3>5, TotalWithout
    <3> QED
      BY <1>0, <3>1, <3>3, <3>4, <3>6
  <2>5. \A t \in UploadSessions : q[t] # 0 => Started(t)'
    BY <1>1, <2>2 DEF Promises
  <2>6. ASSUME NEW t \in UploadSessions, Promised(t)'
        PROVE  SizeOf(t)' <= Total([x \in Own(t)' |-> q[x]])
    <3>1. [x \in Own(t) |-> q[x]] = [x \in Own(t) |-> p[x]]
      <4>1. Own(t) \subseteq UploadSessions
        BY DEF Own, Group
      <4> QED
        BY <1>4, <2>2, <2>6, <4>1
    <3> QED
      BY <1>1, <1>4, <2>6, <3>1
  <2>7. Total(KeptLinks)' + Total(q) <= UserStorage
    BY <1>0, <2>3, <2>4, LinkSizes DEF Promises
  <2>8. Promises(q)'
    BY <2>5, <2>6, <2>7 DEF Promises
  <2> QED
    BY <2>8
<1> QED
  BY <1>6, <1>7

(* A step that ends no session without deleting it, lets no import past the *)
(* check and records nothing.                                              *)
LEMMA QuietStep ==
    ASSUME UploadsInv, UploadsInv', QuotaInv, Firmly, Quiet
    PROVE  QuotaInv'
<1>1. HoldInv'
  BY HoldStep DEF QuotaInv, Quiet, HoldInv
<1>2. PICK p \in [UploadSessions -> Nat] : Promises(p)
  BY DEF QuotaInv
<1>3. Promises(p)'
  BY <1>2, QuietPromises DEF QuotaInv
<1> QED
  BY <1>1, <1>3 DEF QuotaInv

(* A row that stays.                                                       *)
LEMMA SameFirm ==
    ASSUME HoldInv, NEW t \in UploadSessions
    PROVE  Firm(t, usession[t])
BY DEF HoldInv, RowOK, Firm, Started, Row

(* One row is replaced.                                                    *)
LEMMA OneFirm ==
    ASSUME UploadsInv, HoldInv, NEW s \in UploadSessions, NEW r, Firm(s, r),
           Started(s) \/ r.status \in {"none", "staging"} \/ r.kind # "partial",
           usession' = [usession EXCEPT ![s] = r]
    PROVE  /\ \A t \in UploadSessions : Firm(t, usession'[t])
           /\ \A t \in UploadSessions : Started(t)' /\ Row(t)'.kind = "partial" => Started(t)
<1>1. usession'[s] = r /\ \A t \in UploadSessions : t # s => usession'[t] = usession[t]
  BY DEF UploadsInv, UploadShape
<1>2. \A t \in UploadSessions : Firm(t, usession'[t])
  BY <1>1, SameFirm
<1>3. \A t \in UploadSessions : Started(t)' /\ Row(t)'.kind = "partial" => Started(t)
  BY <1>1 DEF Started, Row
<1> QED
  BY <1>2, <1>3

(* No row changes.                                                         *)
LEMMA NoneFirm ==
    ASSUME UploadsInv, HoldInv, UNCHANGED usession
    PROVE  /\ \A t \in UploadSessions : Firm(t, usession'[t])
           /\ \A t \in UploadSessions : Started(t)' /\ Row(t)'.kind = "partial" => Started(t)
BY SameFirm DEF Started, Row

(* An import that fails marks its session so.                              *)
LEMMA FailFirm ==
    ASSUME UploadsInv, HoldInv, NEW s \in UploadSessions, usession' = FailFinalize(s)
    PROVE  /\ \A t \in UploadSessions : Firm(t, usession'[t])
           /\ \A t \in UploadSessions : Started(t)' /\ Row(t)'.kind = "partial" => Started(t)
<1>1. CASE ~Live(s)
  BY <1>1, NoneFirm DEF FailFinalize
<1>2. CASE Live(s)
  <2>1. PICK r : r = [Row(s) EXCEPT !.status = "failed"]
    OBVIOUS
  <2>2. Started(s) /\ ~Row(s).gone
    BY <1>2 DEF Live, Started
  <2>3. Firm(s, r)
    <3>1. Row(s) \in UploadRow
      BY SameRow
    <3>2. "failed" \in ActiveStatuses
      BY DEF ActiveStatuses
    <3> QED
      BY <2>1, <2>2, <3>1, <3>2 DEF Firm, UploadRow
  <2>4. usession' = [usession EXCEPT ![s] = r]
    BY <1>2, <2>1 DEF FailFinalize, Row
  <2> QED
    BY <2>2, <2>3, <2>4, OneFirm
<1> QED
  BY <1>1, <1>2

(* A session expires.                                                      *)
LEMMA ExpireFirm ==
    ASSUME UploadsInv, HoldInv, NEW s \in UploadSessions, NEW path, ExpireSession(s, path), Started(s)
    PROVE  /\ \A t \in UploadSessions : Firm(t, usession'[t])
           /\ \A t \in UploadSessions : Started(t)' /\ Row(t)'.kind = "partial" => Started(t)
<1>1. CASE Row(s).gone
  BY <1>1, NoneFirm DEF ExpireSession
<1>2. CASE ~Row(s).gone
  <2>1. PICK r : r = [Row(s) EXCEPT !.status = "expired", !.gone = TRUE]
    OBVIOUS
  <2>2. Row(s) \in UploadRow
    BY SameRow
  <2>3. Firm(s, r)
    BY <2>1, <2>2 DEF Firm, UploadRow
  <2>4. usession' = [usession EXCEPT ![s] = r]
    BY <1>2, <2>1 DEF ExpireSession, Row
  <2> QED
    BY <2>3, <2>4, OneFirm
<1> QED
  BY <1>1, <1>2

(* The attempts in a step: none moves, or one ends, goes on or starts.     *)
Calm == /\ \A a \in Attempts : AttemptGoes(a, import'[a])
        /\ \A a \in Attempts : import'[a].pc = "record" => import[a].pc = "record"

LEMMA NoneCalm ==
    ASSUME UNCHANGED import
    PROVE  Calm
BY DEF Calm, AttemptGoes

(* One attempt moves.                                                      *)
LEMMA OneGoes ==
    ASSUME UploadsInv, NEW a \in Attempts, NEW i, AttemptGoes(a, i), import' = [import EXCEPT ![a] = i]
    PROVE  /\ \A b \in Attempts : AttemptGoes(b, import'[b]) /\ (import'[b].pc = import[b].pc \/ b = a)
           /\ i.pc # "record" => Calm
<1>1. import'[a] = i /\ \A b \in Attempts : b # a => import'[b] = import[b]
  BY DEF UploadsInv, UploadShape
<1>2. \A b \in Attempts : AttemptGoes(b, import'[b])
  BY <1>1 DEF AttemptGoes
<1> QED
  BY <1>1, <1>2 DEF Calm

(* A quiet step, by what it does to rows and attempts.                     *)
LEMMA CalmStep ==
    ASSUME UploadsInv, UploadsInv', QuotaInv, Calm, UNCHANGED <<ulinks, ufiles>>,
           \A t \in UploadSessions : Firm(t, usession'[t]),
           \A t \in UploadSessions : Started(t)' /\ Row(t)'.kind = "partial" => Started(t)
    PROVE  QuotaInv'
BY QuietStep DEF Calm, Quiet, Firmly

(* A session is created (preUploadCreate).  A single upload or a part has  *)
(* passed CheckStorageQuota, so every session under way can be promised    *)
(* what it is counted for; a concatenated upload takes no room of its own. *)
LEMMA QuotaCreate ==
    ASSUME UploadsInv, UploadsInv', QuotaInv, NEW s \in UploadSessions, NEW g \in UploadGroups,
           NEW kind \in {"single", "partial", "final"}, NEW size \in 1..MaxUploadSize,
           PreUploadCreate(s, g, kind, size)
    PROVE  QuotaInv'
<1>1. PICK r : r = [NoUpload EXCEPT !.status = "created", !.group = g, !.kind = kind,
                                    !.size = size, !.path = "upload"]
  OBVIOUS
<1>2. /\ usession' = [usession EXCEPT ![s] = r] /\ ~Started(s) /\ Row(s).status = "none"
      /\ UNCHANGED <<import, ufiles, ulinks>>
      /\ kind = "final" \/ CheckStorageQuota(size, {})
  BY <1>1, Zenon DEF PreUploadCreate, Started
<1>3. /\ r.status = "created" /\ r.protocol = "tus" /\ r.kind = kind /\ r.size = size
      /\ "created" \in ActiveStatuses
  BY <1>1 DEF NoUpload, ActiveStatuses
<1>4. Firm(s, r)
  BY <1>2, <1>3 DEF Firm
<1>5. usession'[s] = r /\ \A t \in UploadSessions : t # s => usession'[t] = usession[t]
  BY <1>2 DEF UploadsInv, UploadShape
<1>6. \A t \in UploadSessions : Firm(t, usession'[t])
  BY <1>4, <1>5, SameFirm DEF QuotaInv
<1>7. CASE kind = "final"
  BY <1>2, <1>3, <1>4, <1>7, OneFirm, NoneCalm, CalmStep DEF QuotaInv
<1>8. CASE kind # "final"
  <2>1. Firmly
    BY <1>2, <1>6, NoneCalm DEF Firmly, Calm
  <2>2. HoldInv'
    BY <1>2, <2>1, HoldStep DEF QuotaInv, HoldInv
  <2>3. QuotaBytes(s)' = size /\ size \in Nat
    BY <1>3, <1>5, <1>8, UploadsAssumption DEF QuotaBytes, SizeOf, Row
  <2>4. \E p \in [UploadSessions -> Nat] : Promises(p)'
    BY <1>2, <1>5, <1>8, <2>1, <2>3, CreationPromises DEF QuotaInv
  <2> QED
    BY <2>2, <2>4 DEF QuotaInv
<1> QED
  BY <1>7, <1>8

(* A simple upload is staged, which no sum counts yet.                     *)
LEMMA QuotaStage ==
    ASSUME UploadsInv, UploadsInv', QuotaInv, NEW s \in UploadSessions, NEW g \in UploadGroups,
           NEW size \in 1..MaxUploadSize, StageSimpleUpload(s, g, size)
    PROVE  QuotaInv'
<1>1. PICK r : r = [NoUpload EXCEPT !.status = "staging", !.group = g,
                                    !.protocol = "simple", !.size = size]
  OBVIOUS
<1>2. /\ usession' = [usession EXCEPT ![s] = r] /\ ~Started(s)
      /\ UNCHANGED <<import, ufiles, ulinks>>
  BY <1>1, Zenon DEF StageSimpleUpload, Started
<1>3. r.status = "staging" /\ r.kind = "single"
  BY <1>1 DEF NoUpload
<1>4. Firm(s, r)
  BY <1>2, <1>3 DEF Firm
<1> QED
  BY <1>2, <1>3, <1>4, OneFirm, NoneCalm, CalmStep DEF QuotaInv

(* Its row is stored once the bytes are there, or dropped when they are    *)
(* not whole.                                                              *)
LEMMA QuotaStore ==
    ASSUME UploadsInv, UploadsInv', QuotaInv, NEW s \in UploadSessions,
           NEW whole \in BOOLEAN, StoreSimpleUpload(s, whole)
    PROVE  QuotaInv'
<1>0. HoldInv /\ Row(s) \in UploadRow
  BY SameRow DEF QuotaInv
<1>1. UNCHANGED <<import, ufiles, ulinks>> /\ ~Started(s) /\ Row(s).status = "staging"
  BY DEF StoreSimpleUpload, Started
<1>2. PICK r : /\ usession' = [usession EXCEPT ![s] = r]
               /\ r = NoUpload \/ r = [Row(s) EXCEPT !.status = "uploaded", !.path = "upload"]
  BY DEF StoreSimpleUpload, Row
<1>3. r.kind # "partial" /\ r.status \in ActiveStatuses \cup {"none"}
  <2>1. CASE r = NoUpload
    BY <2>1 DEF NoUpload
  <2>2. CASE r = [Row(s) EXCEPT !.status = "uploaded", !.path = "upload"]
    <3>1. Row(s).kind # "partial"
      BY <1>0, <1>1 DEF HoldInv, RowOK
    <3> QED
      BY <1>0, <2>2, <3>1 DEF UploadRow, ActiveStatuses
  <2> QED
    BY <1>2, <2>1, <2>2
<1>4. Firm(s, r)
  BY <1>1, <1>3 DEF Firm
<1> QED
  BY <1>0, <1>1, <1>2, <1>3, <1>4, OneFirm, NoneCalm, CalmStep

(* The other requests of a client.                                         *)
LEMMA QuotaClient ==
    ASSUME UploadsInv, UploadsInv', QuotaInv, NEW s \in UploadSessions,
           \/ \E last \in BOOLEAN : Patch(s, last)
           \/ TouchExpired(s) \/ Terminate(s) \/ EnqueueFinalize(s) \/ EnqueueSimpleUpload(s)
    PROVE  QuotaInv'
<1>0. HoldInv /\ Row(s) \in UploadRow /\ UNCHANGED <<import, ufiles, ulinks>>
  BY SameRow, Zenon DEF QuotaInv, Patch, TouchExpired, Terminate, EnqueueFinalize, EnqueueSimpleUpload
<1>1. CASE UNCHANGED usession
  BY <1>0, <1>1, NoneFirm, NoneCalm, CalmStep
<1>2. CASE TouchExpired(s)
  <2>1. Started(s) /\ ExpireSession(s, Row(s).path)
    BY <1>2, LiveStarted DEF TouchExpired, AuthorizeUploadResource
  <2> QED
    BY <1>0, <2>1, ExpireFirm, NoneCalm, CalmStep
<1>3. CASE Terminate(s)
  <2>1. PICK r : r = [Row(s) EXCEPT !.dropped = TRUE]
    OBVIOUS
  <2>2. Started(s) /\ usession' = [usession EXCEPT ![s] = r]
    BY <1>3, <2>1, LiveStarted DEF Terminate, AuthorizeUploadResource, Row
  <2>3. Firm(s, r)
    BY <1>0, <2>1, <2>2 DEF Firm, UploadRow, HoldInv, RowOK, Started
  <2> QED
    BY <1>0, <2>2, <2>3, OneFirm, NoneCalm, CalmStep
<1> QED
  BY <1>1, <1>2, <1>3, Zenon DEF Patch, EnqueueFinalize, EnqueueSimpleUpload

(* The consumers of the tus events, retention and the sweep.               *)
LEMMA QuotaServer ==
    ASSUME UploadsInv, UploadsInv', QuotaInv, NEW s \in UploadSessions,
           (\E ch \in EventChannels : ConsumeEvent(ch, s)) \/ RetentionEnds(s) \/ CleanupSession(s)
    PROVE  QuotaInv'
<1>0. HoldInv /\ Row(s) \in UploadRow /\ UNCHANGED <<import, ufiles, ulinks>>
  BY SameRow, Zenon DEF QuotaInv, ConsumeEvent, RetentionEnds, CleanupSession
<1>1. ASSUME NEW ch \in EventChannels, ConsumeEvent(ch, s), Live(s) PROVE QuotaInv'
  <2>1. PICK r : r = Consumed(ch, s)
    OBVIOUS
  <2>2. Started(s) /\ ~Row(s).gone /\ usession' = [usession EXCEPT ![s] = r]
    BY <1>1, <2>1, LiveStarted DEF ConsumeEvent, Live
  <2>3. Firm(s, r)
    <3>1. {"uploading", "uploaded"} \subseteq ActiveStatuses /\ "canceled" \notin {"none", "staging"}
      BY DEF ActiveStatuses
    <3>2. CASE ch = "progress"
      <4>1. r = [Row(s) EXCEPT !.path = "upload", !.status = "uploading"]
        BY <2>1, <3>2 DEF Consumed, UpdateSessionFromEvent
      <4> QED
        BY <1>0, <2>2, <3>1, <4>1 DEF Firm, UploadRow
    <3>3. CASE ch = "complete"
      <4>1. r = [Row(s) EXCEPT !.path = "upload", !.status = "uploaded"]
        BY <2>1, <3>3 DEF Consumed, CompleteSessionFromEvent
      <4> QED
        BY <1>0, <2>2, <3>1, <4>1 DEF Firm, UploadRow
    <3>4. CASE ch = "terminated"
      <4>1. r = [Row(s) EXCEPT !.status = "canceled", !.gone = TRUE]
        BY <2>1, <3>4 DEF Consumed, TerminateSession
      <4> QED
        BY <1>0, <2>2, <3>1, <4>1 DEF Firm, UploadRow
    <3> QED
      BY <3>2, <3>3, <3>4 DEF EventChannels
  <2> QED
    BY <1>0, <2>2, <2>3, OneFirm, NoneCalm, CalmStep
<1>2. ASSUME NEW ch \in EventChannels, ConsumeEvent(ch, s), ~Live(s) PROVE QuotaInv'
  BY <1>0, <1>2, NoneFirm, NoneCalm, CalmStep DEF ConsumeEvent
<1>3. CASE RetentionEnds(s)
  <2>1. PICK r : r = [Row(s) EXCEPT !.late = TRUE]
    OBVIOUS
  <2>2. Started(s) /\ usession' = [usession EXCEPT ![s] = r]
    BY <1>3, <2>1, LiveStarted DEF RetentionEnds, Row
  <2>3. Firm(s, r)
    BY <1>0, <2>1, <2>2 DEF Firm, UploadRow, HoldInv, RowOK, Started
  <2> QED
    BY <1>0, <2>2, <2>3, OneFirm, NoneCalm, CalmStep
<1>4. CASE CleanupSession(s)
  <2>1. Started(s) /\ ExpireSession(s, usweep[s])
    BY <1>4 DEF CleanupSession, UploadsInv, SweepOK
  <2> QED
    BY <1>0, <2>1, ExpireFirm, NoneCalm, CalmStep
<1> QED
  BY <1>1, <1>2, <1>3, <1>4

(* Imports are retried, and the service starts again after a crash.        *)
LEMMA QuotaService ==
    ASSUME UploadsInv, UploadsInv', QuotaInv,
           (\E g \in UploadGroups : RetryImport(g)) \/ CleanupExpired \/ UploadsRestart
    PROVE  QuotaInv'
<1>0. HoldInv /\ UNCHANGED <<ufiles, ulinks>>
  BY Zenon DEF QuotaInv, RetryImport, CleanupExpired, UploadsRestart
<1>1. CASE UNCHANGED <<usession, import>>
  BY <1>0, <1>1, NoneFirm, NoneCalm, CalmStep
<1>2. CASE UploadsRestart
  <2>1. /\ import' = [a \in Attempts |-> NoImport]
        /\ usession' = [s \in UploadSessions |-> IF Row(s).status = "staging" THEN NoUpload ELSE Row(s)]
    BY <1>2 DEF UploadsRestart
  <2>2. NoImport.pc = "idle" /\ NoImport.clone = "none"
    BY DEF NoImport
  <2>3. NoUpload.status = "none" /\ NoUpload.kind = "single"
    BY DEF NoUpload
  <2>4. \A t \in UploadSessions : Firm(t, usession'[t])
    <3> TAKE t \in UploadSessions
    <3>1. CASE Row(t).status = "staging"
      <4>1. usession'[t] = NoUpload /\ ~Started(t)
        BY <2>1, <3>1 DEF Started
      <4> QED
        BY <2>3, <4>1 DEF Firm
    <3>2. CASE Row(t).status # "staging"
      BY <1>0, <2>1, <3>2, SameFirm DEF Row
    <3> QED
      BY <3>1, <3>2
  <2>5. \A t \in UploadSessions : Started(t)' /\ Row(t)'.kind = "partial" => Started(t)
    BY <2>1, <2>3 DEF Started, Row
  <2>6. Calm
    BY <2>1, <2>2 DEF Calm, AttemptGoes
  <2> QED
    BY <1>0, <2>4, <2>5, <2>6, CalmStep
<1> QED
  BY <1>1, <1>2, Zenon DEF RetryImport, CleanupExpired

(* A failed attempt, or one that goes on with the rows as they are.        *)
LEMMA QuotaGoesOn ==
    ASSUME UploadsInv, UploadsInv', QuotaInv, NEW a \in Attempts, NEW i, i.pc # "record",
           AttemptGoes(a, i), import' = [import EXCEPT ![a] = i],
           usession' = FailFinalize(a[1]) \/ UNCHANGED usession, UNCHANGED <<ufiles, ulinks>>
    PROVE  QuotaInv'
<1>1. Calm /\ a[1] \in UploadSessions
  BY OneGoes, ImportRows
<1>2. /\ \A t \in UploadSessions : Firm(t, usession'[t])
      /\ \A t \in UploadSessions : Started(t)' /\ Row(t)'.kind = "partial" => Started(t)
  BY <1>1, NoneFirm, FailFirm DEF QuotaInv
<1> QED
  BY <1>1, <1>2, CalmStep

(* An attempt ends.                                                        *)
LEMMA EndsGoes ==
    ASSUME NEW a \in Attempts
    PROVE  AttemptGoes(a, NoImport) /\ NoImport.pc # "record"
BY DEF AttemptGoes, NoImport

(* It goes on.                                                             *)
LEMMA OnGoes ==
    ASSUME UploadsInv, NEW a \in Attempts, import[a].pc # "idle",
           NEW pc \in {"claim", "move", "create", "record", "complete"}
    PROVE  AttemptGoes(a, [import[a] EXCEPT !.pc = pc]) /\ [import[a] EXCEPT !.pc = pc].pc = pc
BY ImportRows DEF AttemptGoes

(* It starts.                                                              *)
LEMMA StartGoes ==
    ASSUME NEW a \in Attempts, Started(a[1]),
           Row(a[1]).protocol = "tus" \/ (a[2] = "task" /\ usession'[a[1]].status \in ActiveStatuses),
           NEW pc \in {"claim", "move", "create", "complete"}, NEW from
    PROVE  /\ AttemptGoes(a, [NoImport EXCEPT !.pc = pc, !.from = from])
           /\ AttemptGoes(a, [NoImport EXCEPT !.pc = pc])
           /\ [NoImport EXCEPT !.pc = pc, !.from = from].pc = pc
           /\ [NoImport EXCEPT !.pc = pc].pc = pc
BY DEF AttemptGoes, NoImport

(* The import loads a tus session.                                         *)
LEMMA QuotaLoad ==
    ASSUME UploadsInv, UploadsInv', QuotaInv, NEW a \in Attempts, ImportLoad(a)
    PROVE  QuotaInv'
<1> DEFINE s == a[1]
<1>0. /\ s \in UploadSessions /\ Started(s) /\ Row(s).protocol = "tus" /\ HoldInv
      /\ UNCHANGED <<ufiles, ulinks>> /\ Row(s) \in UploadRow
  BY ImportRows, SameRow DEF ImportLoad, Admitted, Started, QuotaInv
<1>1. CASE UNCHANGED <<import, usession>>
  BY <1>0, <1>1, NoneFirm, NoneCalm, CalmStep
<1>2. ASSUME NEW pc \in {"claim", "move", "complete"}, NEW from, UNCHANGED usession,
             import' = [import EXCEPT ![a] = [NoImport EXCEPT !.pc = pc, !.from = from]]
      PROVE  QuotaInv'
  BY <1>0, <1>2, StartGoes, QuotaGoesOn
<1>3. CASE ExpireSession(s, Row(s).path) /\ UNCHANGED import
  BY <1>0, <1>3, ExpireFirm, NoneCalm, CalmStep
<1>4. CASE usession' = FailFinalize(s) /\ UNCHANGED import
  BY <1>0, <1>4, FailFirm, NoneCalm, CalmStep
<1>5. ASSUME NEW from, Live(s), import' = [import EXCEPT ![a] = [NoImport EXCEPT !.pc = "claim", !.from = from]],
             usession' = [usession EXCEPT ![s].status = "uploaded"]
      PROVE  QuotaInv'
  <2>1. PICK r : r = [Row(s) EXCEPT !.status = "uploaded"]
    OBVIOUS
  <2>2. ~Row(s).gone /\ usession' = [usession EXCEPT ![s] = r]
    BY <1>5, <2>1 DEF Live, Row
  <2>3. Firm(s, r)
    BY <1>0, <2>1, <2>2 DEF Firm, UploadRow, ActiveStatuses
  <2>4. Calm
    BY <1>0, <1>5, StartGoes, OneGoes
  <2> QED
    BY <1>0, <2>2, <2>3, <2>4, OneFirm, CalmStep
<1> HIDE DEF s
<1>6. \/ UNCHANGED <<import, usession>>
      \/ \E pc \in {"claim", "move", "complete"}, from \in {"import", Staged(s)} :
            /\ import' = [import EXCEPT ![a] = [NoImport EXCEPT !.pc = pc, !.from = from]]
            /\ \/ UNCHANGED usession
               \/ pc = "claim" /\ Live(s) /\ usession' = [usession EXCEPT ![s].status = "uploaded"]
      \/ ExpireSession(s, Row(s).path) /\ UNCHANGED import
      \/ usession' = FailFinalize(s) /\ UNCHANGED import
  BY DEF ImportLoad, s
<1> QED
  BY <1>1, <1>2, <1>3, <1>4, <1>5, <1>6

(* The import loads a simple session.                                      *)
LEMMA QuotaLoadSimple ==
    ASSUME UploadsInv, UploadsInv', QuotaInv, NEW a \in Attempts, ImportLoadSimple(a)
    PROVE  QuotaInv'
<1>0. /\ a[1] \in UploadSessions /\ Started(a[1]) /\ HoldInv /\ a[2] = "task"
      /\ UNCHANGED <<usession, ufiles, ulinks>>
  BY ImportRows DEF ImportLoadSimple, Admitted, Started, QuotaInv
<1>1. CASE UNCHANGED import
  BY <1>0, <1>1, NoneFirm, NoneCalm, CalmStep
<1>2. ASSUME NEW pc \in {"create", "claim"}, Row(a[1]).status \in ActiveStatuses,
             import' = [import EXCEPT ![a] = [NoImport EXCEPT !.pc = pc]]
      PROVE  QuotaInv'
  <2>1. usession'[a[1]].status \in ActiveStatuses
    BY <1>0, <1>2 DEF Row
  <2> QED
    BY <1>0, <1>2, <2>1, StartGoes, QuotaGoesOn
<1>3. {"importing", "uploaded", "failed"} \subseteq ActiveStatuses
  BY DEF ActiveStatuses
<1> QED
  BY <1>1, <1>2, <1>3 DEF ImportLoadSimple

(* It claims the session and moves its bytes.                              *)
LEMMA QuotaClaim ==
    ASSUME UploadsInv, UploadsInv', QuotaInv, NEW a \in Attempts,
           TransitionToImporting(a) \/ ImportMove(a)
    PROVE  QuotaInv'
<1>0. /\ a[1] \in UploadSessions /\ Started(a[1]) /\ HoldInv /\ Row(a[1]) \in UploadRow
      /\ import[a].pc # "idle" /\ UNCHANGED <<ufiles, ulinks>>
  BY ImportRows, SameRow DEF TransitionToImporting, ImportMove, ImportOK, QuotaInv
<1>1. CASE import' = [import EXCEPT ![a] = NoImport] /\ (usession' = FailFinalize(a[1]) \/ UNCHANGED usession)
  BY <1>0, <1>1, EndsGoes, QuotaGoesOn
<1>2. ASSUME NEW pc \in {"move", "create"}, import' = [import EXCEPT ![a].pc = pc],
             NEW r, usession' = [usession EXCEPT ![a[1]] = r], Firm(a[1], r)
      PROVE  QuotaInv'
  <2>1. import' = [import EXCEPT ![a] = [import[a] EXCEPT !.pc = pc]]
    BY <1>2
  <2>2. Calm
    BY <1>0, <2>1, OnGoes, OneGoes
  <2> QED
    BY <1>0, <1>2, <2>2, OneFirm, CalmStep
<1>3. CASE TransitionToImporting(a)
  <2>1. CASE Live(a[1]) /\ Row(a[1]).status \in {"uploaded", "failed"}
    <3>1. PICK r : r = [Row(a[1]) EXCEPT !.status = "importing"]
      OBVIOUS
    <3>2. /\ usession' = [usession EXCEPT ![a[1]] = r]
          /\ \E pc \in {"move", "create"} : import' = [import EXCEPT ![a].pc = pc]
      BY <1>3, <2>1, <3>1 DEF TransitionToImporting, Goes, Row
    <3>3. Firm(a[1], r)
      BY <1>0, <2>1, <3>1 DEF Firm, UploadRow, ActiveStatuses, Live
    <3> QED
      BY <1>2, <3>2, <3>3
  <2>2. CASE ~(Live(a[1]) /\ Row(a[1]).status \in {"uploaded", "failed"})
    BY <1>1, <1>3, <2>2 DEF TransitionToImporting, Ends
  <2> QED
    BY <2>1, <2>2
<1>4. CASE ImportMove(a)
  <2>1. CASE import[a].from = "import" \/ udata[a[1]] = "upload"
    <3>1. PICK r : r = [Row(a[1]) EXCEPT !.path = "import"]
      OBVIOUS
    <3>2. /\ usession' = [usession EXCEPT ![a[1]] = r]
          /\ import' = [import EXCEPT ![a].pc = "create"]
      BY <1>4, <2>1, <3>1 DEF ImportMove, Goes, Row
    <3>3. Firm(a[1], r)
      BY <1>0, <3>1 DEF Firm, UploadRow, HoldInv, RowOK, Started
    <3> QED
      BY <1>2, <3>2, <3>3
  <2>2. CASE ~(import[a].from = "import" \/ udata[a[1]] = "upload")
    BY <1>1, <1>4, <2>2 DEF ImportMove, Ends
  <2> QED
    BY <2>1, <2>2
<1> QED
  BY <1>3, <1>4

(* It finds the link made before, is refused by the quota, or fails.       *)
LEMMA QuotaFails ==
    ASSUME UploadsInv, UploadsInv', QuotaInv, NEW a \in Attempts,
           CreateFromKey(a) \/ CreateRefused(a) \/ ImportFails(a)
    PROVE  QuotaInv'
<1>1. CASE CreateFromKey(a)
  <2>1. /\ import' = [import EXCEPT ![a] = [import[a] EXCEPT !.pc = "complete"]]
        /\ import[a].pc # "idle" /\ UNCHANGED <<usession, ufiles, ulinks>>
    BY <1>1 DEF CreateFromKey, Goes
  <2> QED
    BY <2>1, OnGoes, QuotaGoesOn
<1>2. CASE CreateRefused(a) \/ ImportFails(a)
  <2>1. /\ import' = [import EXCEPT ![a] = NoImport]
        /\ usession' = FailFinalize(a[1]) \/ UNCHANGED usession
        /\ UNCHANGED <<ufiles, ulinks>>
    BY <1>2, Zenon DEF CreateRefused, ImportFails, Ends
  <2> QED
    BY <2>1, EndsGoes, QuotaGoesOn
<1> QED
  BY <1>1, <1>2

(* An import passes the check of CreateFileContext.                        *)
LEMMA QuotaCheck ==
    ASSUME UploadsInv, UploadsInv', QuotaInv, NEW a \in Attempts,
           PublishSource(a) \/ \E f \in UploadSessions : CloneFileByHash(a, f)
    PROVE  QuotaInv'
<1> DEFINE s == a[1]
<1>0. /\ s \in UploadSessions /\ Started(s) /\ HoldInv /\ import[a].pc # "idle"
      /\ import[a] \in ImportRow
      /\ UNCHANGED <<usession, ufiles, ulinks>>
  BY ImportRows DEF PublishSource, CloneFileByHash, ImportOK, QuotaInv
<1>1. /\ CheckStorageQuota(SizeOf(s), Own(s))
      /\ \E i : AttemptGoes(a, i) /\ import' = [import EXCEPT ![a] = i]
  <2>1. CASE PublishSource(a)
    <3>1. import' = [import EXCEPT ![a] = [import[a] EXCEPT !.pc = "record"]]
      BY <2>1 DEF PublishSource, Goes
    <3> QED
      BY <1>0, <2>1, <3>1, OnGoes DEF PublishSource
  <2>2. ASSUME NEW f \in UploadSessions, CloneFileByHash(a, f)
        PROVE  /\ CheckStorageQuota(SizeOf(s), Own(s))
               /\ \E i : AttemptGoes(a, i) /\ import' = [import EXCEPT ![a] = i]
    <3>1. f \in ufiles /\ SizeOf(f) = SizeOf(s) /\ CheckStorageQuota(SizeOf(f), Own(s))
      BY <2>2 DEF CloneFileByHash, SameHash
    <3>2. PICK i : i = [import[a] EXCEPT !.pc = "record", !.clone = f]
      OBVIOUS
    <3>3. import' = [import EXCEPT ![a] = i]
      BY <2>2, <3>2 DEF CloneFileByHash
    <3>4. i.pc = "record" /\ i.clone = f
      BY <1>0, <3>2 DEF ImportRow
    <3>5. AttemptGoes(a, i)
      BY <1>0, <3>1, <3>4 DEF AttemptGoes
    <3> QED
      BY <3>1, <3>3, <3>5
  <2> QED
    BY <2>1, <2>2
<1>2. PICK i : AttemptGoes(a, i) /\ import' = [import EXCEPT ![a] = i]
  BY <1>1
<1>3. \A b \in Attempts : AttemptGoes(b, import'[b]) /\ (import'[b].pc = import[b].pc \/ b = a)
  BY <1>2, OneGoes
<1>4. Firmly
  BY <1>0, <1>3, NoneFirm DEF Firmly
<1>5. HoldInv'
  BY <1>0, <1>4, HoldStep DEF HoldInv
<1>6. PICK p \in [UploadSessions -> Nat] : Promises(p)
  BY DEF QuotaInv
<1>7. \A t \in UploadSessions : Recording(t)' => Recording(t) \/ t = s
  BY <1>3 DEF Recording
<1> HIDE DEF s
<1>8. \E q \in [UploadSessions -> Nat] : Promises(q)'
  BY <1>0, <1>1, <1>4, <1>6, <1>7, CheckedPromises
<1> QED
  BY <1>5, <1>8 DEF QuotaInv

(* The link and its file are recorded in the room the check left           *)
(* (CreateFileContext).                                                    *)
LEMMA QuotaRecord ==
    ASSUME UploadsInv, UploadsInv', QuotaInv, NEW a \in Attempts, RecordFile(a)
    PROVE  QuotaInv'
<1> DEFINE s == a[1]
           g == Row(s).group
           f == IF import[a].clone = "none" THEN s ELSE import[a].clone
<1>0. /\ s \in UploadSessions /\ Started(s) /\ HoldInv /\ import[a].pc = "record"
      /\ import[a] \in ImportRow /\ Recording(s)
  BY ImportRows DEF RecordFile, ImportOK, QuotaInv, Recording
<1>1. CASE LinkOf(g) # {}
  <2>1. /\ import' = [import EXCEPT ![a] = NoImport] /\ usession' = FailFinalize(s)
        /\ UNCHANGED <<ufiles, ulinks>>
    BY <1>1 DEF RecordFile, Ends
  <2> QED
    BY <2>1, EndsGoes, QuotaGoesOn
<1>2. CASE LinkOf(g) = {}
  <2>1. PICK l : l = [key |-> CreationKey(g), file |-> f, group |-> g,
                      id |-> Cardinality(ulinks), lapsed |-> HeldStorage(s) < SizeOf(s)]
    OBVIOUS
  <2>2. /\ ulinks' = ulinks \cup {l} /\ ufiles' = ufiles \cup {f} /\ UNCHANGED usession
        /\ import' = [import EXCEPT ![a] = [import[a] EXCEPT !.pc = "complete"]]
    BY <1>2, <2>1 DEF RecordFile, Goes
  <2>3. l.group = g /\ l.file = f /\ l.lapsed = (HeldStorage(s) < SizeOf(s))
    BY <2>1
  <2>4. f \in UploadSessions /\ Started(f) /\ SizeOf(f) = SizeOf(s)
    <3>1. CASE import[a].clone = "none"
      BY <1>0, <3>1
    <3>2. CASE import[a].clone # "none"
      <4>1. import[a].clone \in ufiles
        BY <3>2 DEF UploadsInv, ImportOK
      <4>2. SizeOf(import[a].clone) = SizeOf(s)
        BY <1>0, <3>2 DEF HoldInv, TryOK
      <4> QED
        BY <3>2, <4>1, <4>2 DEF UploadsInv, UploadShape, FileOK
    <3> QED
      BY <3>1, <3>2
  <2>5. ~HasLink(s)
    BY <1>2 DEF LinkOf, CreationKey, HasLink, UploadsInv, LinksUnique
  <2>6. AttemptGoes(a, [import[a] EXCEPT !.pc = "complete"]) /\ [import[a] EXCEPT !.pc = "complete"].pc = "complete"
    BY <1>0, OnGoes
  <2>7. Calm
    BY <2>2, <2>6, OneGoes
  <2>8. Firmly /\ \A t \in UploadSessions : Recording(t)' => Recording(t)
    BY <1>0, <2>2, <2>7, NoneFirm DEF Firmly, Calm, Recording
  <2> HIDE DEF f, g, s
  <2>9. HoldInv'
    <3>1. IsFiniteSet(ulinks') /\ \A m \in ulinks' : m.file \in ufiles'
      BY <1>0, <2>2, <2>3, FS_AddElement DEF HoldInv
    <3> QED
      BY <1>0, <2>8, <3>1, HoldStep
  <2>10. PICK p \in [UploadSessions -> Nat] : Promises(p)
    BY DEF QuotaInv
  <2>11. \E q \in [UploadSessions -> Nat] : Promises(q)'
    BY <1>0, <2>2, <2>3, <2>4, <2>5, <2>8, <2>10, RecordedPromises DEF g
  <2> QED
    BY <2>9, <2>11 DEF QuotaInv
<1> QED
  BY <1>1, <1>2

(* completeFinalize deletes the rows of a tus upload, and leaves the one   *)
(* of a simple upload, whose only attempt has ended.                       *)
LEMMA QuotaComplete ==
    ASSUME UploadsInv, UploadsInv', QuotaInv, NEW a \in Attempts, CompleteFinalize(a)
    PROVE  QuotaInv'
<1> DEFINE s == a[1]
           tus == Row(s).protocol = "tus"
           group == IF tus THEN {t \in Own(s) : Started(t)} ELSE {s}
<1>0. /\ s \in UploadSessions /\ Started(s) /\ HoldInv
      /\ import[a].pc = "complete" /\ import' = [import EXCEPT ![a] = NoImport]
      /\ UNCHANGED <<ufiles, ulinks>>
  BY ImportRows, Zenon DEF CompleteFinalize, Ends, ImportOK, QuotaInv
<1>1. usession' = [t \in UploadSessions |-> IF t \in group THEN DoneRow(t, tus) ELSE Row(t)]
  BY Zenon DEF CompleteFinalize, DoneRow, Started
<1>2. Calm
  <2>1. AttemptGoes(a, NoImport) /\ NoImport.pc # "record"
    BY EndsGoes
  <2> QED
    BY <1>0, <2>1, OneGoes
<1>3. import \in [Attempts -> ImportRow] /\ NoImport.pc = "idle"
  BY ImportRows DEF UploadsInv, UploadShape
<1>4. ~tus => IdleNext(s)
  <2> SUFFICES ASSUME ~tus, NEW b \in Attempts, b[1] = s PROVE import'[b].pc = "idle"
    BY DEF IdleNext
  <2>1. CASE b = a
    BY <1>0, <1>3, <2>1
  <2>2. CASE b # a
    <3>1. a[2] # "direct"
      BY <1>0 DEF HoldInv, TryOK
    <3>2. b[2] # "task"
      BY <2>2, <3>1 DEF Attempts
    <3>3. b[2] = "direct"
      BY <3>2 DEF Attempts
    <3>4. import[b].pc = "idle"
      BY <1>0, <3>3 DEF HoldInv, TryOK
    <3> QED
      BY <1>0, <1>3, <2>2, <3>4
  <2> QED
    BY <2>1, <2>2
<1>5. \A t \in group : t \in UploadSessions /\ Started(t)
  BY <1>0 DEF Own, Group
<1>6. tus \in BOOLEAN /\ (~tus => group = {s})
  OBVIOUS
<1>7. tus = (Row(s).protocol = "tus")
  OBVIOUS
<1> HIDE DEF tus, group, s
<1>8. ASSUME NEW t \in UploadSessions PROVE Firm(t, usession'[t])
  <2>1. CASE t \notin group
    BY <1>0, <1>1, <2>1, SameFirm DEF Row
  <2>2. CASE t \in group
    <3>1. usession'[t] = DoneRow(t, tus) /\ Row(t) \in UploadRow
      BY <1>1, <2>2, SameRow
    <3>2. PICK r : r = DoneRow(t, tus)
      OBVIOUS
    <3>3. /\ r.status = "done" /\ r.gone = (Row(t).gone \/ tus) /\ r.group = Row(t).group
          /\ r.protocol = Row(t).protocol /\ r.kind = Row(t).kind /\ r.size = Row(t).size
      BY <3>1, <3>2 DEF DoneRow, UploadRow
    <3>4. CASE Started(t) /\ tus
      BY <3>1, <3>2, <3>3, <3>4 DEF Firm
    <3>5. CASE Started(t) /\ ~tus
      <4>1. t = s /\ r.protocol = "simple"
        BY <1>6, <1>7, <2>2, <3>1, <3>3, <3>5 DEF UploadRow
      <4> QED
        BY <1>4, <3>1, <3>2, <3>3, <3>5, <4>1 DEF Firm
    <3> QED
      BY <1>5, <2>2, <3>4, <3>5
  <2> QED
    BY <2>1, <2>2
<1>9. \A t \in UploadSessions : Started(t)' /\ Row(t)'.kind = "partial" => Started(t)
  <2> SUFFICES ASSUME NEW t \in UploadSessions, t \notin group, Started(t)' PROVE Started(t)
    BY <1>5
  <2> QED
    BY <1>1 DEF Started, Row
<1> QED
  BY <1>0, <1>2, <1>8, <1>9, CalmStep

(* Nothing is promised at first.                                           *)
LEMMA QuotaInvInit == UploadsInit => QuotaInv
<1> SUFFICES ASSUME UploadsInit PROVE QuotaInv
  OBVIOUS
<1>1. /\ ulinks = {} /\ ufiles = {} /\ \A a \in Attempts : import[a] = NoImport
      /\ \A t \in UploadSessions : Row(t) = NoUpload
  BY DEF UploadsInit, Row
<1>2. NoImport.pc = "idle" /\ NoImport.clone = "none"
  BY DEF NoImport
<1>3. HoldInv
  <2>1. IsFiniteSet({})
    BY FS_EmptySet
  <2>2. NoUpload.status = "none" /\ NoUpload.kind = "single"
    BY DEF NoUpload
  <2>3. \A t \in UploadSessions : RowOK(t)
    BY <1>1, <2>2 DEF RowOK, Started
  <2>4. \A a \in Attempts : TryOK(a)
    BY <1>1, <1>2 DEF TryOK
  <2> QED
    BY <1>1, <2>1, <2>3, <2>4 DEF HoldInv
<1>4. PICK p : p = [t \in UploadSessions |-> 0]
  OBVIOUS
<1>5. Total(p) = 0 /\ Total(KeptLinks) = 0
  <2>1. Units(p) = {} /\ Units(KeptLinks) = {}
    BY <1>1, <1>4 DEF Units, KeptLinks
  <2> QED
    BY <2>1, FS_EmptySet DEF Total
<1>6. Promises(p)
  <2>1. \A s \in UploadSessions : ~Promised(s)
    BY <1>1, <1>2 DEF Promised, Recording
  <2> QED
    BY <1>4, <1>5, <2>1, UploadsAssumption DEF Promises
<1> QED
  BY <1>3, <1>4, <1>6 DEF QuotaInv

(* Every step of the uploads keeps the promises.                           *)
LEMMA QuotaInvNext ==
    ASSUME UploadsInv, UploadsInv', QuotaInv, [UploadsNext]_uploadVars
    PROVE  QuotaInv'
<1>1. ASSUME NEW s \in UploadSessions, ClientStep(s) PROVE QuotaInv'
  BY <1>1, QuotaCreate, QuotaStage, QuotaStore, QuotaClient, Zenon DEF ClientStep
<1>2. ASSUME NEW s \in UploadSessions, ServerStep(s) PROVE QuotaInv'
  BY <1>2, QuotaServer, Zenon DEF ServerStep
<1>3. ASSUME NEW a \in Attempts, ImportStep(a) PROVE QuotaInv'
  BY <1>3, QuotaLoad, QuotaLoadSimple, QuotaClaim, QuotaFails, QuotaCheck, QuotaRecord,
     QuotaComplete, Zenon DEF ImportStep
<1>4. CASE (\E g \in UploadGroups : RetryImport(g)) \/ CleanupExpired \/ UploadsRestart
  BY <1>4, QuotaService, Zenon
<1>5. CASE UNCHANGED uploadVars
  <2>1. HoldInv /\ UNCHANGED <<usession, import, ulinks, ufiles>>
    BY <1>5 DEF uploadVars, QuotaInv
  <2> QED
    BY <2>1, NoneFirm, NoneCalm, CalmStep
<1> QED
  BY <1>1, <1>2, <1>3, <1>4, <1>5, Zenon DEF UploadsNext

(* The videos recorded for a user never exceed the storage quota, however  *)
(* the sessions, parts and imports interleave: CheckStorageQuota leaves    *)
(* room for every session under way, and an import that has passed it      *)
(* records its video in the room its own session, or the parts it was put  *)
(* together from, keep pending (CreateFileContext, CheckStorageQuota).     *)
THEOREM QuotaIsKept == UploadsSpec => []QuotaKept
<1>1. UploadsInv /\ UploadsInv' /\ QuotaInv /\ [UploadsNext]_uploadVars => QuotaInv'
  BY QuotaInvNext
<1>2. UploadsInv /\ QuotaInv => QuotaKept
  <2> SUFFICES ASSUME UploadsInv, QuotaInv PROVE QuotaKept
    OBVIOUS
  <2>1. PICK p \in [UploadSessions -> Nat] : Promises(p)
    BY DEF QuotaInv
  <2>2. Total(p) \in Nat
    BY SplitOff
  <2>3. Total(KeptLinks) \in Nat /\ UserStorage \in Nat
    BY LinkSizes, UploadsAssumption DEF QuotaInv
  <2> QED
    BY <2>1, <2>2, <2>3 DEF Promises, QuotaKept, KeptLinks
<1>3. UploadsInit => QuotaInv
  BY QuotaInvInit
<1> QED
  BY <1>1, <1>2, <1>3, UploadsInvHolds, PTL DEF UploadsSpec

-----------------------------------------------------------------------------
(* Shared folders.                                                         *)

(* The largest of finitely many numbers.                                   *)
LEMMA LeastOf ==
    ASSUME NEW R, IsWellFoundedOn(R, Nat), \A x, y \in Nat : x < y => <<x, y>> \in R,
           NEW T, T \subseteq Nat, T # {}
    PROVE  \E n \in T : \A m \in T : n <= m
<1>1. \E n \in T : \A m \in T : ~(<<m, n>> \in R)
  BY WFMin, ZenonT(120)
<1>2. PICK n \in T : \A m \in T : ~(<<m, n>> \in R)
  BY <1>1
<1>3. ASSUME NEW m \in T PROVE n <= m
  <2>1. n \in Nat /\ m \in Nat /\ ~(m < n)
    BY <1>2
  <2> QED
    BY <2>1
<1> QED
  BY <1>3

(* The largest of finitely many numbers, as ReservedBy takes it.           *)
LEMMA Greatest ==
    ASSUME NEW N \in Nat, NEW S, S \subseteq 0..N, S # {}
    PROVE  Max(S) \in Nat /\ \A n \in S : n <= Max(S)
<1> DEFINE R == OpToRel(<, Nat)
<1>1. IsWellFoundedOn(R, Nat)
  BY NatLessThanWellFounded, Zenon
<1>2. \A x, y \in Nat : x < y => <<x, y>> \in R
  BY DEF OpToRel
<1> HIDE DEF R
<1>3. PICK T : T = {N - n : n \in S}
  OBVIOUS
<1>4. T \subseteq Nat /\ T # {}
  <2>1. \A n \in S : n \in Nat /\ N - n \in Nat
    OBVIOUS
  <2> QED
    BY <1>3, <2>1
<1>5. PICK k \in T : \A m \in T : k <= m
  BY <1>1, <1>2, <1>4, LeastOf
<1>6. PICK n \in S : k = N - n
  BY <1>3, <1>5
<1>7. \A m \in S : n >= m
  <2> SUFFICES ASSUME NEW m \in S PROVE n >= m
    OBVIOUS
  <2>1. k <= N - m
    BY <1>3, <1>5
  <2> QED
    BY <1>6, <2>1
<1>8. PICK x : x = Max(S)
  OBVIOUS
<1>9. x \in S /\ \A y \in S : x >= y
  BY <1>6, <1>7, <1>8, Zenon DEF Max
<1> QED
  BY <1>8, <1>9

-----------------------------------------------------------------------------
ShareRow == [st : {"none", "live", "deleted"}, ver : Nat, read : BOOLEAN, upload : BOOLEAN,
             lock : BOOLEAN, limit : Nat, past : BOOLEAN]
(* The rows of guests and their shapes.                                    *)
GuestRow == [st : PendingStatuses \cup {"none", "done", "expired"},
             kind : {"single", "partial", "final"}, group : GuestGroups \cup {"none"},
             folder : {"root", "sub"}, size : 0..ShareVideoSize, expected : 0..ShareVideoSize,
             ver : Nat, late : BOOLEAN, gone : BOOLEAN]
GuestJob == [st : {"none", "queued", "running", "recorded", "succeeded", "failed"},
             s : GuestSessions \cup {0}]

SharesShape ==
    /\ share \in ShareRow /\ (share.st = "none" => share.limit = 0)
    /\ request \in [Guests -> ShareRow]
    /\ gsession \in [GuestSessions -> GuestRow]
    /\ gjob \in [GuestGroups -> GuestJob]
    /\ shared.live \subseteq {"root", "sub"} /\ shared.below \in BOOLEAN
    /\ DOMAIN shared = {"live", "below"} /\ shared = [live |-> shared.live, below |-> shared.below]
    /\ IsFiniteSet(glinks) /\ ownerGrew \in BOOLEAN

(* A session whose row exists, and one that has run out of time or is      *)
(* deleted.                                                                *)
Known(s) == gsession[s].st # "none"
Dead(s) == Known(s) /\ (gsession[s].late \/ gsession[s].gone)

(* A session outside the parts of an upload expects its own size; a job    *)
(* imports a session of its group; and a link has the size of the session  *)
(* that was imported, and is exempt only if that session has ended.        *)
GuestOK(s) ==
    /\ gsession[s].kind # "partial" => gsession[s].expected = gsession[s].size
    /\ ~Known(s) => gsession[s].group = "none"
    /\ Known(s) => /\ gsession[s].group \in GuestGroups
                   /\ gsession[s].st \in PendingStatuses \/ gsession[s].gone
JobOK(g) == gjob[g].st # "none" =>
                /\ gjob[g].s \in GuestSessions /\ Known(gjob[g].s)
                /\ gsession[gjob[g].s].kind # "partial" /\ gsession[gjob[g].s].group = g
GuestLinkOK(l) ==
    /\ l.size \in Nat
    /\ l.group \in GuestGroups =>
          /\ gjob[l.group].st # "none"
          /\ l.size = gsession[gjob[l.group].s].size
          /\ l.folder = gsession[gjob[l.group].s].folder
          /\ l.lapsed => Dead(gjob[l.group].s)

GuestsInv ==
    /\ SharesShape
    /\ \A s \in GuestSessions : GuestOK(s)
    /\ \A g \in GuestGroups : JobOK(g)
    /\ \A l \in glinks : GuestLinkOK(l)
    /\ \A u \in Guests : ownerGrew \/ request[u].limit <= share.limit

(* What is due: the videos that may still be recorded under the limit.     *)
Due(g) == {s \in Pending(g) : gjob[g].st # "none" => s = gjob[g].s}
KeptIn == {k \in glinks : k.folder \in Subtree /\ ~k.lapsed}
KeptSizes == [l \in KeptIn |-> l.size]
Reserves(p) ==
    /\ \A g \in GuestGroups : \A s \in Due(g) : ExpectedOf(s) <= p[g]
    /\ Total(KeptSizes) + Total(p) <= share.limit
SharesInv == GuestsInv /\ (~ownerGrew => \E p \in [GuestGroups -> Nat] : Reserves(p))

-----------------------------------------------------------------------------
(* What a step may do to the row of a guest, and to the job of a group.    *)
Evolves(s, r) ==
    /\ r \in GuestRow
    /\ Known(s) => /\ r.st # "none" /\ r.kind = gsession[s].kind /\ r.group = gsession[s].group
                   /\ r.folder = gsession[s].folder /\ r.size = gsession[s].size
                   /\ r.expected = gsession[s].expected
                   /\ gsession[s].late => r.late
                   /\ gsession[s].gone => r.gone
                   /\ r.st \in PendingStatuses \/ r.gone
JobGoes(g, j) == j \in GuestJob /\ (gjob[g].st # "none" => j.st # "none" /\ j.s = gjob[g].s)

(* Rows and jobs that evolve so keep the invariant of the guests.          *)
LEMMA GuestsStep ==
    ASSUME GuestsInv, SharesShape',
           \A s \in GuestSessions : Evolves(s, gsession'[s]) /\ (Known(s) \/ GuestOK(s)'),
           \A g \in GuestGroups : JobGoes(g, gjob'[g]) /\ (gjob[g].st # "none" \/ JobOK(g)'),
           \A l \in glinks' : l \in glinks \/ GuestLinkOK(l)',
           \A u \in Guests : ownerGrew' \/ request'[u].limit <= share'.limit
    PROVE  GuestsInv'
<1>1. ASSUME NEW s \in GuestSessions PROVE GuestOK(s)'
  <2>1. CASE Known(s)
    BY <2>1 DEF GuestsInv, GuestOK, Evolves, Known
  <2> QED
    BY <2>1
<1>2. ASSUME NEW g \in GuestGroups PROVE JobOK(g)'
  <2>1. CASE gjob[g].st # "none"
    BY <2>1 DEF GuestsInv, JobOK, JobGoes, Evolves, Known
  <2> QED
    BY <2>1
<1>3. ASSUME NEW l \in glinks PROVE GuestLinkOK(l)'
  <2>1. GuestLinkOK(l)
    BY DEF GuestsInv
  <2>2. CASE l.group \in GuestGroups
    <3>1. PICK s : s = gjob[l.group].s
      OBVIOUS
    <3>2. s \in GuestSessions /\ Known(s) /\ gjob[l.group].st # "none"
      BY <2>1, <2>2, <3>1 DEF GuestsInv, JobOK, GuestLinkOK
    <3>3. gjob'[l.group].s = s /\ gjob'[l.group].st # "none"
      BY <2>2, <3>1, <3>2 DEF JobGoes
    <3>4. /\ gsession'[s].size = gsession[s].size /\ gsession'[s].folder = gsession[s].folder
          /\ Dead(s) => Dead(s)'
      BY <3>2 DEF Evolves, Known, Dead
    <3> QED
      BY <2>1, <2>2, <3>1, <3>3, <3>4 DEF GuestLinkOK
  <2> QED
    BY <2>1, <2>2 DEF GuestLinkOK
<1> QED
  BY <1>1, <1>2, <1>3 DEF GuestsInv

(* The kept links can be added up.                                         *)
LEMMA SumOfSizes ==
    ASSUME GuestsInv
    PROVE  Sizes(KeptSizes) /\ Total(KeptSizes) \in Nat
<1>1. IsFiniteSet(KeptIn) /\ \A l \in KeptIn : l.size \in Nat
  BY FS_Subset DEF GuestsInv, SharesShape, KeptIn, GuestLinkOK
<1>2. Sizes(KeptSizes)
  BY <1>1 DEF Sizes, KeptSizes
<1> QED
  BY <1>2, UnitsFinite

(* The promises can be added up.                                           *)
LEMMA SumOfPromises ==
    ASSUME NEW p \in [GuestGroups -> Nat]
    PROVE  Sizes(p) /\ Total(p) \in Nat
<1>1. Sizes(p)
  BY SharesAssumption DEF Sizes
<1> QED
  BY <1>1, UnitsFinite

(* Nothing new is due and no new link is kept. *)
LEMMA NothingNew ==
    ASSUME GuestsInv, GuestsInv', NEW p \in [GuestGroups -> Nat], Reserves(p),
           \A g \in GuestGroups : \A s \in Due(g)' : s \in Due(g) /\ ExpectedOf(s)' = ExpectedOf(s),
           KeptIn' \subseteq KeptIn, share.limit <= share'.limit
    PROVE  Reserves(p)'
<1>1. \A g \in GuestGroups : \A s \in Due(g)' : ExpectedOf(s)' <= p[g]
  BY DEF Reserves
<1>2. Total(KeptSizes)' <= Total(KeptSizes) /\ Total(KeptSizes)' \in Nat /\ Total(KeptSizes) \in Nat
  <2>1. PICK f : f = KeptSizes'
    OBVIOUS
  <2>2. IsFiniteSet(KeptIn') /\ \A l \in KeptIn : l.size \in Nat
    BY SumOfSizes, FS_Subset DEF Sizes, KeptSizes
  <2>3. Sizes(f) /\ Sizes(KeptSizes)
    BY <2>1, <2>2, SumOfSizes DEF Sizes, KeptSizes
  <2>4. Below(f, KeptSizes)
    BY <2>1, <2>2 DEF Below, KeptSizes
  <2> QED
    BY <2>1, <2>3, <2>4, TotalMonotonic
<1>3. share.limit \in Nat /\ share'.limit \in Nat /\ Total(p) \in Nat
  BY SumOfPromises DEF GuestsInv, SharesShape, ShareRow
<1> QED
  BY <1>1, <1>2, <1>3 DEF Reserves

(* A step by which nothing new is due keeps the promises.                  *)
LEMMA QuietShares ==
    ASSUME GuestsInv, GuestsInv', SharesInv, ownerGrew => ownerGrew',
           ~ownerGrew' => /\ \A g \in GuestGroups : \A s \in Due(g)' :
                                s \in Due(g) /\ ExpectedOf(s)' = ExpectedOf(s)
                          /\ KeptIn' \subseteq KeptIn /\ share.limit <= share'.limit
    PROVE  SharesInv'
<1>1. ASSUME ~ownerGrew' PROVE \E p \in [GuestGroups -> Nat] : Reserves(p)'
  <2>1. PICK p \in [GuestGroups -> Nat] : Reserves(p)
    BY <1>1 DEF SharesInv
  <2>2. Reserves(p)'
    BY <1>1, <2>1, NothingNew
  <2> QED
    BY <2>2
<1> QED
  BY <1>1 DEF SharesInv

(* While no folder joins the subtree, nothing new comes due by a step of   *)
(* the existing sessions.                                                  *)
LEMMA DueShrinks ==
    ASSUME GuestsInv, GuestsInv',
           \A s \in GuestSessions : Known(s)' => Known(s) /\ Evolves(s, gsession'[s]),
           \A g \in GuestGroups : JobGoes(g, gjob'[g]),
           Subtree' \subseteq Subtree,
           \A g \in GuestGroups : Linked(g) => Linked(g)'
    PROVE  \A g \in GuestGroups : \A s \in Due(g)' : s \in Due(g) /\ ExpectedOf(s)' = ExpectedOf(s)
<1> SUFFICES ASSUME NEW g \in GuestGroups, NEW s \in Due(g)'
             PROVE  s \in Due(g) /\ ExpectedOf(s)' = ExpectedOf(s)
  OBVIOUS
<1>1. /\ s \in GuestSessions /\ Open(s)' /\ gsession'[s].group = g /\ ~gsession'[s].late
      /\ gsession'[s].folder \in Subtree' /\ ~Linked(g)'
      /\ gjob'[g].st # "none" => s = gjob'[g].s
  BY DEF Due, Pending
<1>2. Known(s)'
  BY <1>1 DEF Open, Known, PendingStatuses
<1>3. Known(s) /\ Evolves(s, gsession'[s])
  BY <1>1, <1>2
<1>4. gsession[s] \in GuestRow /\ (gsession[s].st \in PendingStatuses \/ gsession[s].gone)
  BY <1>1, <1>3 DEF GuestsInv, SharesShape, GuestOK
<1>5. Open(s)
  BY <1>1, <1>3, <1>4 DEF Open, Evolves
<1>6. gsession[s].group = g /\ gsession[s].folder \in Subtree /\ ExpectedOf(s)' = ExpectedOf(s)
  BY <1>1, <1>3 DEF Evolves, ExpectedOf
<1>7. ~gsession[s].late
  BY <1>1, <1>3 DEF Evolves
<1>8. gjob[g].st # "none" => s = gjob[g].s
  BY <1>1 DEF JobGoes
<1> QED
  BY <1>1, <1>5, <1>6, <1>7, <1>8 DEF Due, Pending

(* A row that stays evolves.                                               *)
LEMMA SameGuests ==
    ASSUME GuestsInv
    PROVE  /\ \A s \in GuestSessions : Evolves(s, gsession[s])
           /\ \A g \in GuestGroups : JobGoes(g, gjob[g])
BY DEF GuestsInv, SharesShape, GuestOK, Evolves, JobGoes, Known

(* Steps of the owner and of requests that change no row of a guest.       *)
LEMMA RowsStay ==
    ASSUME GuestsInv, SharesShape', UNCHANGED <<gsession, gjob>>,
           \A l \in glinks' : l \in glinks \/ GuestLinkOK(l)',
           \A u \in Guests : ownerGrew' \/ request'[u].limit <= share'.limit
    PROVE  /\ GuestsInv'
           /\ Subtree' \subseteq Subtree /\ (\A g \in GuestGroups : Linked(g) => Linked(g)') =>
                 \A g \in GuestGroups : \A s \in Due(g)' : s \in Due(g) /\ ExpectedOf(s)' = ExpectedOf(s)
<1>1. /\ \A s \in GuestSessions : Evolves(s, gsession'[s]) /\ GuestOK(s)'
      /\ \A g \in GuestGroups : JobGoes(g, gjob'[g]) /\ JobOK(g)'
      /\ \A s \in GuestSessions : Known(s)' => Known(s)
  BY SameGuests DEF GuestsInv, GuestOK, JobOK, Known
<1>2. GuestsInv'
  BY <1>1, GuestsStep
<1> QED
  BY <1>1, <1>2, DueShrinks

(* The owner creates, updates and revokes the share, and the share         *)
(* expires: its limit only falls by the owner.                             *)
LEMMA ShareSteps ==
    ASSUME SharesInv,
           \/ \E read, upload \in BOOLEAN, lock \in ShareLocks, limit \in FolderSizes :
                 \/ CreateFolderShare(read, upload, lock, limit)
                 \/ UpdateFolderShare(read, upload, lock, limit)
           \/ DeleteFolderShare \/ ShareExpires
    PROVE  SharesInv'
<1>0. SharesShape /\ GuestsInv /\ share \in ShareRow
  BY DEF SharesInv, GuestsInv, SharesShape
<1>1. ASSUME NEW read \in BOOLEAN, NEW upload \in BOOLEAN, NEW lock \in ShareLocks,
             NEW limit \in FolderSizes, CreateFolderShare(read, upload, lock, limit)
      PROVE  /\ UNCHANGED <<shared, request, gsession, gjob, glinks, ownerGrew>>
             /\ share' \in ShareRow /\ share'.st # "none" /\ share.limit <= share'.limit
  <2>1. share.st = "none" /\ limit \in Nat /\ lock \in BOOLEAN
    BY <1>1, SharesAssumption DEF CreateFolderShare
  <2>2. share' = [st |-> "live", ver |-> 1, read |-> read, upload |-> upload, lock |-> lock,
                  limit |-> limit, past |-> FALSE]
    BY <1>1 DEF CreateFolderShare
  <2>3. share' \in ShareRow /\ share'.limit = limit /\ share'.st # "none"
    BY <2>1, <2>2 DEF ShareRow
  <2>4. share.limit = 0
    BY <1>0, <2>1 DEF SharesShape
  <2>5. UNCHANGED <<shared, request, gsession, gjob, glinks, ownerGrew>>
    BY <1>1 DEF CreateFolderShare
  <2> QED
    BY <2>1, <2>3, <2>4, <2>5
<1>2. ASSUME NEW read \in BOOLEAN, NEW upload \in BOOLEAN, NEW lock \in ShareLocks,
             NEW limit \in FolderSizes, UpdateFolderShare(read, upload, lock, limit)
      PROVE  /\ UNCHANGED <<shared, request, gsession, gjob, glinks>>
             /\ share' \in ShareRow /\ share'.st # "none"
             /\ ownerGrew' \in BOOLEAN /\ (ownerGrew => ownerGrew')
             /\ ownerGrew' \/ share.limit <= share'.limit
  <2>1. limit \in Nat /\ lock \in BOOLEAN /\ share.ver + 1 \in Nat
    BY <1>0, SharesAssumption DEF ShareRow
  <2>2. share' = [share EXCEPT !.ver = share.ver + 1, !.read = read, !.upload = upload,
                               !.lock = lock, !.limit = limit, !.past = FALSE]
    BY <1>2 DEF UpdateFolderShare
  <2>3. share' \in ShareRow /\ share'.limit = limit /\ share'.st = share.st
    BY <1>0, <2>1, <2>2 DEF ShareRow
  <2>4. /\ UNCHANGED <<shared, request, gsession, gjob, glinks>> /\ share.st = "live"
        /\ ownerGrew' = (ownerGrew \/ limit < share.limit)
    BY <1>2 DEF UpdateFolderShare
  <2>5. ~(limit < share.limit) => share.limit <= limit
    BY <1>0, <2>1 DEF ShareRow
  <2>6. ownerGrew' \in BOOLEAN /\ (ownerGrew => ownerGrew') /\ (ownerGrew' \/ ~(limit < share.limit))
    BY <2>4
  <2> QED
    BY <2>3, <2>4, <2>5, <2>6
<1>3. ASSUME DeleteFolderShare \/ ShareExpires
      PROVE  /\ UNCHANGED <<shared, request, gsession, gjob, glinks, ownerGrew>>
             /\ share' \in ShareRow /\ share'.st # "none" /\ share.limit <= share'.limit
  <2>1. /\ UNCHANGED <<shared, request, gsession, gjob, glinks, ownerGrew>> /\ share.st = "live"
        /\ share' = [share EXCEPT !.st = "deleted"] \/ share' = [share EXCEPT !.past = TRUE]
    BY <1>3 DEF DeleteFolderShare, ShareExpires
  <2>2. share' \in ShareRow /\ share'.st # "none" /\ share'.limit = share.limit /\ share.limit \in Nat
    BY <1>0, <2>1 DEF ShareRow
  <2> QED
    BY <2>1, <2>2
<1>4. /\ UNCHANGED <<shared, request, gsession, gjob, glinks>>
      /\ share' \in ShareRow /\ share'.st # "none"
      /\ ownerGrew' \in BOOLEAN /\ (ownerGrew => ownerGrew')
      /\ ownerGrew' \/ share.limit <= share'.limit
  BY <1>0, <1>1, <1>2, <1>3 DEF SharesShape
<1>5. SharesShape'
  BY <1>0, <1>4 DEF SharesShape
<1>6. \A u \in Guests : ownerGrew' \/ request'[u].limit <= share'.limit
  BY <1>0, <1>4 DEF GuestsInv, SharesShape, ShareRow
<1>7. /\ Subtree' = Subtree /\ KeptIn' = KeptIn /\ \A g \in GuestGroups : Linked(g)' = Linked(g)
  BY <1>4 DEF Subtree, KeptIn, Linked
<1> QED
  BY <1>0, <1>4, <1>5, <1>6, <1>7, RowsStay, QuietShares

(* A guest unlocks the share, its request reads it, and the request ends.  *)
LEMMA RequestSteps ==
    ASSUME SharesInv, NEW u \in Guests,
           UnlockFolderShare(u) \/ SharedUploadContext(u) \/ RequestEnds(u)
    PROVE  SharesInv'
<1>0. SharesShape /\ GuestsInv /\ share \in ShareRow /\ request \in [Guests -> ShareRow]
  BY DEF SharesInv, GuestsInv, SharesShape
<1>1. NoShare \in ShareRow /\ NoShare.limit = 0
  BY DEF NoShare, ShareRow
<1>2. /\ UNCHANGED <<share, shared, gsession, gjob, glinks, ownerGrew>>
      /\ \/ UNCHANGED request
         \/ request' = [request EXCEPT ![u] = share]
         \/ request' = [request EXCEPT ![u] = NoShare]
  BY DEF UnlockFolderShare, SharedUploadContext, RequestEnds, Answered
<1>3. SharesShape'
  BY <1>0, <1>1, <1>2 DEF SharesShape
<1>4. \A v \in Guests : ownerGrew' \/ request'[v].limit <= share'.limit
  <2>1. share.limit \in Nat
    BY <1>0 DEF ShareRow
  <2> QED
    BY <1>0, <1>1, <1>2, <2>1 DEF GuestsInv
<1>5. /\ Subtree' = Subtree /\ KeptIn' = KeptIn /\ \A g \in GuestGroups : Linked(g)' = Linked(g)
      /\ share.limit <= share'.limit
  BY <1>0, <1>2 DEF Subtree, KeptIn, Linked, ShareRow
<1> QED
  BY <1>0, <1>2, <1>3, <1>4, <1>5, RowsStay, QuietShares

(* The owner's own uploads and a folder moved in are not under the limit.  *)
LEMMA OwnerAdds ==
    ASSUME SharesInv,
           \/ MoveSubfolder
           \/ \E f \in {"root", "sub"}, size \in 1..ShareVideoSize : OwnerUploads(f, size)
    PROVE  SharesInv'
<1>0. SharesShape /\ GuestsInv /\ share.limit \in Nat
  BY DEF SharesInv, GuestsInv, SharesShape, ShareRow
<1>1. CASE MoveSubfolder
  <2>1. /\ shared' = [shared EXCEPT !.below = ~shared.below]
        /\ ownerGrew' = (ownerGrew \/ ~shared.below)
        /\ UNCHANGED <<share, request, gsession, gjob, glinks>>
    BY <1>1 DEF MoveSubfolder
  <2>2. /\ shared'.live = shared.live /\ shared'.below = ~shared.below
        /\ shared' = [live |-> shared'.live, below |-> shared'.below] /\ DOMAIN shared' = {"live", "below"}
    BY <1>0, <2>1 DEF SharesShape
  <2>3. SharesShape'
    BY <1>0, <2>1, <2>2 DEF SharesShape
  <2>4. ~ownerGrew' => Subtree' \subseteq Subtree
    BY <2>1, <2>2 DEF Subtree
  <2>5. (~ownerGrew' => KeptIn' \subseteq KeptIn) /\ \A g \in GuestGroups : Linked(g)' = Linked(g)
    BY <2>1, <2>4 DEF KeptIn, Linked
  <2>6. \A v \in Guests : ownerGrew' \/ request'[v].limit <= share'.limit
    BY <1>0, <2>1 DEF GuestsInv
  <2>7. GuestsInv'
    BY <1>0, <2>1, <2>3, <2>6, RowsStay
  <2>8. ~ownerGrew' => \A g \in GuestGroups : \A s \in Due(g)' :
                           s \in Due(g) /\ ExpectedOf(s)' = ExpectedOf(s)
    BY <1>0, <2>1, <2>3, <2>4, <2>5, <2>6, RowsStay
  <2>9. share.limit <= share'.limit /\ (ownerGrew => ownerGrew')
    <3>1. ownerGrew => ownerGrew'
      BY <2>1, Zenon
    <3> QED
      BY <1>0, <2>1, <3>1
  <2> QED
    BY <1>0, <2>5, <2>7, <2>8, <2>9, QuietShares
<1>2. ASSUME NEW f \in {"root", "sub"}, NEW size \in 1..ShareVideoSize, OwnerUploads(f, size)
      PROVE  SharesInv'
  <2>1. PICK l : /\ l = [group |-> "owner", folder |-> f, size |-> size, lapsed |-> FALSE, id |-> shareActs']
                 /\ glinks' = glinks \cup {l}
    BY <1>2 DEF OwnerUploads
  <2>2. /\ ownerGrew' = (ownerGrew \/ f \in Subtree)
        /\ UNCHANGED <<share, shared, request, gsession, gjob>>
    BY <1>2 DEF OwnerUploads
  <2>3. l.folder = f /\ GuestLinkOK(l)'
    BY <2>1, SharesAssumption DEF GuestLinkOK
  <2>4. SharesShape'
    BY <1>0, <2>1, <2>2, FS_AddElement DEF SharesShape
  <2>5. Subtree' = Subtree /\ (\A g \in GuestGroups : Linked(g) => Linked(g)')
    BY <2>1, <2>2 DEF Subtree, Linked
  <2>6. ~ownerGrew' => KeptIn' \subseteq KeptIn
    BY <2>1, <2>2, <2>3, <2>5 DEF KeptIn
  <2>7. \A v \in Guests : ownerGrew' \/ request'[v].limit <= share'.limit
    BY <1>0, <2>2 DEF GuestsInv
  <2>8. GuestsInv'
    BY <1>0, <2>1, <2>2, <2>3, <2>4, <2>7, RowsStay
  <2>9. \A g \in GuestGroups : \A s \in Due(g)' : s \in Due(g) /\ ExpectedOf(s)' = ExpectedOf(s)
    BY <1>0, <2>1, <2>2, <2>3, <2>4, <2>5, <2>7, RowsStay
  <2>10. share.limit <= share'.limit /\ (ownerGrew => ownerGrew')
    <3>1. ownerGrew => ownerGrew'
      BY <2>2, Zenon
    <3> QED
      BY <1>0, <2>2, <3>1
  <2> QED
    BY <1>0, <2>6, <2>8, <2>9, <2>10, QuietShares
<1> QED
  BY <1>1, <1>2

(* A folder that is deleted takes the videos in it, and its sessions have  *)
(* no place any more.                                                      *)
LEMMA DeleteFolderStep ==
    ASSUME SharesInv, NEW f \in {"root", "sub"}, DeleteSharedFolder(f)
    PROVE  SharesInv'
<1>0. SharesShape /\ GuestsInv /\ share.limit \in Nat
  BY DEF SharesInv, GuestsInv, SharesShape, ShareRow
<1>1. PICK tree : /\ shared' = [shared EXCEPT !.live = @ \ tree]
                  /\ glinks' = {l \in glinks : l.folder \notin tree}
                  /\ UNCHANGED <<share, request, gsession, gjob, ownerGrew>>
  BY Zenon DEF DeleteSharedFolder
<1>2. /\ shared'.live = shared.live \ tree /\ shared'.below = shared.below
      /\ shared' = [live |-> shared'.live, below |-> shared'.below] /\ DOMAIN shared' = {"live", "below"}
  BY <1>0, <1>1 DEF SharesShape
<1>3. IsFiniteSet(glinks') /\ glinks' \subseteq glinks
  BY <1>0, <1>1, FS_Subset DEF SharesShape
<1>4. SharesShape'
  BY <1>0, <1>1, <1>2, <1>3 DEF SharesShape
<1>5. \A v \in Guests : ownerGrew' \/ request'[v].limit <= share'.limit
  BY <1>0, <1>1 DEF GuestsInv
<1>6. GuestsInv'
  BY <1>0, <1>1, <1>3, <1>4, <1>5, RowsStay
<1>7. Subtree' \subseteq Subtree /\ Subtree' \cap tree = {} /\ KeptIn' \subseteq KeptIn
  BY <1>1, <1>2, <1>3 DEF Subtree, KeptIn
<1>8. ASSUME NEW g \in GuestGroups, NEW s \in Due(g)'
      PROVE  s \in Due(g) /\ ExpectedOf(s)' = ExpectedOf(s)
  <2>1. /\ s \in GuestSessions /\ Open(s) /\ gsession[s].group = g /\ ~gsession[s].late
        /\ gsession[s].folder \in Subtree' /\ ~Linked(g)'
        /\ (gjob[g].st # "none" => s = gjob[g].s) /\ ExpectedOf(s)' = ExpectedOf(s)
    BY <1>1 DEF Due, Pending, Open, ExpectedOf
  <2>2. ~Linked(g)
    <3> SUFFICES ASSUME NEW l \in glinks, l.group = g PROVE FALSE
      BY DEF Linked
    <3>1. l.folder = gsession[s].folder
      BY <1>0, <2>1 DEF GuestsInv, GuestLinkOK
    <3>2. l \in glinks'
      BY <1>1, <1>7, <2>1, <3>1
    <3> QED
      BY <2>1, <3>2 DEF Linked
  <2> QED
    BY <1>7, <2>1, <2>2 DEF Due, Pending
<1> QED
  BY <1>0, <1>1, <1>6, <1>7, <1>8, QuietShares

(* Rows of guests and jobs that go on: nothing new is due.                 *)
LEMMA GuestsGoOn ==
    ASSUME SharesInv, UNCHANGED <<share, shared, glinks, ownerGrew>>,
           request' \in [Guests -> ShareRow],
           \A u \in Guests : request'[u] = request[u] \/ request'[u].limit = 0,
           gsession' \in [GuestSessions -> GuestRow], gjob' \in [GuestGroups -> GuestJob],
           \A s \in GuestSessions : Evolves(s, gsession'[s]) /\ (Known(s)' => Known(s)),
           \A s \in GuestSessions : ~Known(s) => gsession'[s] = gsession[s],
           \A g \in GuestGroups : JobGoes(g, gjob'[g]) /\ (gjob[g].st # "none" \/ JobOK(g)')
    PROVE  SharesInv'
<1>0. SharesShape /\ GuestsInv /\ share.limit \in Nat
  BY DEF SharesInv, GuestsInv, SharesShape, ShareRow
<1>1. SharesShape'
  BY <1>0 DEF SharesShape
<1>2. \A s \in GuestSessions : ~Known(s) => GuestOK(s)'
  BY <1>0 DEF GuestsInv, GuestOK, Known
<1>3. \A u \in Guests : ownerGrew' \/ request'[u].limit <= share'.limit
  BY <1>0 DEF GuestsInv
<1>4. GuestsInv'
  BY <1>0, <1>1, <1>2, <1>3, GuestsStep
<1>5. /\ Subtree' = Subtree /\ KeptIn' = KeptIn /\ \A g \in GuestGroups : Linked(g)' = Linked(g)
  BY DEF Subtree, KeptIn, Linked
<1>6. \A g \in GuestGroups : \A s \in Due(g)' : s \in Due(g) /\ ExpectedOf(s)' = ExpectedOf(s)
  BY <1>0, <1>4, <1>5, DueShrinks
<1> QED
  BY <1>0, <1>4, <1>5, <1>6, QuietShares

(* A request that is answered holds no share any more.                     *)
LEMMA AnswerRow ==
    ASSUME GuestsInv, NEW u \in Guests, Answered(u)
    PROVE  /\ request' \in [Guests -> ShareRow]
           /\ \A v \in Guests : request'[v] = request[v] \/ request'[v].limit = 0
<1>1. NoShare \in ShareRow /\ NoShare.limit = 0
  BY DEF NoShare, ShareRow
<1> QED
  BY <1>1 DEF Answered, GuestsInv, SharesShape

(* One row changes.                                                        *)
LEMMA OneGuest ==
    ASSUME GuestsInv, NEW s \in GuestSessions, NEW r, Known(s), Evolves(s, r),
           gsession' = [gsession EXCEPT ![s] = r]
    PROVE  /\ gsession' \in [GuestSessions -> GuestRow]
           /\ \A t \in GuestSessions : Evolves(t, gsession'[t]) /\ (Known(t)' => Known(t))
           /\ \A t \in GuestSessions : ~Known(t) => gsession'[t] = gsession[t]
<1>1. gsession'[s] = r /\ \A t \in GuestSessions : t # s => gsession'[t] = gsession[t]
  BY DEF GuestsInv, SharesShape
<1>2. \A t \in GuestSessions : Evolves(t, gsession'[t])
  BY <1>1, SameGuests
<1>3. gsession' \in [GuestSessions -> GuestRow]
  BY DEF Evolves, GuestsInv, SharesShape
<1> QED
  BY <1>1, <1>2, <1>3 DEF Known

(* No row changes.                                                         *)
LEMMA NoGuest ==
    ASSUME GuestsInv, UNCHANGED gsession
    PROVE  /\ gsession' \in [GuestSessions -> GuestRow]
           /\ \A t \in GuestSessions : Evolves(t, gsession'[t]) /\ (Known(t)' => Known(t))
           /\ \A t \in GuestSessions : ~Known(t) => gsession'[t] = gsession[t]
BY SameGuests DEF GuestsInv, SharesShape, Known

(* One job is made or changes, or none does.                               *)
LEMMA OneJob ==
    ASSUME GuestsInv, NEW g \in GuestGroups,
           \/ UNCHANGED gjob
           \/ \E x \in {"queued", "running", "recorded", "succeeded", "failed"} :
                 gjob[g].st # "none" /\ gjob' = [gjob EXCEPT ![g].st = x]
           \/ \E s \in GuestSessions : /\ gjob[g].st = "none" /\ Known(s)'
                                        /\ gsession'[s].kind # "partial" /\ gsession'[s].group = g
                                        /\ gjob' = [gjob EXCEPT ![g] = [st |-> "queued", s |-> s]]
    PROVE  /\ gjob' \in [GuestGroups -> GuestJob]
           /\ \A h \in GuestGroups : JobGoes(h, gjob'[h])
           /\ \A h \in GuestGroups : gjob[h].st = "none" => gjob'[h] = gjob[h] \/ JobOK(h)'
<1>0. gjob \in [GuestGroups -> GuestJob] /\ \A h \in GuestGroups : JobGoes(h, gjob[h])
  BY SameGuests DEF GuestsInv, SharesShape
<1>1. CASE UNCHANGED gjob
  BY <1>0, <1>1
<1>2. ASSUME NEW x \in {"queued", "running", "recorded", "succeeded", "failed"},
             gjob[g].st # "none", gjob' = [gjob EXCEPT ![g].st = x]
      PROVE  /\ gjob' \in [GuestGroups -> GuestJob]
             /\ \A h \in GuestGroups : JobGoes(h, gjob'[h])
             /\ \A h \in GuestGroups : gjob[h].st = "none" => gjob'[h] = gjob[h]
  <2>1. PICK j : j = [gjob[g] EXCEPT !.st = x]
    OBVIOUS
  <2>2. j \in GuestJob /\ j.st # "none" /\ j.s = gjob[g].s
    BY <1>0, <1>2, <2>1 DEF GuestJob
  <2>3. gjob' = [gjob EXCEPT ![g] = j]
    BY <1>2, <2>1
  <2>4. gjob'[g] = j /\ \A h \in GuestGroups : h # g => gjob'[h] = gjob[h]
    BY <1>0, <2>3
  <2>5. JobGoes(g, j)
    BY <2>2 DEF JobGoes
  <2> QED
    BY <1>0, <1>2, <2>2, <2>3, <2>4, <2>5
<1>3. ASSUME NEW s \in GuestSessions, gjob[g].st = "none", Known(s)', gsession'[s].kind # "partial",
             gsession'[s].group = g,
             gjob' = [gjob EXCEPT ![g] = [st |-> "queued", s |-> s]]
      PROVE  /\ gjob' \in [GuestGroups -> GuestJob]
             /\ \A h \in GuestGroups : JobGoes(h, gjob'[h])
             /\ \A h \in GuestGroups : gjob[h].st = "none" => gjob'[h] = gjob[h] \/ JobOK(h)'
  <2>1. PICK j : j = [st |-> "queued", s |-> s]
    OBVIOUS
  <2>2. j \in GuestJob /\ j.s = s
    BY <2>1 DEF GuestJob
  <2>3. gjob'[g] = j /\ \A h \in GuestGroups : h # g => gjob'[h] = gjob[h]
    BY <1>0, <1>3, <2>1
  <2>4. JobOK(g)'
    BY <1>3, <2>2, <2>3 DEF JobOK
  <2>5. JobGoes(g, j)
    BY <1>3, <2>2 DEF JobGoes
  <2>6. gjob' \in [GuestGroups -> GuestJob]
    BY <1>0, <1>3, <2>1, <2>2
  <2> QED
    BY <1>0, <2>3, <2>4, <2>5, <2>6
<1> QED
  BY <1>1, <1>2, <1>3

(* The same with one job, and the rows that a lemma above has looked at.   *)
LEMMA GuestStepOfJob ==
    ASSUME SharesInv, UNCHANGED <<share, shared, glinks, ownerGrew>>,
           request' \in [Guests -> ShareRow],
           \A u \in Guests : request'[u] = request[u] \/ request'[u].limit = 0,
           gsession' \in [GuestSessions -> GuestRow],
           \A s \in GuestSessions : Evolves(s, gsession'[s]) /\ (Known(s)' => Known(s)),
           \A s \in GuestSessions : ~Known(s) => gsession'[s] = gsession[s],
           NEW g \in GuestGroups,
           \/ UNCHANGED gjob
           \/ \E x \in {"queued", "running", "recorded", "succeeded", "failed"} :
                 gjob[g].st # "none" /\ gjob' = [gjob EXCEPT ![g].st = x]
           \/ \E s \in GuestSessions : /\ gjob[g].st = "none" /\ Known(s)'
                                        /\ gsession'[s].kind # "partial" /\ gsession'[s].group = g
                                        /\ gjob' = [gjob EXCEPT ![g] = [st |-> "queued", s |-> s]]
    PROVE  SharesInv'
<1>1. GuestsInv
  BY DEF SharesInv
<1>2. /\ gjob' \in [GuestGroups -> GuestJob]
      /\ \A h \in GuestGroups : JobGoes(h, gjob'[h])
      /\ \A h \in GuestGroups : gjob[h].st = "none" => gjob'[h] = gjob[h] \/ JobOK(h)'
  BY <1>1, OneJob
<1>3. \A h \in GuestGroups : gjob[h].st = "none" => JobOK(h)'
  BY <1>2 DEF JobOK
<1> QED
  BY <1>2, <1>3, GuestsGoOn

(* The changes of a row in the steps below.                                *)
LEMMA RowChanges ==
    ASSUME GuestsInv, NEW s \in GuestSessions, Known(s)
    PROVE  /\ \A x \in PendingStatuses : Open(s) => Evolves(s, [gsession[s] EXCEPT !.st = x])
           /\ Evolves(s, [gsession[s] EXCEPT !.late = TRUE])
           /\ Evolves(s, [gsession[s] EXCEPT !.st = "expired", !.gone = TRUE])
           /\ Evolves(s, [gsession[s] EXCEPT !.st = "done", !.gone = TRUE])
<1>0. gsession[s] \in GuestRow /\ (gsession[s].st \in PendingStatuses \/ gsession[s].gone)
      /\ gsession[s].st # "none" /\ "none" \notin PendingStatuses
  BY DEF GuestsInv, SharesShape, GuestOK, Known, PendingStatuses
<1>1. ASSUME NEW x \in PendingStatuses, Open(s) PROVE Evolves(s, [gsession[s] EXCEPT !.st = x])
  BY <1>0, <1>1 DEF Evolves, GuestRow, Open
<1>2. Evolves(s, [gsession[s] EXCEPT !.late = TRUE])
  BY <1>0 DEF Evolves, GuestRow
<1>3. Evolves(s, [gsession[s] EXCEPT !.st = "expired", !.gone = TRUE])
  BY <1>0 DEF Evolves, GuestRow
<1>4. Evolves(s, [gsession[s] EXCEPT !.st = "done", !.gone = TRUE])
  BY <1>0 DEF Evolves, GuestRow
<1> QED
  BY <1>1, <1>2, <1>3, <1>4

LEMMA OpenKnown ==
    ASSUME NEW s \in GuestSessions
    PROVE  Open(s) => Known(s)
BY DEF Open, Known, PendingStatuses

(* The bytes of a session, its finalization, its retention and its expiry. *)
LEMMA SessionSteps ==
    ASSUME SharesInv, NEW s \in GuestSessions,
           \/ \E u \in Guests : UploadGuestBytes(u, s) \/ EnqueueSharedFinalize(u, s)
           \/ OwnerFinalizes(s) \/ GuestRetentionEnds(s) \/ ExpireGuestSession(s)
    PROVE  SharesInv'
<1>0. GuestsInv /\ SharesShape /\ request \in [Guests -> ShareRow]
  BY DEF SharesInv, GuestsInv, SharesShape
<1>1. UNCHANGED <<share, shared, glinks, ownerGrew>>
  BY Zenon DEF UploadGuestBytes, EnqueueSharedFinalize, OwnerFinalizes, GuestRetentionEnds, ExpireGuestSession
<1>2. /\ request' \in [Guests -> ShareRow]
      /\ \A v \in Guests : request'[v] = request[v] \/ request'[v].limit = 0
  <2>1. CASE UNCHANGED request
    BY <1>0, <2>1
  <2>2. ASSUME NEW u \in Guests, Answered(u)
        PROVE  /\ request' \in [Guests -> ShareRow]
               /\ \A v \in Guests : request'[v] = request[v] \/ request'[v].limit = 0
    BY <1>0, <2>2, AnswerRow
  <2> QED
    BY <2>1, <2>2, Zenon
       DEF UploadGuestBytes, EnqueueSharedFinalize, OwnerFinalizes, GuestRetentionEnds, ExpireGuestSession
<1>3. ASSUME NEW r, Known(s), Evolves(s, r), gsession' = [gsession EXCEPT ![s] = r], UNCHANGED gjob
      PROVE  SharesInv'
  <2>1. gsession[s].group \in GuestGroups
    BY <1>0, <1>3 DEF GuestsInv, GuestOK
  <2> QED
    BY <1>0, <1>1, <1>2, <1>3, <2>1, OneGuest, GuestStepOfJob
<1>4. CASE \E u \in Guests : UploadGuestBytes(u, s)
  <2>1. Open(s) /\ gsession' = [gsession EXCEPT ![s] = [gsession[s] EXCEPT !.st = "uploaded"]] /\ UNCHANGED gjob
    BY <1>4 DEF UploadGuestBytes, Open, PendingStatuses
  <2>2. "uploaded" \in PendingStatuses
    BY DEF PendingStatuses
  <2> QED
    BY <1>0, <1>3, <2>1, <2>2, RowChanges, OpenKnown, Zenon
<1>5. CASE GuestRetentionEnds(s)
  <2>1. Open(s) /\ gsession' = [gsession EXCEPT ![s] = [gsession[s] EXCEPT !.late = TRUE]] /\ UNCHANGED gjob
    BY <1>5 DEF GuestRetentionEnds
  <2> QED
    BY <1>0, <1>3, <2>1, RowChanges, OpenKnown, Zenon
<1>6. CASE ExpireGuestSession(s)
  <2>1. /\ Open(s) /\ UNCHANGED gjob
        /\ gsession' = [gsession EXCEPT ![s] = [gsession[s] EXCEPT !.st = "expired", !.gone = TRUE]]
    BY <1>6 DEF ExpireGuestSession
  <2> QED
    BY <1>0, <1>3, <2>1, RowChanges, OpenKnown, Zenon
<1>7. CASE (\E u \in Guests : EnqueueSharedFinalize(u, s)) \/ OwnerFinalizes(s)
  <2> DEFINE g == gsession[s].group
  <2>1. Finalizable(s) /\ Enqueued(s) /\ UNCHANGED gsession
    BY <1>7 DEF EnqueueSharedFinalize, OwnerFinalizes
  <2>2. Known(s) /\ gsession[s].kind # "partial" /\ g \in GuestGroups
    BY <1>0, <2>1 DEF Finalizable, Known, GuestsInv, GuestOK
  <2>3. Known(s)' /\ gsession'[s].kind # "partial" /\ gsession'[s].group = g
    BY <2>1, <2>2 DEF Known
  <2>4. UNCHANGED gjob \/ (gjob[g].st = "none" /\ gjob' = [gjob EXCEPT ![g] = [st |-> "queued", s |-> s]])
    BY <2>1 DEF Enqueued
  <2> HIDE DEF g
  <2> QED
    BY <1>0, <1>1, <1>2, <2>1, <2>2, <2>3, <2>4, NoGuest, GuestStepOfJob
<1> QED
  BY <1>4, <1>5, <1>6, <1>7

(* An import starts, completes, fails and is retried.                      *)
LEMMA GuestImportSteps ==
    ASSUME SharesInv, NEW g \in GuestGroups,
           \/ GuestImportStarts(g) \/ GuestImportCompletes(g) \/ GuestImportFails(g)
           \/ GuestImportRetried(g)
    PROVE  SharesInv'
<1> DEFINE s == gjob[g].s
<1>0. GuestsInv /\ SharesShape /\ request \in [Guests -> ShareRow]
  BY DEF SharesInv, GuestsInv, SharesShape
<1>1. UNCHANGED <<share, shared, glinks, ownerGrew, request>>
  BY Zenon DEF GuestImportStarts, GuestImportCompletes, GuestImportFails, GuestImportRetried
<1>2. gjob[g].st # "none" /\ s \in GuestSessions /\ Known(s)
  <2>1. gjob[g].st # "none"
    BY Zenon DEF GuestImportStarts, GuestImportCompletes, GuestImportFails, GuestImportRetried
  <2> QED
    BY <1>0, <2>1 DEF GuestsInv, JobOK
<1>3. \E x \in {"queued", "running", "recorded", "succeeded", "failed"} :
        gjob' = [gjob EXCEPT ![g].st = x]
  BY Zenon DEF GuestImportStarts, GuestImportCompletes, GuestImportFails, GuestImportRetried
<1>4. /\ gsession' \in [GuestSessions -> GuestRow]
      /\ \A t \in GuestSessions : Evolves(t, gsession'[t]) /\ (Known(t)' => Known(t))
      /\ \A t \in GuestSessions : ~Known(t) => gsession'[t] = gsession[t]
  <2>1. CASE UNCHANGED gsession
    BY <1>0, <2>1, NoGuest
  <2>2. CASE Open(s) /\ \E x \in PendingStatuses : gsession' = [gsession EXCEPT ![s].st = x]
    <3>1. PICK x \in PendingStatuses : gsession' = [gsession EXCEPT ![s].st = x]
      BY <2>2
    <3>2. PICK r : r = [gsession[s] EXCEPT !.st = x]
      OBVIOUS
    <3>3. Evolves(s, r)
      BY <1>0, <1>2, <2>2, <3>2, RowChanges, Zenon
    <3>4. gsession' = [gsession EXCEPT ![s] = r]
      BY <3>1, <3>2
    <3> HIDE DEF s
    <3> QED
      BY <1>0, <1>2, <3>3, <3>4, OneGuest
  <2>3. CASE GuestImportCompletes(g)
    <3>1. gsession' = [t \in GuestSessions |->
             IF gsession[t].group = g THEN [gsession[t] EXCEPT !.st = "done", !.gone = TRUE]
             ELSE gsession[t]]
      BY <2>3 DEF GuestImportCompletes
    <3>2. ASSUME NEW t \in GuestSessions, Known(t) \/ gsession[t].group # g
          PROVE  Evolves(t, gsession'[t])
      BY <1>0, <3>1, <3>2, SameGuests, RowChanges, Zenon
    <3>3. ASSUME NEW t \in GuestSessions, ~Known(t) PROVE gsession'[t] = gsession[t]
      <4>1. gsession[t].group # g
        BY <1>0, <3>3, SharesAssumption DEF GuestsInv, GuestOK
      <4> QED
        BY <3>1, <4>1
    <3>4. \A t \in GuestSessions : Evolves(t, gsession'[t])
      BY <1>0, <3>2, <3>3, SameGuests
    <3>5. \A t \in GuestSessions : Known(t)' => Known(t)
      BY <3>3 DEF Known
    <3>6. gsession' \in [GuestSessions -> GuestRow]
      BY <3>1, <3>4, Zenon DEF Evolves
    <3> QED
      BY <3>3, <3>4, <3>5, <3>6
  <2> QED
    BY <2>1, <2>2, <2>3 DEF GuestImportStarts, GuestImportFails, GuestImportRetried, PendingStatuses
<1> QED
  BY <1>0, <1>1, <1>2, <1>3, <1>4, GuestStepOfJob

(* One promise changes.                                                    *)
LEMMA PromiseChanges ==
    ASSUME NEW p \in [GuestGroups -> Nat], NEW q \in [GuestGroups -> Nat], NEW g \in GuestGroups,
           \A h \in GuestGroups : h # g => q[h] = p[h]
    PROVE  Total(q) + p[g] = Total(p) + q[g] /\ Total(q) \in Nat /\ Total(p) \in Nat
<1>1. PICK r : r = [h \in GuestGroups \ {g} |-> p[h]]
  OBVIOUS
<1>2. Total(r) \in Nat /\ Total(p) = p[g] + Total(r)
  BY <1>1, SumOfPromises, TotalWithout
<1>3. Total(q) = q[g] + Total(r)
  BY <1>1, SumOfPromises, TotalWithout
<1> QED
  BY <1>2, <1>3

(* One link is added or taken away.                                        *)
LEMMA KeptLinkChanges ==
    ASSUME NEW f, NEW k, Sizes(f), NEW l, l \notin DOMAIN k, DOMAIN f = DOMAIN k \cup {l},
           \A x \in DOMAIN k : f[x] = k[x]
    PROVE  Total(f) = f[l] + Total(k) /\ Total(k) \in Nat /\ f[l] \in Nat
<1>1. f[l] \in Nat
  BY DEF Sizes
<1> QED
  BY <1>1, TotalWithout

(* A link is deleted: what its job might record again takes its room.      *)
LEMMA DeleteLinkStep ==
    ASSUME SharesInv, NEW l \in glinks, DeleteLink(l)
    PROVE  SharesInv'
<1>0. SharesShape /\ GuestsInv /\ share.limit \in Nat
  BY DEF SharesInv, GuestsInv, SharesShape, ShareRow
<1>1. /\ glinks' = glinks \ {l}
      /\ UNCHANGED <<share, shared, request, gsession, gjob, ownerGrew>>
  BY DEF DeleteLink
<1>2. IsFiniteSet(glinks') /\ glinks' \subseteq glinks
  BY <1>0, <1>1, FS_Subset DEF SharesShape
<1>3. SharesShape'
  BY <1>0, <1>1, <1>2 DEF SharesShape
<1>4. GuestsInv'
  <2>1. \A v \in Guests : ownerGrew' \/ request'[v].limit <= share'.limit
    BY <1>0, <1>1 DEF GuestsInv
  <2> QED
    BY <1>0, <1>1, <1>2, <1>3, <2>1, RowsStay
<1>5. Subtree' = Subtree /\ KeptIn' = KeptIn \ {l}
  BY <1>1 DEF Subtree, KeptIn
<1>6. ASSUME NEW h \in GuestGroups, NEW s \in Due(h)'
      PROVE  /\ ExpectedOf(s)' = ExpectedOf(s) /\ s \in GuestSessions
             /\ l.group # h => s \in Due(h)
             /\ l.group = h => l \in KeptIn /\ ExpectedOf(s) = l.size
  <2>1. /\ s \in GuestSessions /\ Open(s) /\ gsession[s].group = h /\ ~gsession[s].late
        /\ gsession[s].folder \in Subtree /\ ~Linked(h)'
        /\ (gjob[h].st # "none" => s = gjob[h].s) /\ ExpectedOf(s)' = ExpectedOf(s)
    BY <1>1, <1>5 DEF Due, Pending, Open, ExpectedOf
  <2>2. CASE l.group # h
    <3>1. ~Linked(h)
      BY <1>1, <2>1, <2>2 DEF Linked
    <3> QED
      BY <2>1, <2>2, <3>1 DEF Due, Pending
  <2>3. CASE l.group = h
    <3>1. /\ gjob[h].st # "none" /\ l.size = gsession[gjob[h].s].size
          /\ l.folder = gsession[gjob[h].s].folder /\ (l.lapsed => Dead(gjob[h].s))
      BY <1>0, <2>3 DEF GuestsInv, GuestLinkOK
    <3>2. gjob[h].s = s
      BY <2>1, <3>1
    <3>3. l.size = gsession[s].size /\ l.folder = gsession[s].folder /\ (l.lapsed => Dead(s))
      BY <3>1, <3>2
    <3>4. gsession[s].expected = gsession[s].size
      BY <1>0, <2>1, <3>1, <3>2 DEF GuestsInv, GuestOK, JobOK
    <3>5. ~Dead(s)
      BY <2>1 DEF Dead, Open
    <3>6. l \in KeptIn
      BY <2>1, <3>3, <3>5 DEF KeptIn
    <3> QED
      BY <2>1, <2>3, <3>3, <3>4, <3>6 DEF ExpectedOf
  <2> QED
    BY <2>2, <2>3
<1>7. CASE l \notin KeptIn \/ l.group \notin GuestGroups
  <2>1. \A h \in GuestGroups : \A s \in Due(h)' : s \in Due(h) /\ ExpectedOf(s)' = ExpectedOf(s)
    BY <1>6, <1>7
  <2> QED
    BY <1>0, <1>1, <1>4, <1>5, <2>1, QuietShares
<1>8. CASE l \in KeptIn /\ l.group \in GuestGroups
  <2> SUFFICES ASSUME ~ownerGrew PROVE \E q \in [GuestGroups -> Nat] : Reserves(q)'
    BY <1>1, <1>4 DEF SharesInv
  <2>1. PICK p \in [GuestGroups -> Nat] : Reserves(p)
    BY DEF SharesInv
  <2>2. PICK g \in GuestGroups : g = l.group
    BY <1>8
  <2>3. l.size \in Nat
    BY <1>0 DEF GuestsInv, GuestLinkOK
  <2>4. PICK q : q = [p EXCEPT ![g] = p[g] + l.size]
    OBVIOUS
  <2>5. /\ q \in [GuestGroups -> Nat] /\ q[g] = p[g] + l.size /\ p[g] \in Nat
        /\ \A h \in GuestGroups : h # g => q[h] = p[h]
    BY <2>3, <2>4
  <2>6. Total(q) = Total(p) + l.size /\ Total(p) \in Nat /\ Total(q) \in Nat
    <3>1. Total(q) + p[g] = Total(p) + q[g] /\ Total(q) \in Nat /\ Total(p) \in Nat
      BY <2>5, PromiseChanges, Zenon
    <3> QED
      BY <2>3, <2>5, <3>1
  <2>7. Total(KeptSizes) = l.size + Total(KeptSizes)' /\ Total(KeptSizes)' \in Nat
    <3>1. PICK k : k = KeptSizes'
      OBVIOUS
    <3>2. /\ l \notin DOMAIN k /\ DOMAIN KeptSizes = DOMAIN k \cup {l} /\ KeptSizes[l] = l.size
          /\ \A x \in DOMAIN k : KeptSizes[x] = k[x]
      BY <1>5, <1>8, <3>1 DEF KeptSizes
    <3>3. Total(KeptSizes) = KeptSizes[l] + Total(k) /\ Total(k) \in Nat
      BY <1>0, <3>2, SumOfSizes, KeptLinkChanges
    <3> QED
      BY <3>1, <3>2, <3>3
  <2>8. Total(KeptSizes)' + Total(q) <= share'.limit
    BY <1>0, <1>1, <2>1, <2>3, <2>6, <2>7 DEF Reserves
  <2>9. ASSUME NEW h \in GuestGroups, NEW s \in Due(h)' PROVE ExpectedOf(s)' <= q[h]
    <3>1. CASE h = g
      <4>1. ExpectedOf(s)' = l.size
        BY <1>6, <2>2, <2>9, <3>1
      <4> QED
        BY <2>3, <2>5, <3>1, <4>1
    <3>2. CASE h # g
      BY <1>6, <2>1, <2>2, <2>5, <2>9, <3>2 DEF Reserves
    <3> QED
      BY <3>1, <3>2
  <2> QED
    BY <2>5, <2>8, <2>9 DEF Reserves
<1> QED
  BY <1>7, <1>8

(* What UploadCapacity reserves for a group covers each of its videos.     *)
LEMMA ReservedEnough ==
    ASSUME GuestsInv, NEW g \in GuestGroups
    PROVE  ReservedBy(g) \in Nat /\ \A s \in Pending(g) : ExpectedOf(s) <= ReservedBy(g)
<1>1. Pending(g) \subseteq GuestSessions
  BY DEF Pending
<1>2. \A s \in GuestSessions : ExpectedOf(s) \in 0..ShareVideoSize /\ QuotaOf(s) \in Nat
  BY SharesAssumption DEF GuestsInv, SharesShape, GuestRow, ExpectedOf, QuotaOf
<1>3. PICK S : S = {ExpectedOf(s) : s \in Pending(g)} \cup {0}
  OBVIOUS
<1>4. S \subseteq 0..ShareVideoSize /\ S # {} /\ ShareVideoSize \in Nat
  <2>1. \A s \in Pending(g) : ExpectedOf(s) \in 0..ShareVideoSize
    BY <1>1, <1>2
  <2>2. ShareVideoSize \in Nat /\ 0 \in 0..ShareVideoSize
    BY SharesAssumption
  <2> QED
    BY <1>3, <2>1, <2>2, Zenon
<1>5. Max(S) \in Nat /\ \A n \in S : n <= Max(S)
  BY <1>4, Greatest
<1>6. PICK f : f = [s \in Pending(g) |-> QuotaOf(s)]
  OBVIOUS
<1>7. Total(f) \in Nat
  <2>1. IsFiniteSet(Pending(g))
    BY <1>1, SharesAssumption, FS_Subset
  <2>2. Sizes(f)
    BY <1>1, <1>2, <1>6, <2>1 DEF Sizes
  <2> QED
    BY <2>2, UnitsFinite
<1>8. ReservedBy(g) = IF Max(S) > Total(f) THEN Max(S) ELSE Total(f)
  <2> DEFINE set == {ExpectedOf(s) : s \in Pending(g)} \cup {0}
             quotas == [s \in Pending(g) |-> QuotaOf(s)]
  <2>1. ReservedBy(g) = IF Max(set) > Total(quotas) THEN Max(set) ELSE Total(quotas)
    BY DEF ReservedBy
  <2>2. S = set /\ f = quotas
    BY <1>3, <1>6
  <2> HIDE DEF set, quotas
  <2> QED
    BY <2>1, <2>2
<1>9. ASSUME NEW s \in Pending(g) PROVE ExpectedOf(s) <= Max(S) /\ ExpectedOf(s) \in Nat
  BY <1>1, <1>2, <1>3, <1>4, <1>5
<1> QED
  BY <1>5, <1>7, <1>8, <1>9

(* A session created under the capacity: its group is promised the         *)
(* expected video, the others what they reserve.                           *)
LEMMA CreateStep ==
    ASSUME SharesInv, NEW u \in Guests, NEW s \in GuestSessions, NEW g \in GuestGroups,
           NEW kind \in {"single", "partial", "final"}, NEW f \in {"root", "sub"},
           NEW size \in 1..ShareVideoSize, NEW expected \in 1..ShareVideoSize,
           CreateGuestSession(u, s, g, kind, f, size, expected)
    PROVE  SharesInv'
<1>0. SharesShape /\ GuestsInv /\ share.limit \in Nat /\ request[u] \in ShareRow
  BY DEF SharesInv, GuestsInv, SharesShape, ShareRow
<1>1. PICK r : /\ r = [NoSession EXCEPT !.st = IF kind = "final" THEN "uploaded" ELSE "created",
                                        !.kind = kind, !.group = g, !.folder = f, !.size = size,
                                        !.expected = expected, !.ver = request[u].ver]
               /\ gsession' = [gsession EXCEPT ![s] = r]
  BY Zenon DEF CreateGuestSession
<1>2. /\ ~Known(s) /\ Answered(u) /\ ValidateSharedCreate(request[u], g, kind, size, expected)
      /\ UNCHANGED <<share, shared, pass, gjob, glinks, ownerGrew>>
  BY Zenon DEF CreateGuestSession, Known
<1>3. /\ r \in GuestRow /\ r.st \in PendingStatuses /\ r.st # "none" /\ r.kind = kind
      /\ r.group = g /\ r.size = size /\ r.expected = expected /\ r.folder = f
  <2>1. size \in 0..ShareVideoSize /\ expected \in 0..ShareVideoSize /\ request[u].ver \in Nat
    BY <1>0, SharesAssumption DEF ShareRow
  <2>2. {"uploaded", "created"} \subseteq PendingStatuses /\ "none" \notin PendingStatuses
    BY DEF PendingStatuses
  <2> QED
    BY <1>1, <2>1, <2>2 DEF NoSession, GuestRow
<1>4. kind # "partial" => expected = size
  BY <1>2 DEF ValidateSharedCreate
<1>5. gsession'[s] = r /\ \A t \in GuestSessions : t # s => gsession'[t] = gsession[t]
  BY <1>0, <1>1 DEF SharesShape
<1>6. /\ request' \in [Guests -> ShareRow]
      /\ \A v \in Guests : request'[v] = request[v] \/ request'[v].limit = 0
  BY <1>0, <1>2, AnswerRow
<1>7. SharesShape'
  BY <1>0, <1>1, <1>2, <1>3, <1>6 DEF SharesShape
<1>8. GuestsInv'
  <2>1. \A v \in Guests : ownerGrew' \/ request'[v].limit <= share'.limit
    BY <1>0, <1>2, <1>6 DEF GuestsInv
  <2>2. GuestOK(s)'
    BY <1>3, <1>4, <1>5 DEF GuestOK, Known
  <2>3. Evolves(s, r)
    BY <1>2, <1>3 DEF Evolves
  <2>4. \A t \in GuestSessions : Evolves(t, gsession'[t]) /\ (Known(t) \/ GuestOK(t)')
    <3> TAKE t \in GuestSessions
    <3>1. CASE t = s
      BY <1>5, <2>2, <2>3, <3>1
    <3>2. CASE t # s
      BY <1>0, <1>5, <3>2, SameGuests DEF GuestsInv, GuestOK, Known
    <3> QED
      BY <3>1, <3>2
  <2>5. \A h \in GuestGroups : JobGoes(h, gjob'[h]) /\ (gjob[h].st # "none" \/ JobOK(h)')
    BY <1>0, <1>2, SameGuests DEF JobOK
  <2> QED
    BY <1>0, <1>2, <1>7, <2>1, <2>4, <2>5, GuestsStep
<1>9. /\ Subtree' = Subtree /\ KeptSizes' = KeptSizes
      /\ \A h \in GuestGroups : Linked(h)' = Linked(h)
  BY <1>2 DEF Subtree, KeptSizes, KeptIn, Linked
<1> SUFFICES ASSUME ~ownerGrew PROVE \E q \in [GuestGroups -> Nat] : Reserves(q)'
  BY <1>2, <1>8 DEF SharesInv
<1>10. expected \in Nat /\ \A h \in GuestGroups : ReservedBy(h) \in Nat
  BY <1>0, ReservedEnough, SharesAssumption
<1>11. PICK q : q = [h \in GuestGroups |-> IF h = g THEN expected ELSE ReservedBy(h)]
  OBVIOUS
<1>12. q \in [GuestGroups -> Nat] /\ q[g] = expected
  BY <1>10, <1>11
<1>13. ASSUME NEW h \in GuestGroups, NEW t \in Due(h)' PROVE ExpectedOf(t)' <= q[h]
  <2>1. /\ t \in GuestSessions /\ Open(t)' /\ gsession'[t].group = h /\ ~gsession'[t].late
        /\ gsession'[t].folder \in Subtree /\ ~Linked(h)
    BY <1>9 DEF Due, Pending
  <2>2. CASE t = s
    <3>1. h = g /\ ExpectedOf(t)' = expected
      BY <1>3, <1>5, <2>1, <2>2 DEF ExpectedOf
    <3> QED
      BY <1>10, <1>12, <3>1
  <2>3. CASE t # s
    <3>1. gsession'[t] = gsession[t]
      BY <1>5, <2>1, <2>3
    <3>2. Open(t) /\ gsession[t].group = h /\ t \in Pending(h) /\ ExpectedOf(t)' = ExpectedOf(t)
      BY <2>1, <3>1 DEF Open, Pending, ExpectedOf
    <3>3. CASE h = g
      <4>1. gsession[t].expected = expected
        BY <1>2, <2>1, <3>2, <3>3 DEF ValidateSharedCreate
      <4> QED
        BY <1>10, <1>12, <3>2, <3>3, <4>1 DEF ExpectedOf
    <3>4. CASE h # g
      BY <1>0, <1>11, <3>2, <3>4, ReservedEnough
    <3> QED
      BY <3>3, <3>4
  <2> QED
    BY <2>2, <2>3
<1>14. Total(KeptSizes)' + Total(q) <= share'.limit
  <2>1. PICK o : o = [h \in GuestGroups \ {g} |-> ReservedBy(h)]
    OBVIOUS
  <2>2. Total(q) = expected + Total(o) /\ Total(o) \in Nat
    <3>1. Sizes(q)
      BY <1>12, SumOfPromises
    <3>2. DOMAIN q = GuestGroups /\ DOMAIN o = DOMAIN q \ {g} /\ \A h \in DOMAIN o : o[h] = q[h]
      BY <1>11, <2>1
    <3> QED
      BY <1>12, <3>1, <3>2, TotalWithout
  <2>3. UploadCapacity(g) + expected <= request[u].limit /\ UploadCapacity(g) = Used + Total(o)
    BY <1>2, <2>1 DEF ValidateSharedCreate, ValidateSharedCapacity, UploadCapacity
  <2>4. Total(KeptSizes) <= Used /\ Used \in Nat /\ Total(KeptSizes) \in Nat
    <3>1. PICK a : a = [l \in {k \in glinks : k.folder \in Subtree} |-> l.size]
      OBVIOUS
    <3>2. IsFiniteSet({k \in glinks : k.folder \in Subtree}) /\ \A l \in glinks : l.size \in Nat
      BY <1>0, FS_Subset DEF SharesShape, GuestsInv, GuestLinkOK
    <3>3. Sizes(a)
      BY <3>1, <3>2 DEF Sizes
    <3>4. Below(KeptSizes, a)
      BY <3>1, <3>2 DEF Below, KeptSizes, KeptIn
    <3> QED
      BY <1>0, <3>1, <3>3, <3>4, SumOfSizes, TotalMonotonic DEF Used
  <2>5. request[u].limit <= share.limit /\ request[u].limit \in Nat
    BY <1>0 DEF GuestsInv, ShareRow
  <2> QED
    BY <1>0, <1>2, <1>9, <1>10, <2>2, <2>3, <2>4, <2>5
<1> QED
  BY <1>12, <1>13, <1>14 DEF Reserves

(* The video is recorded in the room its group was promised.               *)
LEMMA RecordsStep ==
    ASSUME SharesInv, NEW g \in GuestGroups, GuestImportRecords(g)
    PROVE  SharesInv'
<1>0. SharesShape /\ GuestsInv /\ share.limit \in Nat
  BY DEF SharesInv, GuestsInv, SharesShape, ShareRow
<1>1. PICK s : s = gjob[g].s
  OBVIOUS
<1>2. /\ gjob[g].st = "running" /\ ~Linked(g) /\ gsession[s].folder \in shared.live
      /\ gjob' = [gjob EXCEPT ![g].st = "recorded"]
      /\ UNCHANGED <<share, shared, request, gsession, ownerGrew>>
  BY <1>1 DEF GuestImportRecords
<1>3. PICK l : /\ l = [group |-> g, folder |-> gsession[s].folder, size |-> gsession[s].size,
                       id |-> 0, lapsed |-> gsession[s].late \/ ~Open(s)]
               /\ glinks' = glinks \cup {l}
  BY <1>1 DEF GuestImportRecords
<1>4. /\ s \in GuestSessions /\ Known(s) /\ gsession[s].kind # "partial"
      /\ gsession[s].expected = gsession[s].size /\ gsession[s].size \in Nat
      /\ gsession[s].st \in PendingStatuses \/ gsession[s].gone
  BY <1>0, <1>1, <1>2, SharesAssumption DEF GuestsInv, JobOK, GuestOK, SharesShape, GuestRow
<1>5. /\ gjob' \in [GuestGroups -> GuestJob]
      /\ \A h \in GuestGroups : JobGoes(h, gjob'[h])
      /\ \A h \in GuestGroups : gjob[h].st = "none" => gjob'[h] = gjob[h] \/ JobOK(h)'
  BY <1>0, <1>2, OneJob
<1>6. gjob'[g].st = "recorded" /\ gjob'[g].s = s
  BY <1>0, <1>1, <1>2 DEF SharesShape, GuestJob
<1>7. SharesShape'
  BY <1>0, <1>2, <1>3, <1>5, FS_AddElement DEF SharesShape
<1>8. /\ l.group = g /\ l.folder = gsession[s].folder /\ l.size = gsession[s].size
      /\ l.lapsed = (gsession[s].late \/ ~Open(s))
  BY <1>3
<1>9. GuestsInv'
  <2>1. l.lapsed => Dead(s)'
    BY <1>2, <1>4, <1>8 DEF Dead, Known, Open
  <2>2. GuestLinkOK(l)'
    BY <1>2, <1>4, <1>6, <1>8, <2>1 DEF GuestLinkOK
  <2>3. \A t \in GuestSessions : Evolves(t, gsession'[t]) /\ (Known(t) \/ GuestOK(t)')
    BY <1>0, <1>2, SameGuests DEF GuestsInv, GuestOK, Known
  <2>4. \A h \in GuestGroups : gjob[h].st # "none" \/ JobOK(h)'
    BY <1>5 DEF JobOK
  <2>5. \A v \in Guests : ownerGrew' \/ request'[v].limit <= share'.limit
    BY <1>0, <1>2 DEF GuestsInv
  <2> QED
    BY <1>0, <1>3, <1>5, <1>7, <2>2, <2>3, <2>4, <2>5, GuestsStep
<1>10. Subtree' = Subtree /\ Linked(g)' /\ \A h \in GuestGroups : Linked(h) => Linked(h)'
  BY <1>2, <1>3, <1>8 DEF Subtree, Linked
<1>11. \A h \in GuestGroups : \A t \in Due(h)' : t \in Due(h) /\ ExpectedOf(t)' = ExpectedOf(t)
  <2>1. \A t \in GuestSessions : Known(t)' => Known(t) /\ Evolves(t, gsession'[t])
    BY <1>0, <1>2, SameGuests DEF Known
  <2> QED
    BY <1>0, <1>5, <1>9, <1>10, <2>1, DueShrinks
<1>12. l \notin glinks
  BY <1>2, <1>8 DEF Linked
<1>13. CASE l.lapsed \/ l.folder \notin Subtree
  <2>1. KeptIn' \subseteq KeptIn
    BY <1>3, <1>10, <1>13 DEF KeptIn
  <2> QED
    BY <1>0, <1>2, <1>9, <1>11, <2>1, QuietShares
<1>14. CASE ~l.lapsed /\ l.folder \in Subtree
  <2> SUFFICES ASSUME ~ownerGrew PROVE \E q \in [GuestGroups -> Nat] : Reserves(q)'
    BY <1>2, <1>9 DEF SharesInv
  <2>1. PICK p \in [GuestGroups -> Nat] : Reserves(p)
    BY DEF SharesInv
  <2>2. l.size <= p[g]
    <3>1. gsession[s].group = g
      BY <1>0, <1>1, <1>2 DEF GuestsInv, JobOK
    <3>2. s \in Due(g)
      BY <1>1, <1>2, <1>4, <1>8, <1>14, <3>1 DEF Due, Pending
    <3> QED
      BY <1>4, <1>8, <2>1, <3>2 DEF Reserves, ExpectedOf
  <2>3. PICK q : q = [p EXCEPT ![g] = 0]
    OBVIOUS
  <2>4. /\ q \in [GuestGroups -> Nat] /\ q[g] = 0 /\ p[g] \in Nat
        /\ \A h \in GuestGroups : h # g => q[h] = p[h]
    BY <2>3
  <2>5. Total(q) + p[g] = Total(p) /\ Total(p) \in Nat /\ Total(q) \in Nat
    BY <2>4, PromiseChanges
  <2>6. Total(KeptSizes)' = l.size + Total(KeptSizes) /\ Total(KeptSizes) \in Nat
    <3>1. PICK k : k = KeptSizes'
      OBVIOUS
    <3>2. /\ l \notin DOMAIN KeptSizes /\ DOMAIN k = DOMAIN KeptSizes \cup {l} /\ k[l] = l.size
          /\ \A x \in DOMAIN KeptSizes : k[x] = KeptSizes[x]
      BY <1>3, <1>10, <1>12, <1>14, <3>1 DEF KeptSizes, KeptIn
    <3>3. Sizes(k)
      <4>1. Sizes(KeptSizes)
        BY <1>0, SumOfSizes
      <4> QED
        BY <1>4, <1>8, <3>2, <4>1, FS_AddElement DEF Sizes
    <3>4. Total(k) = k[l] + Total(KeptSizes) /\ Total(KeptSizes) \in Nat
      BY <3>2, <3>3, KeptLinkChanges
    <3> QED
      BY <3>1, <3>2, <3>4
  <2>7. Total(KeptSizes)' + Total(q) <= share'.limit
    BY <1>0, <1>2, <1>4, <1>8, <2>1, <2>2, <2>4, <2>5, <2>6 DEF Reserves
  <2>8. ASSUME NEW h \in GuestGroups, NEW t \in Due(h)' PROVE ExpectedOf(t)' <= q[h]
    <3>1. h # g
      BY <1>10, <2>8 DEF Due, Pending
    <3> QED
      BY <1>11, <2>1, <2>4, <2>8, <3>1 DEF Reserves
  <2> QED
    BY <2>4, <2>7, <2>8 DEF Reserves
<1> QED
  BY <1>13, <1>14

(* A total of nothing.                                                     *)
LEMMA TotalZero ==
    ASSUME NEW f, \A x \in DOMAIN f : f[x] = 0
    PROVE  Total(f) = 0
<1>1. Units(f) = {}
  <2> SUFFICES ASSUME NEW w \in Units(f) PROVE FALSE
    OBVIOUS
  <2>1. PICK x \in DOMAIN f : \E i \in 1..f[x] : w = <<x, i>>
    BY UnitsArePairs
  <2> QED
    BY <2>1
<1> QED
  BY <1>1, FS_EmptySet DEF Total

(* No share, no session and no promise at first.                           *)
LEMMA SharesInvInit ==
    ASSUME SharesInit PROVE SharesInv
<1>1. share = NoShare /\ shared = [live |-> {"root", "sub"}, below |-> TRUE]
  BY DEF SharesInit
<1>2. /\ \A u \in Guests : request[u] = NoShare
      /\ \A s \in GuestSessions : gsession[s] = NoSession
      /\ \A g \in GuestGroups : gjob[g] = [st |-> "none", s |-> 0]
      /\ glinks = {} /\ ownerGrew = FALSE
  BY DEF SharesInit
<1>3. NoShare \in ShareRow /\ NoShare.limit = 0
  BY DEF NoShare, ShareRow
<1>4. NoSession \in GuestRow
  BY SharesAssumption DEF NoSession, GuestRow
<1>5. [st |-> "none", s |-> 0] \in GuestJob
  BY DEF GuestJob
<1>6. SharesShape
  <2>1. request \in [Guests -> ShareRow]
    BY <1>3 DEF SharesInit
  <2>2. gsession \in [GuestSessions -> GuestRow]
    BY <1>4 DEF SharesInit
  <2>3. gjob \in [GuestGroups -> GuestJob]
    BY <1>5 DEF SharesInit
  <2> QED
    BY <1>1, <1>2, <1>3, <2>1, <2>2, <2>3, FS_EmptySet DEF SharesShape
<1>7. GuestsInv
  <2>1. \A s \in GuestSessions : GuestOK(s)
    BY <1>2 DEF GuestOK, Known, NoSession
  <2>2. \A g \in GuestGroups : JobOK(g)
    BY <1>2 DEF JobOK
  <2>3. \A u \in Guests : ownerGrew \/ request[u].limit <= share.limit
    BY <1>1, <1>2, <1>3
  <2> QED
    BY <1>2, <1>6, <2>1, <2>2, <2>3 DEF GuestsInv
<1>8. PICK p : p = [g \in GuestGroups |-> 0]
  OBVIOUS
<1>9. p \in [GuestGroups -> Nat]
  BY <1>8
<1>10. Reserves(p)
  <2>1. ASSUME NEW g \in GuestGroups, NEW s \in Due(g) PROVE FALSE
    BY <1>2 DEF Due, Pending, Open, NoSession, PendingStatuses
  <2>2. Total(KeptSizes) = 0
    <3>1. \A l \in DOMAIN KeptSizes : KeptSizes[l] = 0
      BY <1>2 DEF KeptSizes, KeptIn
    <3> QED
      BY <1>7, <3>1, SumOfSizes, TotalZero
  <2>3. Total(p) = 0
    BY <1>8, <1>9, SumOfPromises, TotalZero
  <2> QED
    BY <1>1, <1>3, <2>1, <2>2, <2>3 DEF Reserves
<1> QED
  BY <1>7, <1>9, <1>10 DEF SharesInv

(* Every step of owner and guests keeps the promises.                      *)
LEMMA SharesInvNext ==
    ASSUME SharesInv, [SharesNext]_shareVars PROVE SharesInv'
<1>0. GuestsInv /\ SharesShape
  BY DEF SharesInv, GuestsInv
<1>1. CASE OwnerStep
  <2>1. CASE \E read, upload \in BOOLEAN, lock \in ShareLocks, limit \in FolderSizes :
                \/ CreateFolderShare(read, upload, lock, limit)
                \/ UpdateFolderShare(read, upload, lock, limit)
    BY <2>1, ShareSteps
  <2>2. CASE DeleteFolderShare \/ ShareExpires
    BY <2>2, ShareSteps
  <2>3. CASE MoveSubfolder \/ \E f \in {"root", "sub"}, size \in 1..ShareVideoSize : OwnerUploads(f, size)
    BY <2>3, OwnerAdds
  <2>4. CASE \E f \in {"root", "sub"} : DeleteSharedFolder(f)
    BY <2>4, DeleteFolderStep
  <2>5. CASE \E l \in glinks : DeleteLink(l)
    BY <2>5, DeleteLinkStep
  <2>6. CASE \E s \in GuestSessions : OwnerFinalizes(s)
    BY <2>6, SessionSteps
  <2> QED
    BY <1>1, <2>1, <2>2, <2>3, <2>4, <2>5, <2>6, Zenon DEF OwnerStep
<1>2. ASSUME NEW u \in Guests, GuestStep(u) PROVE SharesInv'
  <2>1. CASE UnlockFolderShare(u) \/ SharedUploadContext(u) \/ RequestEnds(u)
    BY <2>1, RequestSteps
  <2>2. ASSUME NEW s \in NextSession, NEW g \in GuestGroups, NEW kind \in {"single", "partial", "final"},
               NEW f \in {"root", "sub"}, NEW size \in 1..ShareVideoSize,
               NEW expected \in 1..ShareVideoSize,
               CreateGuestSession(u, s, g, kind, f, size, expected)
        PROVE  SharesInv'
    <3>1. s \in GuestSessions
      BY DEF NextSession
    <3> QED
      BY <2>2, <3>1, CreateStep
  <2>3. CASE \E s \in GuestSessions : UploadGuestBytes(u, s) \/ EnqueueSharedFinalize(u, s)
    BY <2>3, SessionSteps
  <2> QED
    BY <1>2, <2>1, <2>2, <2>3, Zenon DEF GuestStep
<1>3. CASE \E s \in GuestSessions : GuestRetentionEnds(s) \/ ExpireGuestSession(s)
  BY <1>3, SessionSteps
<1>4. CASE \E g \in GuestGroups : \/ GuestImportStarts(g) \/ GuestImportCompletes(g)
                                  \/ GuestImportFails(g) \/ GuestImportRetried(g)
  BY <1>4, GuestImportSteps
<1>5. CASE \E g \in GuestGroups : GuestImportRecords(g)
  BY <1>5, RecordsStep
<1>6. CASE UNCHANGED shareVars
  <2>1. UNCHANGED <<share, shared, request, gsession, gjob, glinks, ownerGrew>>
    BY <1>6 DEF shareVars
  <2>2. SharesShape'
    BY <1>0, <2>1 DEF SharesShape
  <2>3. \A u \in Guests : ownerGrew' \/ request'[u].limit <= share'.limit
    BY <1>0, <2>1 DEF GuestsInv
  <2>4. /\ Subtree' = Subtree /\ KeptIn' = KeptIn /\ \A g \in GuestGroups : Linked(g)' = Linked(g)
        /\ share.limit <= share'.limit
    BY <1>0, <2>1 DEF Subtree, KeptIn, Linked, SharesShape, ShareRow
  <2> QED
    BY <1>0, <2>1, <2>2, <2>3, <2>4, RowsStay, QuietShares
<1> QED
  BY <1>1, <1>2, <1>3, <1>4, <1>5, <1>6, Zenon DEF SharesNext

(* Guests never bring a shared folder over its limit: what a session was   *)
(* created for stays reserved for its group until its video is recorded,   *)
(* through failed and retried imports and deleted links, and a request     *)
(* that read an older share saw a limit no larger than today's unless the  *)
(* owner lowered it (ValidateSharedCapacity, UploadCapacity).              *)
THEOREM FolderLimitIsKept == SharesSpec => []FolderLimitKept
<1>1. SharesInv => FolderLimitKept
  <2> SUFFICES ASSUME SharesInv, ~ownerGrew PROVE Total(KeptSizes) <= share.limit
    <3>1. FolderLimitKept <=> (~ownerGrew => Total(KeptSizes) <= share.limit)
      BY DEF FolderLimitKept, KeptSizes, KeptIn
    <3> QED
      BY <3>1
  <2>1. PICK p \in [GuestGroups -> Nat] : Reserves(p)
    BY DEF SharesInv
  <2>2. Total(KeptSizes) \in Nat /\ Total(p) \in Nat /\ share.limit \in Nat
    BY SumOfSizes, SumOfPromises DEF SharesInv, GuestsInv, SharesShape, ShareRow
  <2> QED
    BY <2>1, <2>2 DEF Reserves
<1>2. SharesInit => SharesInv
  BY SharesInvInit
<1>3. SharesInv /\ [SharesNext]_shareVars => SharesInv'
  BY SharesInvNext
<1> QED
  BY <1>1, <1>2, <1>3, PTL DEF SharesSpec
=============================================================================
