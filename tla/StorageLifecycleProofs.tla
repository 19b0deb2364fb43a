------------------------ MODULE StorageLifecycleProofs ------------------------
(***************************************************************************)
(* Proofs about the keyed locks, for every set of keys, of callers and of  *)
(* plans: a writer excludes everybody else, the map holds exactly the      *)
(* entries in use, and callers that take their locks in one order never    *)
(* wait in a circle.                                                       *)
(***************************************************************************)
EXTENDS StorageLifecycle, FiniteSetTheorems, WellFoundedInduction, TLAPS

(* The positions of its plan at which a caller has an entry, and a lock. *)
HasIdx(p) == {i \in 1..at[p].pos : i = at[p].pos => at[p].pc # "retain"}
GotIdx(p) == {i \in 1..at[p].pos : i = at[p].pos => at[p].pc = "hold"}

(* What a caller refers to and holds is what its plan says up to where it    *)
(* is.                                                                       *)
Follows(p) ==
    /\ at[p].pc = "idle" => at[p].pos = 0
    /\ at[p].pc = "blocked" => plan[p][at[p].pos].mode = "read"
    /\ at[p].pc = "drain" => plan[p][at[p].pos].mode = "write"
    /\ \A i \in HasIdx(p) : entry[p][plan[p][i].key] # None
    /\ \A k \in Key : entry[p][k] # None => \E i \in HasIdx(p) : plan[p][i].key = k
    /\ \A i \in GotIdx(p) : granted[p][plan[p][i].key] = plan[p][i].mode
    /\ \A k \in Key : granted[p][k] # "no" => \E i \in GotIdx(p) : plan[p][i].key = k

PlanInv == TypeOK /\ \A p \in Proc : Follows(p)

(* The callers that refer to the entry of a key. *)
Refs(k) == {p \in Proc : entry[p][k] # None}

(* Everybody refers to the entry the map has, which counts them, and no      *)
(* entry serves two keys.                                                    *)
MapInv ==
    /\ \A p \in Proc, k \in Key : entry[p][k] # None => entry[p][k] = locks[k]
    /\ \A k, j \in Key : locks[k] # None /\ locks[k] = locks[j] => k = j
    /\ \A k \in Key : locks[k] # None => Refs(k) # {} /\ refs[locks[k]] = Cardinality(Refs(k))

OwnInv == PlanInv /\ MapInv

-----------------------------------------------------------------------------

LEMMA SeqElements ==
    ASSUME NEW S, NEW s \in Seq(S)
    PROVE  Len(s) \in Nat /\ \A i \in 1..Len(s) : s[i] \in S
  OBVIOUS

(* A caller that is not idle stands at a lock of its plan. *)
LEMMA PlanFacts ==
    ASSUME TypeOK, NEW p \in Proc, at[p].pc # "idle"
    PROVE  /\ plan[p] \in Plans /\ Len(plan[p]) \in Nat
           /\ at[p].pos \in 1..Len(plan[p])
           /\ \A i \in 1..Len(plan[p]) : plan[p][i] \in [mode : {"read", "write"}, key : Key]
           /\ \A i, j \in 1..Len(plan[p]) : plan[p][i].key = plan[p][j].key => i = j
           /\ K(p) \in Key /\ Lock(p).mode \in {"read", "write"}
           /\ K(p) = plan[p][at[p].pos].key /\ Lock(p) = plan[p][at[p].pos]
  <1>1. at[p].pos \in 1..Len(plan[p]) /\ plan[p] \in Plans \cup {<<>>}
    BY DEF TypeOK
  <1>2. plan[p] \in Plans
    BY <1>1
  <1>3. plan[p] \in Seq([mode : {"read", "write"}, key : Key])
    BY <1>2, PlansAssumption
  <1>4. \A i \in 1..Len(plan[p]) : plan[p][i] \in [mode : {"read", "write"}, key : Key]
    BY <1>3, SeqElements
  <1>5. Len(plan[p]) \in Nat
    BY <1>3, SeqElements
  <1>6. \A i, j \in 1..Len(plan[p]) : plan[p][i].key = plan[p][j].key => i = j
    BY <1>2, PlansAssumption
  <1> QED
    BY <1>1, <1>2, <1>4, <1>5, <1>6 DEF K, Lock

(* Where a caller that has just got its lock goes. *)
LEMMA AcquiredFacts ==
    ASSUME TypeOK, NEW p \in Proc, at[p].pc # "idle", Acquired(p)
    PROVE  /\ granted' = [granted EXCEPT ![p][K(p)] = Lock(p).mode]
           /\ \/ at[p].pos = Len(plan[p]) /\ at' = [at EXCEPT ![p] = [pos |-> at[p].pos, pc |-> "hold"]]
              \/ /\ at[p].pos + 1 \in 1..Len(plan[p])
                 /\ at' = [at EXCEPT ![p] = [pos |-> at[p].pos + 1, pc |-> "retain"]]
  <1>1. at[p].pos \in 1..Len(plan[p]) /\ Len(plan[p]) \in Nat
    BY PlanFacts
  <1>2. granted' = [granted EXCEPT ![p][K(p)] = Lock(p).mode]
    BY DEF Acquired
  <1>3. CASE at[p].pos = Len(plan[p])
    <2>1. at' = [at EXCEPT ![p] = [pos |-> at[p].pos, pc |-> "hold"]]
      BY <1>3 DEF Acquired
    <2> QED
      BY <1>2, <1>3, <2>1
  <1>4. CASE at[p].pos # Len(plan[p])
    <2>1. at' = [at EXCEPT ![p] = [pos |-> at[p].pos + 1, pc |-> "retain"]]
      BY <1>4 DEF Acquired
    <2>2. at[p].pos + 1 \in 1..Len(plan[p])
      BY <1>1, <1>4
    <2> QED
      BY <1>2, <2>1, <2>2
  <1> QED
    BY <1>3, <1>4

LEMMA TypeInit == Init => TypeOK
  BY DEF Init, TypeOK, Unlocked, Modes, Steps

(* The entry of the lock a caller stands at. *)
LEMMA EntryFacts ==
    ASSUME PlanInv, NEW p \in Proc, at[p].pc \notin {"idle", "retain"}
    PROVE  E(p) \in Entry /\ E(p) # None
  <1>1. at[p].pos \in HasIdx(p) /\ K(p) \in Key /\ K(p) = plan[p][at[p].pos].key
    BY PlanFacts DEF PlanInv, HasIdx
  <1>2. entry[p][K(p)] # None
    BY <1>1 DEF PlanInv, Follows
  <1> QED
    BY <1>1, <1>2 DEF E, PlanInv, TypeOK

RW == [readers : SUBSET Proc, writer : Proc \cup {None}, writing : BOOLEAN, blocked : SUBSET Proc]

(* Nobody refers to an entry whose count is zero. *)
LEMMA RefsFacts ==
    ASSUME OwnInv, NEW k \in Key, locks[k] # None
    PROVE  /\ IsFiniteSet(Refs(k)) /\ locks[k] \in Entry
           /\ refs[locks[k]] = Cardinality(Refs(k)) /\ refs[locks[k]] \in Nat /\ refs[locks[k]] >= 1
  <1>1. IsFiniteSet(Refs(k)) /\ Cardinality(Refs(k)) \in Nat
    BY FS_Subset, FS_CardinalityType, ProcAssumption DEF Refs
  <1>2. Refs(k) # {} /\ refs[locks[k]] = Cardinality(Refs(k))
    BY DEF OwnInv, MapInv
  <1>3. Cardinality(Refs(k)) # 0
    BY <1>1, <1>2, FS_EmptySet
  <1>4. locks[k] \in Entry
    BY DEF OwnInv, PlanInv, TypeOK
  <1> QED
    BY <1>1, <1>2, <1>3, <1>4

(* How releaseLock moves its caller. *)
LEMMA StepBackFacts ==
    ASSUME TypeOK, NEW p \in Proc, at[p].pc # "idle", StepBack(p)
    PROVE  \/ /\ at[p].pos = 1 /\ at' = [at EXCEPT ![p] = [pos |-> 0, pc |-> "idle"]]
              /\ plan' = [plan EXCEPT ![p] = <<>>]
           \/ /\ at[p].pos - 1 \in 1..Len(plan[p]) /\ plan' = plan
              /\ at' = [at EXCEPT ![p] = [pos |-> at[p].pos - 1, pc |-> "hold"]]
  <1>1. at[p].pos \in 1..Len(plan[p]) /\ Len(plan[p]) \in Nat
    BY PlanFacts
  <1>2. CASE at[p].pos = 1
    BY <1>2 DEF StepBack
  <1>3. CASE at[p].pos # 1
    <2>1. at' = [at EXCEPT ![p] = [pos |-> at[p].pos - 1, pc |-> "hold"]] /\ plan' = plan
      BY <1>3 DEF StepBack
    <2>2. at[p].pos - 1 \in 1..Len(plan[p])
      BY <1>1, <1>3
    <2> QED
      BY <2>1, <2>2
  <1> QED
    BY <1>2, <1>3

LEMMA TypeStep == OwnInv /\ [Next]_vars => TypeOK'
  <1> SUFFICES ASSUME OwnInv, [Next]_vars PROVE TypeOK'
    OBVIOUS
  <1>p. PlanInv
    BY DEF OwnInv
  <1>t. TypeOK
    BY <1>p DEF PlanInv
  <1>r. rw \in [Entry -> RW]
    BY <1>t DEF TypeOK, RW
  <1>1. ASSUME NEW p \in Proc, Begin(p) PROVE TypeOK'
    <2>1. PICK s \in Plans : plan' = [plan EXCEPT ![p] = s]
      BY <1>1 DEF Begin
    <2>2. Len(s) \in Nat /\ Len(s) > 0
      BY PlansAssumption
    <2>3. at' = [at EXCEPT ![p] = [pos |-> 1, pc |-> "retain"]]
      BY <1>1 DEF Begin
    <2>4. \A q \in Proc : at'[q].pc # "idle" => at'[q].pos \in 1..Len(plan'[q])
      BY <1>t, <2>1, <2>2, <2>3 DEF TypeOK
    <2> QED
      BY <1>1, <1>t, <2>1, <2>3, <2>4 DEF Begin, TypeOK, Steps
  <1>2. ASSUME NEW p \in Proc, GiveUp(p) PROVE TypeOK'
    <2>1. at' = [at EXCEPT ![p] = [pos |-> at[p].pos - 1, pc |-> "hold"]] /\ at[p].pos - 1 \in 1..Len(plan[p])
      BY <1>2, <1>t, PlanFacts, SMTT(30) DEF GiveUp, TypeOK
    <2>2. \A q \in Proc : at'[q].pc # "idle" => at'[q].pos \in 1..Len(plan[q])
      BY <1>t, <2>1 DEF TypeOK
    <2> QED
      BY <1>2, <1>t, <2>1, <2>2 DEF GiveUp, TypeOK, Steps
  <1>3. ASSUME NEW p \in Proc, RetainLock(p) PROVE TypeOK'
    <2>1. K(p) \in Key /\ at[p].pos \in 1..Len(plan[p])
      BY <1>3, <1>t, PlanFacts DEF RetainLock
    <2>2. at' = [at EXCEPT ![p].pc = "lock"] /\ UNCHANGED <<granted, plan>>
      BY <1>3 DEF RetainLock
    <2>3. at' \in [Proc -> [pos : Nat, pc : Steps]]
      BY <1>t, <2>2 DEF TypeOK, Steps
    <2>4. \A q \in Proc : at'[q].pc # "idle" => at'[q].pos \in 1..Len(plan'[q])
      BY <1>t, <2>1, <2>2 DEF TypeOK
    <2>5. CASE locks[K(p)] = None
      <3>1. PICK e \in Entry : /\ locks' = [locks EXCEPT ![K(p)] = e]
                               /\ refs' = [refs EXCEPT ![e] = 1]
                               /\ rw' = [rw EXCEPT ![e] = Unlocked]
                               /\ entry' = [entry EXCEPT ![p][K(p)] = e]
        <4>1. Unused # {} /\ (CHOOSE e \in Unused : TRUE) \in Entry
          BY <1>3, <2>5 DEF RetainLock, Unused
        <4> QED
          BY <1>3, <2>5, <4>1 DEF RetainLock
      <3>2. Unlocked \in RW
        BY DEF Unlocked, RW
      <3>3. rw' \in [Entry -> RW]
        BY <1>r, <3>1, <3>2
      <3> QED
        BY <1>t, <2>1, <2>2, <2>3, <2>4, <3>1, <3>3 DEF TypeOK, RW
    <2>6. CASE locks[K(p)] # None
      <3>1. /\ refs' = [refs EXCEPT ![locks[K(p)]] = @ + 1]
            /\ entry' = [entry EXCEPT ![p][K(p)] = locks[K(p)]]
            /\ UNCHANGED <<locks, rw>>
        BY <1>3, <2>6 DEF RetainLock
      <3>2. locks[K(p)] \in Entry
        BY <1>t, <2>1, <2>6 DEF TypeOK
      <3> QED
        BY <1>t, <2>1, <2>2, <2>3, <2>4, <3>1, <3>2 DEF TypeOK
    <2> QED
      BY <2>5, <2>6
  <1>a. ASSUME NEW p \in Proc, at[p].pc # "idle", Acquired(p), plan' = plan
        PROVE  /\ granted' \in [Proc -> [Key -> Modes]]
               /\ at' \in [Proc -> [pos : Nat, pc : Steps]]
               /\ \A q \in Proc : at'[q].pc # "idle" => at'[q].pos \in 1..Len(plan'[q])
    <2>1. K(p) \in Key /\ Lock(p).mode \in Modes /\ at[p].pos \in 1..Len(plan[p]) /\ Len(plan[p]) \in Nat
      BY <1>a, <1>t, PlanFacts DEF Modes
    <2>2. granted' \in [Proc -> [Key -> Modes]]
      <3>1. granted' = [granted EXCEPT ![p][K(p)] = Lock(p).mode]
        BY <1>a DEF Acquired
      <3> QED
        BY <1>t, <2>1, <3>1 DEF TypeOK
    <2>3. PICK n \in 1..Len(plan[p]), c \in {"hold", "retain"} : at' = [at EXCEPT ![p] = [pos |-> n, pc |-> c]]
      BY <1>a, <1>t, <2>1, AcquiredFacts
    <2>4. at' \in [Proc -> [pos : Nat, pc : Steps]]
      BY <1>t, <2>1, <2>3 DEF TypeOK, Steps
    <2> QED
      BY <1>a, <1>t, <2>2, <2>3, <2>4 DEF TypeOK
  <1>b. ASSUME NEW p \in Proc, at[p].pc # "idle", NEW c \in Steps, at' = [at EXCEPT ![p].pc = c], plan' = plan
        PROVE  /\ at' \in [Proc -> [pos : Nat, pc : Steps]]
               /\ \A q \in Proc : at'[q].pc # "idle" => at'[q].pos \in 1..Len(plan'[q])
    BY <1>b, <1>t DEF TypeOK
  <1>4. ASSUME NEW p \in Proc, RLock(p) PROVE TypeOK'
    <2>1. E(p) \in Entry /\ at[p].pc # "idle" /\ plan' = plan
      BY <1>4, EntryFacts, <1>p DEF RLock
    <2>2. rw' \in [Entry -> RW]
      BY <1>4, <1>r, <2>1 DEF RLock, RW
    <2>3. CASE rw[E(p)].writer = None
      <3>1. Acquired(p)
        BY <1>4, <2>3 DEF RLock
      <3> QED
        BY <1>4, <1>t, <1>a, <2>1, <2>2, <3>1 DEF RLock, TypeOK, RW
    <2>4. CASE rw[E(p)].writer # None
      <3>1. at' = [at EXCEPT ![p].pc = "blocked"] /\ granted' = granted /\ "blocked" \in Steps
        BY <1>4, <2>4 DEF RLock, Steps
      <3> QED
        BY <1>4, <1>t, <1>b, <2>1, <2>2, <3>1 DEF RLock, TypeOK, RW
    <2> QED
      BY <2>3, <2>4
  <1>5. ASSUME NEW p \in Proc, RLockWakes(p) PROVE TypeOK'
    BY <1>5, <1>t, <1>a DEF RLockWakes, TypeOK
  <1>6. ASSUME NEW p \in Proc, WLock(p) PROVE TypeOK'
    <2>1. E(p) \in Entry /\ "drain" \in Steps
      BY <1>6, EntryFacts, <1>p DEF WLock, Steps
    <2>2. rw' \in [Entry -> RW]
      BY <1>6, <1>r, <2>1 DEF WLock, RW
    <2> QED
      BY <1>6, <1>t, <1>b, <2>1, <2>2 DEF WLock, TypeOK, RW
  <1>7. ASSUME NEW p \in Proc, WLockDrained(p) PROVE TypeOK'
    <2>1. E(p) \in Entry
      BY <1>7, EntryFacts, <1>p DEF WLockDrained
    <2>2. rw' \in [Entry -> RW]
      BY <1>7, <1>r, <2>1, ZenonT(60) DEF WLockDrained, RW
    <2> QED
      BY <1>7, <1>t, <1>a, <2>1, <2>2 DEF WLockDrained, TypeOK, RW
  <1>8. ASSUME NEW p \in Proc, RUnlock(p) \/ WUnlock(p) PROVE TypeOK'
    <2>1. E(p) \in Entry /\ K(p) \in Key /\ "unlocked" \in Steps /\ at[p].pc # "idle"
      BY <1>8, <1>t, EntryFacts, PlanFacts, <1>p DEF RUnlock, WUnlock, Steps
    <2>2. rw' \in [Entry -> RW]
      <3>1. CASE RUnlock(p)
        BY <1>r, <2>1, <3>1 DEF RUnlock, RW
      <3>2. CASE WUnlock(p)
        <4>1. [Unlocked EXCEPT !.readers = rw[E(p)].blocked] \in RW
          BY <1>r, <2>1 DEF Unlocked, RW
        <4> QED
          BY <1>r, <2>1, <3>2, <4>1 DEF WUnlock
      <3> QED
        BY <1>8, <3>1, <3>2
    <2>3. /\ granted' = [granted EXCEPT ![p][K(p)] = "no"] /\ at' = [at EXCEPT ![p].pc = "unlocked"]
          /\ UNCHANGED <<locks, refs, entry, plan>>
      BY <1>8 DEF RUnlock, WUnlock
    <2>4. granted' \in [Proc -> [Key -> Modes]]
      BY <1>t, <2>1, <2>3 DEF TypeOK, Modes
    <2> QED
      BY <1>t, <1>b, <2>1, <2>2, <2>3, <2>4 DEF TypeOK, RW
  <1>9. ASSUME NEW p \in Proc, ReleaseLock(p) PROVE TypeOK'
    <2>1. E(p) \in Entry /\ K(p) \in Key /\ at[p].pc # "idle" /\ E(p) # None
      BY <1>9, <1>t, <1>p, EntryFacts, PlanFacts DEF ReleaseLock
    <2>2. E(p) = locks[K(p)]
      BY <2>1 DEF OwnInv, MapInv, E
    <2>3. refs[E(p)] - 1 \in Nat
      BY <2>1, <2>2, RefsFacts
    <2>4. /\ refs' = [refs EXCEPT ![E(p)] = refs[E(p)] - 1]
          /\ entry' = [entry EXCEPT ![p][K(p)] = None]
          /\ locks' = locks \/ locks' = [locks EXCEPT ![K(p)] = None]
          /\ StepBack(p) /\ UNCHANGED <<rw, granted>>
      BY <1>9 DEF ReleaseLock
    <2>5. refs' \in [Entry -> Nat]
      BY <1>t, <2>3, <2>4 DEF TypeOK
    <2>6. entry' \in [Proc -> [Key -> Entry \cup {None}]] /\ locks' \in [Key -> Entry \cup {None}]
      BY <1>t, <2>1, <2>4 DEF TypeOK
    <2>7. /\ at' \in [Proc -> [pos : Nat, pc : Steps]]
          /\ plan' \in [Proc -> Plans \cup {<<>>}]
          /\ \A q \in Proc : at'[q].pc # "idle" => at'[q].pos \in 1..Len(plan'[q])
      <3>1. CASE /\ at' = [at EXCEPT ![p] = [pos |-> 0, pc |-> "idle"]]
                 /\ plan' = [plan EXCEPT ![p] = <<>>]
        BY <1>t, <3>1 DEF TypeOK, Steps
      <3>2. CASE /\ at[p].pos - 1 \in 1..Len(plan[p]) /\ plan' = plan
                 /\ at' = [at EXCEPT ![p] = [pos |-> at[p].pos - 1, pc |-> "hold"]]
        BY <1>t, <3>2 DEF TypeOK, Steps
      <3> QED
        BY <1>t, <2>1, <2>4, <3>1, <3>2, StepBackFacts
    <2> QED
      BY <1>t, <2>4, <2>5, <2>6, <2>7 DEF TypeOK
  <1>10. CASE UNCHANGED vars
    BY <1>10, <1>t DEF vars, TypeOK
  <1> QED
    BY <1>1, <1>2, <1>3, <1>4, <1>5, <1>6, <1>7, <1>8, <1>9, <1>10 DEF Next, Step

-----------------------------------------------------------------------------
(* Callers follow their plans.                                             *)

LEMMA FollowsSame ==
    ASSUME NEW q \in Proc, Follows(q), at'[q] = at[q], plan'[q] = plan[q],
           entry'[q] = entry[q], granted'[q] = granted[q]
    PROVE  Follows(q)'
  BY DEF Follows, HasIdx, GotIdx

LEMMA FollowsStep == OwnInv /\ [Next]_vars => \A q \in Proc : Follows(q)'
  <1> SUFFICES ASSUME OwnInv, [Next]_vars PROVE \A q \in Proc : Follows(q)'
    OBVIOUS
  <1>t. PlanInv /\ TypeOK /\ \A q \in Proc : Follows(q)
    BY DEF OwnInv, PlanInv
  <1>k. /\ at \in [Proc -> [pos : Nat, pc : Steps]] /\ plan \in [Proc -> Plans \cup {<<>>}]
        /\ entry \in [Proc -> [Key -> Entry \cup {None}]] /\ granted \in [Proc -> [Key -> Modes]]
    BY <1>t DEF TypeOK
  <1>1. ASSUME NEW p \in Proc, Begin(p) PROVE \A q \in Proc : Follows(q)'
    <2>1. PICK s \in Plans : plan' = [plan EXCEPT ![p] = s]
      BY <1>1 DEF Begin
    <2>2. /\ at[p].pc = "idle" /\ at' = [at EXCEPT ![p] = [pos |-> 1, pc |-> "retain"]]
          /\ UNCHANGED <<entry, granted>>
      BY <1>1 DEF Begin
    <2>3. HasIdx(p) = {} /\ GotIdx(p) = {}
      BY <1>t, <2>2 DEF Follows, HasIdx, GotIdx
    <2>4. HasIdx(p)' = {} /\ GotIdx(p)' = {}
      BY <1>k, <2>2 DEF HasIdx, GotIdx
    <2>5. Follows(p)'
      BY <1>t, <1>k, <2>2, <2>3, <2>4 DEF Follows
    <2>6. ASSUME NEW q \in Proc, q # p PROVE Follows(q)'
      BY <1>t, <1>k, <2>1, <2>2, <2>6, FollowsSame
    <2> QED
      BY <2>5, <2>6
  <1>2. ASSUME NEW p \in Proc, GiveUp(p) PROVE \A q \in Proc : Follows(q)'
    <2>1. /\ at[p].pc = "retain" /\ at[p].pos > 1 /\ UNCHANGED <<plan, entry, granted>>
          /\ at' = [at EXCEPT ![p] = [pos |-> at[p].pos - 1, pc |-> "hold"]]
      BY <1>2 DEF GiveUp
    <2>2. HasIdx(p)' = HasIdx(p) /\ GotIdx(p)' = GotIdx(p)
      BY <1>k, <2>1 DEF HasIdx, GotIdx
    <2>3. Follows(p)'
      BY <1>t, <1>k, <2>1, <2>2 DEF Follows
    <2>4. ASSUME NEW q \in Proc, q # p PROVE Follows(q)'
      BY <1>t, <1>k, <2>1, <2>4, FollowsSame
    <2> QED
      BY <2>3, <2>4
  <1>3. ASSUME NEW p \in Proc, RetainLock(p) PROVE \A q \in Proc : Follows(q)'
    <2>1. at[p].pc = "retain" /\ at' = [at EXCEPT ![p].pc = "lock"] /\ UNCHANGED <<granted, plan>>
      BY <1>3 DEF RetainLock
    <2>2. at[p].pos \in 1..Len(plan[p]) /\ K(p) \in Key /\ K(p) = plan[p][at[p].pos].key
      BY <1>t, <2>1, PlanFacts
    <2>3. PICK e \in Entry : entry' = [entry EXCEPT ![p][K(p)] = e]
      <3>1. CASE locks[K(p)] = None
        <4>1. (CHOOSE e \in Unused : TRUE) \in Entry
          BY <1>3, <3>1 DEF RetainLock, Unused
        <4> QED
          BY <1>3, <3>1, <4>1 DEF RetainLock
      <3>2. CASE locks[K(p)] # None
        BY <1>3, <1>t, <2>2, <3>2 DEF RetainLock, TypeOK
      <3> QED
        BY <3>1, <3>2
    <2>4. HasIdx(p)' = HasIdx(p) \cup {at[p].pos} /\ GotIdx(p)' = GotIdx(p)
      BY <1>k, <2>1, <2>2 DEF HasIdx, GotIdx
    <2>5. e # None
      BY <2>3, ProcAssumption
    <2>6. Follows(p)'
      <3>1. \A k \in Key : entry'[p][k] = IF k = K(p) THEN e ELSE entry[p][k]
        BY <1>k, <2>2, <2>3
      <3>2. at'[p].pc = "lock"
        BY <1>k, <2>1
      <3>3. \A i \in HasIdx(p) : i \in 1..Len(plan[p]) /\ plan[p][i].key \in Key
        BY <1>t, <1>k, <2>1, <2>2, PlanFacts DEF HasIdx
      <3> QED
        BY <1>t, <2>1, <2>2, <2>4, <2>5, <3>1, <3>2, <3>3 DEF Follows
    <2>7. ASSUME NEW q \in Proc, q # p PROVE Follows(q)'
      BY <1>t, <1>k, <2>1, <2>3, <2>7, FollowsSame
    <2> QED
      BY <2>6, <2>7
  <1>a. ASSUME NEW p \in Proc, at[p].pc \in {"lock", "blocked", "drain"}, Acquired(p), UNCHANGED <<entry, plan>>
        PROVE  \A q \in Proc : Follows(q)'
    <2>1. /\ at[p].pos \in 1..Len(plan[p]) /\ K(p) \in Key /\ K(p) = plan[p][at[p].pos].key
          /\ Lock(p) = plan[p][at[p].pos] /\ Lock(p).mode \in {"read", "write"} /\ Len(plan[p]) \in Nat
      BY <1>a, <1>t, PlanFacts
    <2>2. granted' = [granted EXCEPT ![p][K(p)] = Lock(p).mode]
      BY <1>a DEF Acquired
    <2>3. \/ at' = [at EXCEPT ![p] = [pos |-> at[p].pos, pc |-> "hold"]]
          \/ at' = [at EXCEPT ![p] = [pos |-> at[p].pos + 1, pc |-> "retain"]]
      BY <1>a, <1>t, AcquiredFacts
    <2>4. HasIdx(p)' = HasIdx(p) /\ GotIdx(p)' = GotIdx(p) \cup {at[p].pos}
      BY <1>a, <1>k, <2>1, <2>3 DEF HasIdx, GotIdx
    <2>5. Follows(p)'
      <3>1. \A k \in Key : granted'[p][k] = IF k = K(p) THEN Lock(p).mode ELSE granted[p][k]
        BY <1>k, <2>1, <2>2
      <3>2. at'[p].pc \in {"hold", "retain"}
        BY <1>k, <2>3
      <3>3. \A i \in GotIdx(p) : i \in 1..Len(plan[p]) /\ plan[p][i].key \in Key /\ i # at[p].pos
        BY <1>a, <1>t, <1>k, <2>1, PlanFacts, SMTT(30) DEF GotIdx
      <3>4. \A i \in GotIdx(p) : plan[p][i].key # K(p)
        BY <1>a, <1>t, <2>1, <3>3, PlanFacts
      <3> QED
        BY <1>a, <1>t, <2>1, <2>4, <3>1, <3>2, <3>3, <3>4 DEF Follows
    <2>6. ASSUME NEW q \in Proc, q # p PROVE Follows(q)'
      BY <1>a, <1>t, <1>k, <2>2, <2>3, <2>6, FollowsSame
    <2> QED
      BY <2>5, <2>6
  <1>b. ASSUME NEW p \in Proc, at[p].pc = "lock", NEW c \in {"blocked", "drain"},
               Lock(p).mode = IF c = "blocked" THEN "read" ELSE "write",
               at' = [at EXCEPT ![p].pc = c], UNCHANGED <<entry, plan, granted>>
        PROVE  \A q \in Proc : Follows(q)'
    <2>1. HasIdx(p)' = HasIdx(p) /\ GotIdx(p)' = GotIdx(p)
      BY <1>b, <1>k DEF HasIdx, GotIdx
    <2>2. Follows(p)'
      <3>1. at'[p].pc = c /\ at'[p].pos = at[p].pos
        BY <1>b, <1>k
      <3> QED
        BY <1>b, <1>t, <2>1, <3>1 DEF Follows, Lock
    <2>3. ASSUME NEW q \in Proc, q # p PROVE Follows(q)'
      BY <1>b, <1>t, <1>k, <2>3, FollowsSame
    <2> QED
      BY <2>2, <2>3
  <1>4. ASSUME NEW p \in Proc, RLock(p) PROVE \A q \in Proc : Follows(q)'
    <2>1. at[p].pc = "lock" /\ Lock(p).mode = "read" /\ UNCHANGED <<entry, plan>>
      BY <1>4 DEF RLock
    <2>2. CASE rw[E(p)].writer = None
      BY <1>4, <1>a, <2>1, <2>2 DEF RLock
    <2>3. CASE rw[E(p)].writer # None
      BY <1>4, <1>b, <2>1, <2>3 DEF RLock
    <2> QED
      BY <2>2, <2>3
  <1>5. ASSUME NEW p \in Proc, RLockWakes(p) PROVE \A q \in Proc : Follows(q)'
    BY <1>5, <1>a DEF RLockWakes
  <1>6. ASSUME NEW p \in Proc, WLock(p) PROVE \A q \in Proc : Follows(q)'
    BY <1>6, <1>b DEF WLock
  <1>7. ASSUME NEW p \in Proc, WLockDrained(p) PROVE \A q \in Proc : Follows(q)'
    BY <1>7, <1>a DEF WLockDrained
  <1>8. ASSUME NEW p \in Proc, RUnlock(p) \/ WUnlock(p) PROVE \A q \in Proc : Follows(q)'
    <2>1. /\ at[p].pc = "hold" /\ granted' = [granted EXCEPT ![p][K(p)] = "no"]
          /\ at' = [at EXCEPT ![p].pc = "unlocked"] /\ UNCHANGED <<entry, plan>>
      BY <1>8 DEF RUnlock, WUnlock
    <2>2. at[p].pos \in 1..Len(plan[p]) /\ K(p) \in Key /\ K(p) = plan[p][at[p].pos].key
      BY <1>t, <2>1, PlanFacts
    <2>3. HasIdx(p)' = HasIdx(p) /\ GotIdx(p)' = GotIdx(p) \ {at[p].pos}
      BY <1>k, <2>1 DEF HasIdx, GotIdx
    <2>4. Follows(p)'
      <3>1. \A k \in Key : granted'[p][k] = IF k = K(p) THEN "no" ELSE granted[p][k]
        BY <1>k, <2>1, <2>2
      <3>2. at'[p].pc = "unlocked"
        BY <1>k, <2>1
      <3>3. \A i \in GotIdx(p) : i \in 1..Len(plan[p]) /\ plan[p][i].key \in Key
        <4>1. Len(plan[p]) \in Nat /\ \A i \in 1..Len(plan[p]) : plan[p][i].key \in Key
          BY <1>t, <2>1, PlanFacts
        <4>2. \A i \in GotIdx(p) : i \in 1..Len(plan[p])
          BY <2>2, <4>1 DEF GotIdx
        <4> QED
          BY <4>1, <4>2
      <3>4. \A i \in GotIdx(p) : i # at[p].pos => plan[p][i].key # K(p)
        BY <1>t, <2>1, <2>2, <3>3, PlanFacts
      <3> QED
        BY <1>t, <2>1, <2>2, <2>3, <3>1, <3>2, <3>3, <3>4 DEF Follows
    <2>5. ASSUME NEW q \in Proc, q # p PROVE Follows(q)'
      BY <1>t, <1>k, <2>1, <2>5, FollowsSame
    <2> QED
      BY <2>4, <2>5
  <1>9. ASSUME NEW p \in Proc, ReleaseLock(p) PROVE \A q \in Proc : Follows(q)'
    <2>1. /\ at[p].pc = "unlocked" /\ entry' = [entry EXCEPT ![p][K(p)] = None]
          /\ StepBack(p) /\ granted' = granted
      BY <1>9 DEF ReleaseLock
    <2>2. at[p].pos \in 1..Len(plan[p]) /\ K(p) \in Key /\ K(p) = plan[p][at[p].pos].key
      BY <1>t, <2>1, PlanFacts
    <2>3. \/ /\ at[p].pos = 1 /\ at' = [at EXCEPT ![p] = [pos |-> 0, pc |-> "idle"]]
             /\ plan' = [plan EXCEPT ![p] = <<>>]
          \/ /\ at[p].pos - 1 \in 1..Len(plan[p]) /\ plan' = plan
             /\ at' = [at EXCEPT ![p] = [pos |-> at[p].pos - 1, pc |-> "hold"]]
      BY <1>t, <2>1, StepBackFacts
    <2>4. HasIdx(p)' = HasIdx(p) \ {at[p].pos} /\ GotIdx(p)' = GotIdx(p)
      BY <1>k, <2>1, <2>2, <2>3 DEF HasIdx, GotIdx
    <2>5. Follows(p)'
      <3>1. \A k \in Key : entry'[p][k] = IF k = K(p) THEN None ELSE entry[p][k]
        BY <1>k, <2>1, <2>2
      <3>2. (at'[p].pc = "idle" => at'[p].pos = 0) /\ at'[p].pc \notin {"blocked", "drain"}
        BY <1>k, <2>3
      <3>3. \A i \in HasIdx(p) : i \in 1..Len(plan[p]) /\ plan[p][i].key \in Key
        BY <1>t, <1>k, <2>1, <2>2, PlanFacts DEF HasIdx
      <3>4. \A i \in HasIdx(p) : i # at[p].pos => plan[p][i].key # K(p)
        BY <1>t, <2>1, <2>2, <3>3, PlanFacts
      <3>5. HasIdx(p)' # {} \/ GotIdx(p)' # {} => plan'[p] = plan[p]
        BY <1>k, <2>3 DEF HasIdx, GotIdx
      <3> QED
        BY <1>t, <2>1, <2>2, <2>4, <3>1, <3>2, <3>3, <3>4, <3>5 DEF Follows
    <2>6. ASSUME NEW q \in Proc, q # p PROVE Follows(q)'
      <3>1. at'[q] = at[q] /\ plan'[q] = plan[q] /\ entry'[q] = entry[q] /\ granted'[q] = granted[q]
        BY <1>k, <2>1, <2>3, <2>6
      <3> QED
        BY <1>t, <3>1, FollowsSame
    <2> QED
      BY <2>5, <2>6
  <1>10. CASE UNCHANGED vars
    BY <1>10, <1>t, FollowsSame DEF vars
  <1> QED
    BY <1>1, <1>2, <1>3, <1>4, <1>5, <1>6, <1>7, <1>8, <1>9, <1>10 DEF Next, Step

-----------------------------------------------------------------------------
(* The map of entries.                                                     *)

LEMMA MapStep == OwnInv /\ [Next]_vars => MapInv'
  <1> SUFFICES ASSUME OwnInv, [Next]_vars PROVE MapInv'
    OBVIOUS
  <1>t. PlanInv /\ TypeOK /\ MapInv
    BY DEF OwnInv, PlanInv
  <1>k. /\ locks \in [Key -> Entry \cup {None}] /\ refs \in [Entry -> Nat]
        /\ entry \in [Proc -> [Key -> Entry \cup {None}]]
    BY <1>t DEF TypeOK
  <1>1. ASSUME NEW p \in Proc, RetainLock(p) PROVE MapInv'
    <2>1. K(p) \in Key
      BY <1>1, <1>t, PlanFacts DEF RetainLock
    <2>2. entry[p][K(p)] = None
      <3>1. at[p].pc = "retain"
        BY <1>1 DEF RetainLock
      <3>2. ASSUME NEW i \in HasIdx(p) PROVE plan[p][i].key # K(p)
        <4>1. i # at[p].pos
          BY <3>1 DEF HasIdx
        <4>2. i \in 1..Len(plan[p]) /\ at[p].pos \in 1..Len(plan[p])
          BY <1>t, <3>1, PlanFacts DEF HasIdx
        <4> QED
          BY <1>t, <3>1, <4>1, <4>2, PlanFacts
      <3> QED
        BY <1>t, <2>1, <3>2 DEF PlanInv, Follows
    <2>3. CASE locks[K(p)] = None
      <3>1. PICK e \in Unused : /\ locks' = [locks EXCEPT ![K(p)] = e]
                                /\ refs' = [refs EXCEPT ![e] = 1]
                                /\ entry' = [entry EXCEPT ![p][K(p)] = e]
        <4>1. Unused # {} /\ (CHOOSE e \in Unused : TRUE) \in Unused
          BY <1>1, <2>3 DEF RetainLock
        <4> QED
          BY <1>1, <2>3, <4>1 DEF RetainLock
      <3>2. e \in Entry /\ (\A k \in Key : locks[k] # e) /\ e # None
        BY ProcAssumption DEF Unused
      <3>3. \A q \in Proc, k \in Key : entry'[q][k] = IF q = p /\ k = K(p) THEN e ELSE entry[q][k]
        BY <1>k, <2>1, <3>1
      <3>4. \A k \in Key : locks'[k] = IF k = K(p) THEN e ELSE locks[k]
        BY <1>k, <2>1, <3>1
      <3>5. \A q \in Proc, k \in Key : entry'[q][k] # None => entry'[q][k] = locks'[k]
        BY <1>t, <2>3, <3>3, <3>4 DEF MapInv
      <3>6. \A k, j \in Key : locks'[k] # None /\ locks'[k] = locks'[j] => k = j
        BY <1>t, <3>2, <3>4 DEF MapInv
      <3>7. ASSUME NEW k \in Key, locks'[k] # None
            PROVE  Refs(k)' # {} /\ refs'[locks'[k]] = Cardinality(Refs(k)')
        <4>1. CASE k = K(p)
          <5>1. \A q \in Proc : entry[q][k] = None
            BY <1>t, <1>k, <2>3, <4>1 DEF MapInv
          <5>2. Refs(k)' = {p}
            BY <3>2, <3>3, <4>1, <5>1 DEF Refs
          <5>3. Cardinality({p}) = 1
            BY FS_Singleton
          <5>4. refs'[e] = 1
            BY <1>k, <3>1, <3>2
          <5> QED
            BY <3>4, <4>1, <5>2, <5>3, <5>4
        <4>2. CASE k # K(p)
          <5>1. Refs(k)' = Refs(k)
            BY <3>3, <4>2 DEF Refs
          <5>2. locks'[k] = locks[k] /\ locks[k] # e /\ refs'[locks[k]] = refs[locks[k]]
            BY <1>k, <3>1, <3>2, <3>4, <3>7, <4>2
          <5> QED
            BY <1>t, <3>7, <5>1, <5>2 DEF MapInv
        <4> QED
          BY <4>1, <4>2
      <3> QED
        BY <3>5, <3>6, <3>7 DEF MapInv
    <2>4. CASE locks[K(p)] # None
      <3>1. /\ refs' = [refs EXCEPT ![locks[K(p)]] = refs[locks[K(p)]] + 1]
            /\ entry' = [entry EXCEPT ![p][K(p)] = locks[K(p)]]
            /\ locks' = locks
        BY <1>1, <2>4 DEF RetainLock
      <3>2. locks[K(p)] \in Entry
        BY <1>k, <2>1, <2>4
      <3>3. \A q \in Proc, k \in Key : entry'[q][k] = IF q = p /\ k = K(p) THEN locks[K(p)] ELSE entry[q][k]
        BY <1>k, <2>1, <3>1
      <3>4. \A q \in Proc, k \in Key : entry'[q][k] # None => entry'[q][k] = locks'[k]
        BY <1>t, <3>1, <3>3 DEF MapInv
      <3>5. ASSUME NEW k \in Key, locks'[k] # None
            PROVE  Refs(k)' # {} /\ refs'[locks'[k]] = Cardinality(Refs(k)')
        <4>1. CASE k = K(p)
          <5>1. Refs(k)' = Refs(k) \cup {p} /\ p \notin Refs(k)
            BY <2>2, <2>4, <3>3, <4>1 DEF Refs
          <5>2. IsFiniteSet(Refs(k)) /\ refs[locks[k]] = Cardinality(Refs(k))
            BY <3>1, <3>5, RefsFacts
          <5>3. Cardinality(Refs(k)') = Cardinality(Refs(k)) + 1
            BY <5>1, <5>2, FS_AddElement
          <5>4. refs'[locks[k]] = refs[locks[k]] + 1
            BY <1>k, <3>1, <3>2, <4>1
          <5> QED
            BY <3>1, <5>1, <5>2, <5>3, <5>4
        <4>2. CASE k # K(p)
          <5>1. Refs(k)' = Refs(k)
            BY <3>3, <4>2 DEF Refs
          <5>2. locks[k] # locks[K(p)]
            BY <1>t, <2>1, <3>1, <3>5, <4>2 DEF MapInv
          <5>3. refs'[locks[k]] = refs[locks[k]]
            BY <1>k, <3>1, <3>5, <5>2
          <5> QED
            BY <1>t, <3>1, <3>5, <5>1, <5>3 DEF MapInv
        <4> QED
          BY <4>1, <4>2
      <3> QED
        BY <1>t, <3>1, <3>4, <3>5 DEF MapInv
    <2> QED
      BY <2>3, <2>4
  <1>2. ASSUME NEW p \in Proc, ReleaseLock(p) PROVE MapInv'
    <2>1. E(p) \in Entry /\ K(p) \in Key /\ E(p) # None /\ E(p) = entry[p][K(p)]
      BY <1>2, <1>t, EntryFacts, PlanFacts DEF ReleaseLock, E
    <2>2. E(p) = locks[K(p)]
      BY <1>t, <2>1 DEF MapInv
    <2>3. /\ IsFiniteSet(Refs(K(p))) /\ refs[E(p)] = Cardinality(Refs(K(p)))
          /\ refs[E(p)] \in Nat /\ refs[E(p)] >= 1
      BY <2>1, <2>2, RefsFacts
    <2>4. p \in Refs(K(p))
      BY <2>1 DEF Refs
    <2>5. /\ refs' = [refs EXCEPT ![E(p)] = refs[E(p)] - 1]
          /\ entry' = [entry EXCEPT ![p][K(p)] = None]
          /\ locks' = IF refs[E(p)] = 1 THEN [locks EXCEPT ![K(p)] = None] ELSE locks
      BY <1>2, <2>2 DEF ReleaseLock
    <2>6. \A q \in Proc, k \in Key : entry'[q][k] = IF q = p /\ k = K(p) THEN None ELSE entry[q][k]
      BY <1>k, <2>1, <2>5
    <2>7. \A k \in Key : k # K(p) => locks'[k] = locks[k]
      BY <1>k, <2>1, <2>5
    <2>8. PICK kp \in Key : kp = K(p)
      BY <2>1
    <2>9. Refs(kp)' = Refs(kp) \ {p} /\ \A k \in Key : k # kp => Refs(k)' = Refs(k)
      BY <2>6, <2>8 DEF Refs
    <2>10. Cardinality(Refs(kp)') = refs[E(p)] - 1
      BY <2>3, <2>4, <2>8, <2>9, FS_RemoveElement
    <2>11. refs'[E(p)] = refs[E(p)] - 1 /\ \A e \in Entry : e # E(p) => refs'[e] = refs[e]
      BY <1>k, <2>1, <2>5
    <2>12. \A q \in Proc, k \in Key : entry'[q][k] # None => entry'[q][k] = locks'[k]
      <3> SUFFICES ASSUME NEW q \in Proc, NEW k \in Key, entry'[q][k] # None PROVE entry'[q][k] = locks'[k]
        OBVIOUS
      <3>1. CASE k # kp
        BY <1>t, <2>6, <2>7, <2>8, <3>1 DEF MapInv
      <3>2. CASE k = kp
        <4>1. q \in Refs(kp)'
          BY <3>2 DEF Refs
        <4>2. refs[E(p)] # 1
          <5>1. Refs(kp)' # {} /\ IsFiniteSet(Refs(kp)')
            BY <2>3, <2>8, <2>9, <4>1, FS_RemoveElement
          <5> QED
            BY <2>3, <2>10, <5>1, FS_EmptySet
        <4>3. locks' = locks
          BY <2>5, <4>2
        <4> QED
          BY <1>t, <2>6, <4>3 DEF MapInv
      <3> QED
        BY <3>1, <3>2
    <2>13. \A k, j \in Key : locks'[k] # None /\ locks'[k] = locks'[j] => k = j
      <3>1. \A k \in Key : locks'[k] # None => locks'[k] = locks[k]
        BY <1>k, <2>5
      <3> QED
        BY <1>t, <3>1 DEF MapInv
    <2>14. ASSUME NEW k \in Key, locks'[k] # None
           PROVE  Refs(k)' # {} /\ refs'[locks'[k]] = Cardinality(Refs(k)')
      <3>1. CASE k = kp
        <4>1. refs[E(p)] # 1 /\ locks' = locks
          BY <1>k, <2>1, <2>5, <2>8, <2>14, <3>1
        <4>2. Cardinality(Refs(kp)') # 0
          BY <2>3, <2>10, <4>1
        <4> QED
          BY <2>2, <2>8, <2>10, <2>11, <3>1, <4>1, <4>2, FS_EmptySet
      <3>2. CASE k # kp
        <4>1. locks'[k] = locks[k] /\ locks[k] # E(p)
          BY <1>t, <2>1, <2>2, <2>7, <2>8, <2>14, <3>2 DEF MapInv
        <4>2. refs'[locks[k]] = refs[locks[k]]
          BY <1>k, <2>11, <2>14, <4>1
        <4> QED
          BY <1>t, <2>9, <2>14, <3>2, <4>1, <4>2 DEF MapInv
      <3> QED
        BY <3>1, <3>2
    <2> QED
      BY <2>12, <2>13, <2>14 DEF MapInv
  <1>3. ASSUME UNCHANGED <<locks, refs, entry>> PROVE MapInv'
    BY <1>3, <1>t DEF MapInv, Refs
  <1>4. ASSUME NEW p \in Proc, \/ Begin(p) \/ GiveUp(p) \/ RLock(p) \/ RLockWakes(p) \/ WLock(p)
                               \/ WLockDrained(p) \/ RUnlock(p) \/ WUnlock(p)
        PROVE  MapInv'
    BY <1>3, <1>4 DEF Begin, GiveUp, RLock, RLockWakes, WLock, WLockDrained, RUnlock, WUnlock
  <1>5. CASE UNCHANGED vars
    BY <1>3, <1>5 DEF vars
  <1> QED
    BY <1>1, <1>2, <1>4, <1>5 DEF Next, Step

LEMMA OwnInit == Init => OwnInv
  <1> SUFFICES ASSUME Init PROVE OwnInv
    OBVIOUS
  <1>1. TypeOK
    BY TypeInit
  <1>2. \A p \in Proc : Follows(p)
    BY DEF Init, Follows, HasIdx, GotIdx
  <1>3. MapInv
    BY DEF Init, MapInv
  <1> QED
    BY <1>1, <1>2, <1>3 DEF OwnInv, PlanInv

LEMMA OwnAlways == Spec => []OwnInv
  <1>1. OwnInv /\ [Next]_vars => OwnInv'
    BY TypeStep, FollowsStep, MapStep DEF OwnInv, PlanInv
  <1> QED
    BY <1>1, OwnInit, PTL DEF Spec

(* Type correctness of the locks and their callers (StorageLifecycle). *)
THEOREM LocksTypeCorrect == Spec => []TypeOK
  <1>1. OwnInv => TypeOK
    BY DEF OwnInv, PlanInv
  <1> QED
    BY <1>1, OwnAlways, PTL

(* The map has an entry for a key exactly while somebody refers to it, and   *)
(* all of them refer to that one (retainLock, releaseLock).                  *)
THEOREM MapHoldsEntriesInUse == Spec => []EntriesInUse
  <1>1. OwnInv => EntriesInUse
    BY DEF OwnInv, MapInv, EntriesInUse, Refs
  <1> QED
    BY <1>1, OwnAlways, PTL

-----------------------------------------------------------------------------
(* The locks.                                                              *)

(* q is inside RLock, or inside Lock, for key k. *)
Waits(q, k, c) == at[q].pc = c /\ K(q) = k

(* What the lock m of key k knows about its callers is true. *)
Agrees(k, m) ==
    /\ \A q \in Proc : granted[q][k] = "read" => q \in m.readers
    /\ \A q \in Proc : granted[q][k] = "write" => m.writer = q /\ m.writing
    /\ m.writing => m.readers = {} /\ m.writer # None
    /\ \A q \in m.readers : granted[q][k] = "read" \/ Waits(q, k, "blocked")
    /\ m.writer # None => granted[m.writer][k] = "write" \/ Waits(m.writer, k, "drain")
    /\ \A q \in m.blocked : Waits(q, k, "blocked")
    /\ \A q \in Proc : Waits(q, k, "drain") => m.writer = q
    /\ m.readers \cap m.blocked = {}

LockState(k) == locks[k] # None => Agrees(k, rw[locks[k]])

(* A caller that holds a key, or waits for it, refers to its entry, and      *)
(* nobody holds the key it waits for.                                        *)
LEMMA HolderFacts ==
    ASSUME OwnInv, NEW q \in Proc, NEW k \in Key
    PROVE  /\ granted[q][k] # "no" => locks[k] # None
           /\ \A c \in {"lock", "blocked", "drain"} :
                Waits(q, k, c) => locks[k] # None /\ E(q) = locks[k] /\ granted[q][k] = "no"
  <1>t. PlanInv /\ TypeOK /\ MapInv /\ Follows(q)
    BY DEF OwnInv, PlanInv
  <1>1. granted[q][k] # "no" => locks[k] # None
    <2> SUFFICES ASSUME granted[q][k] # "no" PROVE locks[k] # None
      OBVIOUS
    <2>1. PICK i \in GotIdx(q) : plan[q][i].key = k
      BY <1>t DEF Follows
    <2>2. i \in HasIdx(q)
      BY <2>1 DEF GotIdx, HasIdx
    <2>3. entry[q][k] # None
      BY <1>t, <2>1, <2>2 DEF Follows
    <2> QED
      BY <1>t, <2>3 DEF MapInv
  <1>2. ASSUME NEW c \in {"lock", "blocked", "drain"}, Waits(q, k, c)
        PROVE  locks[k] # None /\ E(q) = locks[k] /\ granted[q][k] = "no"
    <2>1. at[q].pc = c /\ K(q) = k
      BY <1>2 DEF Waits
    <2>2. E(q) # None /\ E(q) = entry[q][k]
      BY <1>t, <2>1, EntryFacts DEF E
    <2>3. ASSUME NEW i \in GotIdx(q) PROVE plan[q][i].key # k
      <3>1. i # at[q].pos
        BY <2>1 DEF GotIdx
      <3>2. i \in 1..Len(plan[q]) /\ at[q].pos \in 1..Len(plan[q])
        BY <1>t, <2>1, PlanFacts DEF GotIdx
      <3> QED
        BY <1>t, <2>1, <3>1, <3>2, PlanFacts
    <2>4. granted[q][k] = "no"
      BY <1>t, <2>3 DEF Follows
    <2> QED
      BY <1>t, <2>2, <2>4 DEF MapInv
  <1> QED
    BY <1>1, <1>2

(* A step that changes neither the lock of k nor its callers. *)
LEMMA AgreesSame ==
    ASSUME NEW k \in Key, NEW m, Agrees(k, m),
           \A q \in Proc : granted'[q][k] = granted[q][k],
           \A q \in Proc, c \in {"blocked", "drain"} : Waits(q, k, c)' <=> Waits(q, k, c),
           m.readers \subseteq Proc, m.blocked \subseteq Proc, m.writer \in Proc \cup {None}
    PROVE  Agrees(k, m)'
  BY DEF Agrees

LEMMA WaitsSame ==
    ASSUME NEW q \in Proc, NEW k \in Key, NEW c, at'[q] = at[q], plan'[q] = plan[q]
    PROVE  Waits(q, k, c)' <=> Waits(q, k, c)
  BY DEF Waits, K, Lock

LocksInv == OwnInv /\ \A k \in Key : LockState(k)

(* Only the caller p takes a step, and it neither is inside RLock or Lock    *)
(* of k nor gets there: the lock of k is not concerned.                      *)
LEMMA OtherKey ==
    ASSUME OwnInv, NEW k \in Key, LockState(k), NEW p \in Proc,
           locks'[k] # None => locks'[k] = locks[k] /\ rw'[locks[k]] = rw[locks[k]],
           \A q \in Proc : granted'[q][k] = granted[q][k],
           \A q \in Proc : q # p => at'[q] = at[q] /\ plan'[q] = plan[q],
           \A c \in {"blocked", "drain"} : ~Waits(p, k, c) /\ ~Waits(p, k, c)'
    PROVE  LockState(k)'
  <1> SUFFICES ASSUME locks'[k] # None PROVE Agrees(k, rw[locks[k]])'
    BY DEF LockState
  <1>1. PICK m \in RW : m = rw[locks[k]]
    BY DEF OwnInv, PlanInv, TypeOK, RW
  <1>2. (rw[locks[k]])' = m
    BY <1>1
  <1>3. \A q \in Proc, c \in {"blocked", "drain"} : Waits(q, k, c)' <=> Waits(q, k, c)
    BY WaitsSame
  <1>4. Agrees(k, m)
    BY <1>1 DEF LockState
  <1>5. m.readers \subseteq Proc /\ m.blocked \subseteq Proc /\ m.writer \in Proc \cup {None}
    BY DEF RW
  <1>6. Agrees(k, m)'
    BY <1>3, <1>4, <1>5, AgreesSame
  <1> QED
    BY <1>2, <1>6 DEF Agrees

LEMMA LocksStep == LocksInv /\ OwnInv' /\ [Next]_vars => \A k \in Key : LockState(k)'
  <1> SUFFICES ASSUME LocksInv, OwnInv', [Next]_vars, NEW k \in Key PROVE LockState(k)'
    OBVIOUS
  <1>t. OwnInv /\ PlanInv /\ TypeOK /\ MapInv /\ LockState(k)
    BY DEF LocksInv, OwnInv, PlanInv
  <1>k. /\ locks \in [Key -> Entry \cup {None}] /\ rw \in [Entry -> RW]
        /\ granted \in [Proc -> [Key -> Modes]] /\ at \in [Proc -> [pos : Nat, pc : Steps]]
        /\ plan \in [Proc -> Plans \cup {<<>>}]
    BY <1>t DEF TypeOK, RW
  <1>1. ASSUME NEW p \in Proc, Begin(p) \/ GiveUp(p) PROVE LockState(k)'
    <2>1. /\ at[p].pc \in {"idle", "retain"} /\ at'[p].pc \in {"hold", "retain"}
          /\ \A q \in Proc : q # p => at'[q] = at[q] /\ plan'[q] = plan[q]
          /\ UNCHANGED <<locks, rw, granted>>
      BY <1>1, <1>k DEF Begin, GiveUp
    <2>2. \A c \in {"blocked", "drain"} : ~Waits(p, k, c) /\ ~Waits(p, k, c)'
      BY <2>1 DEF Waits
    <2> QED
      BY <1>t, <2>1, <2>2, OtherKey
  <1>2. ASSUME NEW p \in Proc, RetainLock(p) PROVE LockState(k)'
    <2>1. /\ at[p].pc = "retain" /\ at'[p].pc = "lock" /\ granted' = granted
          /\ \A q \in Proc : q # p => at'[q] = at[q] /\ plan'[q] = plan[q]
      BY <1>2, <1>k DEF RetainLock
    <2>2. \A c \in {"blocked", "drain"} : ~Waits(p, k, c) /\ ~Waits(p, k, c)'
      BY <2>1 DEF Waits
    <2>3. K(p) \in Key
      BY <1>t, <2>1, PlanFacts
    <2>4. CASE locks[K(p)] # None
      BY <1>2, <1>t, <2>1, <2>2, <2>4, OtherKey DEF RetainLock
    <2>5. CASE locks[K(p)] = None
      <3>1. PICK e \in Unused : locks' = [locks EXCEPT ![K(p)] = e] /\ rw' = [rw EXCEPT ![e] = Unlocked]
        BY <1>2, <2>5 DEF RetainLock
      <3>2. e \in Entry /\ \A j \in Key : locks[j] # e
        BY DEF Unused
      <3>3. CASE k # K(p)
        <4>1. locks'[k] = locks[k] /\ (locks[k] # None => rw'[locks[k]] = rw[locks[k]])
          BY <1>k, <2>3, <3>1, <3>2, <3>3
        <4> QED
          BY <1>t, <2>1, <2>2, <4>1, OtherKey
      <3>4. CASE k = K(p)
        <4>1. (rw[locks[k]])' = Unlocked
          BY <1>k, <2>3, <3>1, <3>2, <3>4
        <4>2. \A q \in Proc : granted'[q][k] = "no"
          BY <1>t, <2>1, <2>5, <3>4, HolderFacts
        <4>3. \A q \in Proc : ~Waits(q, k, "drain")
          BY <1>t, <2>5, <3>4, HolderFacts
        <4>4. \A q \in Proc : ~Waits(q, k, "drain")'
          BY <2>1, <2>2, <4>3, WaitsSame
        <4>5. Agrees(k, Unlocked)'
          BY <4>2, <4>4 DEF Agrees, Unlocked
        <4> QED
          BY <4>1, <4>5 DEF LockState, Agrees
      <3> QED
        BY <3>3, <3>4
    <2> QED
      BY <2>4, <2>5
  <1>3. ASSUME NEW p \in Proc, ReleaseLock(p) PROVE LockState(k)'
    <2>1. at[p].pc = "unlocked" /\ StepBack(p) /\ UNCHANGED <<rw, granted>>
      BY <1>3 DEF ReleaseLock
    <2>2. at'[p].pc \in {"idle", "hold"} /\ \A q \in Proc : q # p => at'[q] = at[q] /\ plan'[q] = plan[q]
      BY <1>k, <2>1 DEF StepBack
    <2>3. \A c \in {"blocked", "drain"} : ~Waits(p, k, c) /\ ~Waits(p, k, c)'
      BY <2>1, <2>2 DEF Waits
    <2>4. locks'[k] # None => locks'[k] = locks[k]
      <3>1. K(p) \in Key
        BY <1>t, <2>1, PlanFacts
      <3> QED
        BY <1>3, <1>k, <3>1 DEF ReleaseLock
    <2> QED
      BY <1>t, <2>1, <2>2, <2>3, <2>4, OtherKey
  <1>4. ASSUME UNCHANGED vars PROVE LockState(k)'
    BY <1>4, <1>t DEF vars, LockState, Agrees, Waits, K, Lock
  <1>o. ASSUME NEW p \in Proc, at[p].pc \notin {"idle", "retain"}, K(p) # k,
               UNCHANGED <<locks, plan>>,
               \A e \in Entry : e # E(p) => rw'[e] = rw[e],
               \A q \in Proc : granted'[q][k] = granted[q][k],
               \A q \in Proc : q # p => at'[q] = at[q],
               at'[p].pc \in {"blocked", "drain"} => at'[p].pos = at[p].pos
        PROVE  LockState(k)'
    <2>1. K(p) \in Key /\ E(p) = locks[K(p)] /\ E(p) # None
      BY <1>o, <1>t, PlanFacts, EntryFacts DEF MapInv, E
    <2>2. locks[k] # None => locks[k] # E(p) /\ rw'[locks[k]] = rw[locks[k]]
      BY <1>o, <1>t, <1>k, <2>1 DEF MapInv
    <2>3. \A c \in {"blocked", "drain"} : ~Waits(p, k, c)
      BY <1>o DEF Waits
    <2>4. \A c \in {"blocked", "drain"} : ~Waits(p, k, c)'
      BY <1>o DEF Waits, K, Lock
    <2> QED
      BY <1>o, <1>t, <2>2, <2>3, <2>4, OtherKey
  <1>w. ASSUME NEW p \in Proc, UNCHANGED plan, \A q \in Proc : q # p => at'[q] = at[q]
        PROVE  \A q \in Proc, c \in {"blocked", "drain"} : q # p => (Waits(q, k, c)' <=> Waits(q, k, c))
    BY <1>w, WaitsSame
  <1>m. ASSUME NEW p \in Proc, at[p].pc \notin {"idle", "retain"}, K(p) = k
        PROVE  /\ E(p) = locks[k] /\ E(p) \in Entry /\ locks[k] # None
               /\ rw[E(p)] \in RW /\ Agrees(k, rw[E(p)])
               /\ at[p].pc \in {"lock", "blocked", "drain"} => granted[p][k] = "no"
               /\ at[p].pc = "hold" => granted[p][k] = Lock(p).mode
    <2>1. E(p) \in Entry /\ E(p) # None /\ E(p) = locks[k]
      BY <1>m, <1>t, EntryFacts DEF MapInv, E
    <2>2. rw[E(p)] \in RW /\ Agrees(k, rw[E(p)])
      BY <1>t, <1>k, <2>1 DEF LockState
    <2>3. at[p].pc \in {"lock", "blocked", "drain"} => granted[p][k] = "no"
      BY <1>m, <1>t, HolderFacts DEF Waits
    <2>4. at[p].pc = "hold" => granted[p][k] = Lock(p).mode
      <3>1. at[p].pc = "hold" => at[p].pos \in GotIdx(p) /\ K(p) = plan[p][at[p].pos].key /\ Lock(p) = plan[p][at[p].pos]
        BY <1>m, <1>t, PlanFacts DEF GotIdx
      <3> QED
        BY <1>m, <1>t, <3>1 DEF PlanInv, Follows
    <2> QED
      BY <2>1, <2>2, <2>3, <2>4
  <1>a. ASSUME NEW p \in Proc, at[p].pc # "idle", Acquired(p), UNCHANGED plan
        PROVE  /\ \A q \in Proc : q # p => at'[q] = at[q]
               /\ at'[p].pc \in {"hold", "retain"}
               /\ \A q \in Proc, j \in Key : granted'[q][j] = IF q = p /\ j = K(p) THEN Lock(p).mode ELSE granted[q][j]
    <2>1. K(p) \in Key
      BY <1>a, <1>t, PlanFacts
    <2>2. granted' = [granted EXCEPT ![p][K(p)] = Lock(p).mode]
      BY <1>a DEF Acquired
    <2>3. \A q \in Proc, j \in Key : granted'[q][j] = IF q = p /\ j = K(p) THEN Lock(p).mode ELSE granted[q][j]
      BY <1>k, <2>1, <2>2
    <2>4. (\A q \in Proc : q # p => at'[q] = at[q]) /\ at'[p].pc \in {"hold", "retain"}
      BY <1>a, <1>t, <1>k, AcquiredFacts
    <2> QED
      BY <2>3, <2>4
  <1>5. ASSUME NEW p \in Proc, RLock(p) PROVE LockState(k)'
    <2>0. at[p].pc = "lock" /\ Lock(p).mode = "read" /\ UNCHANGED <<locks, plan>>
      BY <1>5 DEF RLock
    <2>1. E(p) \in Entry
      BY <1>t, <2>0, EntryFacts
    <2>2. CASE rw[E(p)].writer = None
      <3>1. rw' = [rw EXCEPT ![E(p)].readers = rw[E(p)].readers \cup {p}] /\ Acquired(p)
        BY <1>5, <2>2 DEF RLock
      <3>2. /\ \A q \in Proc : q # p => at'[q] = at[q]
            /\ at'[p].pc \in {"hold", "retain"}
            /\ \A q \in Proc, j \in Key : granted'[q][j] = IF q = p /\ j = K(p) THEN "read" ELSE granted[q][j]
        BY <1>a, <2>0, <3>1
      <3>3. CASE K(p) # k
        BY <1>k, <1>o, <2>0, <2>1, <3>1, <3>2, <3>3
      <3>4. CASE K(p) = k
        <4>1. /\ E(p) = locks[k] /\ Agrees(k, rw[E(p)]) /\ rw[E(p)] \in RW
          BY <1>m, <2>0, <3>4
        <4>2. PICK m \in RW : m = rw[E(p)]
          BY <4>1
        <4> DEFINE n == [m EXCEPT !.readers = m.readers \cup {p}]
        <4>3. (rw[locks[k]])' = n
          BY <1>k, <2>0, <2>1, <3>1, <4>1, <4>2
        <4>4. /\ n.readers = m.readers \cup {p} /\ n.writer = m.writer
              /\ n.writing = m.writing /\ n.blocked = m.blocked
          BY DEF RW
        <4>5. \A q \in Proc, c \in {"blocked", "drain"} : q # p => (Waits(q, k, c)' <=> Waits(q, k, c))
          BY <1>w, <2>0, <3>2
        <4>6. ~Waits(p, k, "blocked") /\ ~Waits(p, k, "drain") /\ ~Waits(p, k, "drain")'
          BY <2>0, <3>2 DEF Waits
        <4>7. Agrees(k, m) /\ m.writer = None /\ m.readers \subseteq Proc /\ m.blocked \subseteq Proc
          BY <2>2, <4>1, <4>2 DEF RW
        <4> HIDE DEF n
        <4>8. Agrees(k, n)'
          BY <3>2, <3>4, <4>4, <4>5, <4>6, <4>7, ProcAssumption DEF Agrees
        <4> QED
          BY <4>3, <4>8 DEF LockState, Agrees
      <3> QED
        BY <3>3, <3>4
    <2>3. CASE rw[E(p)].writer # None
      <3>1. /\ rw' = [rw EXCEPT ![E(p)].blocked = rw[E(p)].blocked \cup {p}]
            /\ at' = [at EXCEPT ![p].pc = "blocked"] /\ granted' = granted
        BY <1>5, <2>3 DEF RLock
      <3>2. at'[p].pc = "blocked" /\ at'[p].pos = at[p].pos /\ \A q \in Proc : q # p => at'[q] = at[q]
        BY <1>k, <3>1
      <3>3. CASE K(p) # k
        BY <1>k, <1>o, <2>0, <2>1, <3>1, <3>2, <3>3
      <3>4. CASE K(p) = k
        <4>1. /\ E(p) = locks[k] /\ Agrees(k, rw[E(p)]) /\ rw[E(p)] \in RW /\ granted[p][k] = "no"
          BY <1>m, <2>0, <3>4
        <4>2. PICK m \in RW : m = rw[E(p)]
          BY <4>1
        <4> DEFINE n == [m EXCEPT !.blocked = m.blocked \cup {p}]
        <4>3. (rw[locks[k]])' = n
          BY <1>k, <2>0, <2>1, <3>1, <4>1, <4>2
        <4>4. /\ n.readers = m.readers /\ n.writer = m.writer
              /\ n.writing = m.writing /\ n.blocked = m.blocked \cup {p}
          BY DEF RW
        <4>5. \A q \in Proc, c \in {"blocked", "drain"} : q # p => (Waits(q, k, c)' <=> Waits(q, k, c))
          BY <1>w, <2>0, <3>2
        <4>6. /\ ~Waits(p, k, "blocked") /\ ~Waits(p, k, "drain")
              /\ Waits(p, k, "blocked")' /\ ~Waits(p, k, "drain")'
          BY <2>0, <3>2, <3>4 DEF Waits, K, Lock
        <4>7. Agrees(k, m) /\ m.readers \subseteq Proc /\ m.blocked \subseteq Proc /\ m.writer \in Proc \cup {None}
          BY <4>1, <4>2 DEF RW
        <4>8. p \notin m.readers
          BY <4>1, <4>6, <4>7 DEF Agrees
        <4> HIDE DEF n
        <4>9. Agrees(k, n)'
          BY <3>1, <4>4, <4>5, <4>6, <4>7, <4>8 DEF Agrees
        <4> QED
          BY <4>3, <4>9 DEF LockState, Agrees
      <3> QED
        BY <3>3, <3>4
    <2> QED
      BY <2>2, <2>3
  <1>6. ASSUME NEW p \in Proc, RLockWakes(p) PROVE LockState(k)'
    <2>0. at[p].pc = "blocked" /\ p \in rw[E(p)].readers /\ Acquired(p) /\ UNCHANGED <<locks, rw, plan>>
      BY <1>6 DEF RLockWakes
    <2>1. /\ \A q \in Proc : q # p => at'[q] = at[q]
          /\ at'[p].pc \in {"hold", "retain"}
          /\ \A q \in Proc, j \in Key : granted'[q][j] = IF q = p /\ j = K(p) THEN Lock(p).mode ELSE granted[q][j]
      BY <1>a, <2>0
    <2>2. CASE K(p) # k
      BY <1>o, <2>0, <2>1, <2>2
    <2>3. CASE K(p) = k
      <3>1. E(p) = locks[k] /\ Agrees(k, rw[E(p)]) /\ rw[E(p)] \in RW
        BY <1>m, <2>0, <2>3
      <3>2. PICK m \in RW : m = rw[E(p)]
        BY <3>1
      <3>3. (rw[locks[k]])' = m
        BY <2>0, <3>1, <3>2
      <3>4. \A q \in Proc, c \in {"blocked", "drain"} : q # p => (Waits(q, k, c)' <=> Waits(q, k, c))
        BY <1>w, <2>0, <2>1
      <3>5. ~Waits(p, k, "blocked")' /\ ~Waits(p, k, "drain")'
        BY <2>1 DEF Waits
      <3>6. /\ Agrees(k, m) /\ p \in m.readers /\ p \notin m.blocked
            /\ m.readers \subseteq Proc /\ m.blocked \subseteq Proc /\ m.writer \in Proc \cup {None}
        BY <2>0, <3>1, <3>2 DEF RW, Agrees
      <3>7. Lock(p).mode = "read"
        BY <1>t, <2>0 DEF PlanInv, Follows, Lock
      <3>8. granted[p][k] = "no" /\ ~Waits(p, k, "drain")
        BY <1>m, <2>0, <2>3 DEF Waits
      <3>9. m.writer # p
        BY <3>6, <3>8, ProcAssumption DEF Agrees
      <3>10. Agrees(k, m)'
        BY <2>1, <2>3, <3>4, <3>5, <3>6, <3>7, <3>8, <3>9 DEF Agrees
      <3> QED
        BY <3>3, <3>10 DEF LockState, Agrees
    <2> QED
      BY <2>2, <2>3
  <1>7. ASSUME NEW p \in Proc, WLock(p) PROVE LockState(k)'
    <2>0. /\ at[p].pc = "lock" /\ rw[E(p)].writer = None /\ UNCHANGED <<locks, plan, granted>>
          /\ rw' = [rw EXCEPT ![E(p)].writer = p] /\ at' = [at EXCEPT ![p].pc = "drain"]
      BY <1>7 DEF WLock
    <2>1. E(p) \in Entry
      BY <1>t, <2>0, EntryFacts
    <2>2. at'[p].pc = "drain" /\ at'[p].pos = at[p].pos /\ \A q \in Proc : q # p => at'[q] = at[q]
      BY <1>k, <2>0
    <2>3. CASE K(p) # k
      BY <1>k, <1>o, <2>0, <2>1, <2>2, <2>3
    <2>4. CASE K(p) = k
      <3>1. E(p) = locks[k] /\ Agrees(k, rw[E(p)]) /\ rw[E(p)] \in RW /\ granted[p][k] = "no"
        BY <1>m, <2>0, <2>4
      <3>2. PICK m \in RW : m = rw[E(p)]
        BY <3>1
      <3> DEFINE n == [m EXCEPT !.writer = p]
      <3>3. (rw[locks[k]])' = n
        BY <1>k, <2>0, <2>1, <3>1, <3>2
      <3>4. n.readers = m.readers /\ n.writer = p /\ n.writing = m.writing /\ n.blocked = m.blocked
        BY DEF RW
      <3>5. \A q \in Proc, c \in {"blocked", "drain"} : q # p => (Waits(q, k, c)' <=> Waits(q, k, c))
        BY <1>w, <2>0, <2>2
      <3>6. /\ ~Waits(p, k, "blocked") /\ ~Waits(p, k, "drain")
            /\ ~Waits(p, k, "blocked")' /\ Waits(p, k, "drain")'
        BY <2>0, <2>2, <2>4 DEF Waits, K, Lock
      <3>7. Agrees(k, m) /\ m.writer = None /\ m.readers \subseteq Proc /\ m.blocked \subseteq Proc /\ p # None
        BY <2>0, <3>1, <3>2, ProcAssumption DEF RW
      <3>8. ~m.writing /\ \A q \in Proc : granted[q][k] # "write"
        BY <3>7, ProcAssumption DEF Agrees
      <3> HIDE DEF n
      <3>9. Agrees(k, n)'
        BY <2>0, <3>4, <3>5, <3>6, <3>7, <3>8, ProcAssumption DEF Agrees
      <3> QED
        BY <3>3, <3>9 DEF LockState, Agrees
    <2> QED
      BY <2>3, <2>4
  <1>8. ASSUME NEW p \in Proc, WLockDrained(p) PROVE LockState(k)'
    <2>0. /\ at[p].pc = "drain" /\ rw[E(p)].readers = {} /\ UNCHANGED <<locks, plan>>
          /\ rw' = [rw EXCEPT ![E(p)].writing = TRUE] /\ Acquired(p)
      BY <1>8 DEF WLockDrained
    <2>1. E(p) \in Entry
      BY <1>t, <2>0, EntryFacts
    <2>2. /\ \A q \in Proc : q # p => at'[q] = at[q]
          /\ at'[p].pc \in {"hold", "retain"}
          /\ \A q \in Proc, j \in Key : granted'[q][j] = IF q = p /\ j = K(p) THEN Lock(p).mode ELSE granted[q][j]
      BY <1>a, <2>0
    <2>3. CASE K(p) # k
      BY <1>k, <1>o, <2>0, <2>1, <2>2, <2>3
    <2>4. CASE K(p) = k
      <3>1. E(p) = locks[k] /\ Agrees(k, rw[E(p)]) /\ rw[E(p)] \in RW /\ granted[p][k] = "no"
        BY <1>m, <2>0, <2>4
      <3>2. PICK m \in RW : m = rw[E(p)]
        BY <3>1
      <3> DEFINE n == [m EXCEPT !.writing = TRUE]
      <3>3. (rw[locks[k]])' = n
        BY <1>k, <2>0, <2>1, <3>1, <3>2
      <3>4. n.readers = {} /\ n.writer = m.writer /\ n.writing = TRUE /\ n.blocked = m.blocked
        BY <2>0, <3>2 DEF RW
      <3>5. \A q \in Proc, c \in {"blocked", "drain"} : q # p => (Waits(q, k, c)' <=> Waits(q, k, c))
        BY <1>w, <2>0, <2>2
      <3>6. /\ ~Waits(p, k, "blocked") /\ Waits(p, k, "drain")
            /\ ~Waits(p, k, "blocked")' /\ ~Waits(p, k, "drain")'
        BY <2>0, <2>2, <2>4 DEF Waits
      <3>7. Agrees(k, m) /\ m.readers = {} /\ m.blocked \subseteq Proc /\ m.writer = p /\ p # None
        BY <2>0, <3>1, <3>2, <3>6, ProcAssumption DEF RW, Agrees
      <3>8. Lock(p).mode = "write"
        BY <1>t, <2>0 DEF PlanInv, Follows, Lock
      <3> HIDE DEF n
      <3>9. Agrees(k, n)'
        BY <2>2, <2>4, <3>4, <3>5, <3>6, <3>7, <3>8 DEF Agrees
      <3> QED
        BY <3>3, <3>9 DEF LockState, Agrees
    <2> QED
      BY <2>3, <2>4
  <1>u. ASSUME NEW p \in Proc, RUnlock(p) \/ WUnlock(p)
        PROVE  /\ at[p].pc = "hold" /\ at'[p].pc = "unlocked" /\ UNCHANGED <<locks, plan>>
               /\ \A q \in Proc : q # p => at'[q] = at[q]
               /\ \A q \in Proc, j \in Key : granted'[q][j] = IF q = p /\ j = K(p) THEN "no" ELSE granted[q][j]
    <2>1. /\ at[p].pc = "hold" /\ at' = [at EXCEPT ![p].pc = "unlocked"] /\ UNCHANGED <<locks, plan>>
          /\ granted' = [granted EXCEPT ![p][K(p)] = "no"]
      BY <1>u DEF RUnlock, WUnlock
    <2>2. K(p) \in Key
      BY <1>t, <2>1, PlanFacts
    <2>3. at'[p].pc = "unlocked" /\ \A q \in Proc : q # p => at'[q] = at[q]
      BY <1>k, <2>1
    <2>4. \A q \in Proc, j \in Key : granted'[q][j] = IF q = p /\ j = K(p) THEN "no" ELSE granted[q][j]
      BY <1>k, <2>1, <2>2
    <2> QED
      BY <2>1, <2>3, <2>4
  <1>9. ASSUME NEW p \in Proc, RUnlock(p) PROVE LockState(k)'
    <2>0. Lock(p).mode = "read" /\ rw' = [rw EXCEPT ![E(p)].readers = rw[E(p)].readers \ {p}]
      BY <1>9 DEF RUnlock
    <2>1. /\ at[p].pc = "hold" /\ at'[p].pc = "unlocked" /\ UNCHANGED <<locks, plan>>
          /\ \A q \in Proc : q # p => at'[q] = at[q]
          /\ \A q \in Proc, j \in Key : granted'[q][j] = IF q = p /\ j = K(p) THEN "no" ELSE granted[q][j]
      BY <1>9, <1>u
    <2>2. E(p) \in Entry
      BY <1>t, <2>1, EntryFacts
    <2>3. CASE K(p) # k
      BY <1>k, <1>o, <2>0, <2>1, <2>2, <2>3
    <2>4. CASE K(p) = k
      <3>1. E(p) = locks[k] /\ Agrees(k, rw[E(p)]) /\ rw[E(p)] \in RW /\ granted[p][k] = "read"
        BY <1>m, <2>0, <2>1, <2>4
      <3>2. PICK m \in RW : m = rw[E(p)]
        BY <3>1
      <3> DEFINE n == [m EXCEPT !.readers = m.readers \ {p}]
      <3>3. (rw[locks[k]])' = n
        BY <1>k, <2>0, <2>1, <2>2, <3>1, <3>2
      <3>4. n.readers = m.readers \ {p} /\ n.writer = m.writer /\ n.writing = m.writing /\ n.blocked = m.blocked
        BY DEF RW
      <3>5. \A q \in Proc, c \in {"blocked", "drain"} : q # p => (Waits(q, k, c)' <=> Waits(q, k, c))
        BY <1>w, <2>1
      <3>6. /\ ~Waits(p, k, "blocked") /\ ~Waits(p, k, "drain")
            /\ ~Waits(p, k, "blocked")' /\ ~Waits(p, k, "drain")'
        BY <2>1 DEF Waits
      <3>7. Agrees(k, m) /\ m.readers \subseteq Proc /\ m.blocked \subseteq Proc /\ m.writer \in Proc \cup {None}
        BY <3>1, <3>2 DEF RW
      <3> HIDE DEF n
      <3>8. Agrees(k, n)'
        BY <2>1, <2>4, <3>1, <3>4, <3>5, <3>6, <3>7 DEF Agrees
      <3> QED
        BY <3>3, <3>8 DEF LockState, Agrees
    <2> QED
      BY <2>3, <2>4
  <1>10. ASSUME NEW p \in Proc, WUnlock(p) PROVE LockState(k)'
    <2>0. Lock(p).mode = "write" /\ rw' = [rw EXCEPT ![E(p)] = [Unlocked EXCEPT !.readers = rw[E(p)].blocked]]
      BY <1>10 DEF WUnlock
    <2>1. /\ at[p].pc = "hold" /\ at'[p].pc = "unlocked" /\ UNCHANGED <<locks, plan>>
          /\ \A q \in Proc : q # p => at'[q] = at[q]
          /\ \A q \in Proc, j \in Key : granted'[q][j] = IF q = p /\ j = K(p) THEN "no" ELSE granted[q][j]
      BY <1>10, <1>u
    <2>2. E(p) \in Entry
      BY <1>t, <2>1, EntryFacts
    <2>3. CASE K(p) # k
      BY <1>k, <1>o, <2>0, <2>1, <2>2, <2>3
    <2>4. CASE K(p) = k
      <3>1. E(p) = locks[k] /\ Agrees(k, rw[E(p)]) /\ rw[E(p)] \in RW /\ granted[p][k] = "write"
        BY <1>m, <2>0, <2>1, <2>4
      <3>2. PICK m \in RW : m = rw[E(p)]
        BY <3>1
      <3> DEFINE n == [Unlocked EXCEPT !.readers = m.blocked]
      <3>3. (rw[locks[k]])' = n
        BY <1>k, <2>0, <2>1, <2>2, <3>1, <3>2
      <3>4. n.readers = m.blocked /\ n.writer = None /\ n.writing = FALSE /\ n.blocked = {}
        BY DEF Unlocked
      <3>5. \A q \in Proc, c \in {"blocked", "drain"} : q # p => (Waits(q, k, c)' <=> Waits(q, k, c))
        BY <1>w, <2>1
      <3>6. /\ ~Waits(p, k, "blocked") /\ ~Waits(p, k, "drain")
            /\ ~Waits(p, k, "blocked")' /\ ~Waits(p, k, "drain")'
        BY <2>1 DEF Waits
      <3>7. Agrees(k, m) /\ m.blocked \subseteq Proc /\ m.readers = {} /\ m.writer = p
        BY <3>1, <3>2 DEF RW, Agrees
      <3> HIDE DEF n
      <3>8. Agrees(k, n)'
        BY <2>1, <2>4, <3>4, <3>5, <3>6, <3>7 DEF Agrees
      <3> QED
        BY <3>3, <3>8 DEF LockState, Agrees
    <2> QED
      BY <2>3, <2>4
  <1> QED
    BY <1>1, <1>2, <1>3, <1>4, <1>5, <1>6, <1>7, <1>8, <1>9, <1>10 DEF Next, Step


LEMMA LocksAlways == Spec => []LocksInv
  <1>1. Init => LocksInv
    BY OwnInit DEF Init, LocksInv, LockState
  <1>2. LocksInv /\ OwnInv' /\ [Next]_vars => LocksInv'
    BY LocksStep DEF LocksInv
  <1> QED
    BY <1>1, <1>2, OwnAlways, PTL DEF Spec

(* A writer excludes every other holder of its key, although the entry       *)
(* behind the key comes and goes (ReadLock, WriteLock).                      *)
THEOREM WriterExcludes == Spec => []Exclusion
  <1>1. LocksInv => Exclusion
    <2> SUFFICES ASSUME LocksInv, NEW p \in Proc, NEW q \in Proc, NEW k \in Key,
                        p # q, granted[p][k] = "write"
                 PROVE  granted[q][k] = "no"
      BY DEF Exclusion
    <2>1. locks[k] # None
      BY HolderFacts DEF LocksInv
    <2>2. Agrees(k, rw[locks[k]])
      BY <2>1 DEF LocksInv, LockState
    <2>3. granted[q][k] # "read" /\ granted[q][k] # "write"
      BY <2>2 DEF Agrees
    <2>4. granted[q][k] \in Modes
      BY DEF LocksInv, OwnInv, PlanInv, TypeOK
    <2> QED
      BY <2>3, <2>4 DEF Modes
  <1> QED
    BY <1>1, LocksAlways, PTL

-----------------------------------------------------------------------------
(* Deadlock.                                                               *)

LEMMA SmallestElement ==
    ASSUME NEW T \in SUBSET Nat, T # {}
    PROVE  \E x \in T : \A y \in T : x <= y
  <1>1. PICK x \in T : \A y \in T : ~(<<y, x>> \in OpToRel(<, Nat))
    BY NatLessThanWellFounded, WFMin, Zenon
  <1>2. \A y \in T : ~(y < x)
    BY <1>1 DEF OpToRel
  <1> QED
    BY <1>2

(* How far a waiting caller is: the key it waits for, and whether it is the  *)
(* writer the others for that key wait behind.                               *)
Stage(p) == 2 * Rank[K(p)] + (IF at[p].pc = "drain" THEN 1 ELSE 0)

(* A caller holds only keys that come before the one it waits for. *)
LEMMA HeldBefore ==
    ASSUME OwnInv, TakenInOrder, NEW q \in Proc, NEW k \in Key,
           at[q].pc \in {"lock", "blocked", "drain"}, granted[q][k] # "no"
    PROVE  Rank[k] < Rank[K(q)]
  <1>t. TypeOK /\ Follows(q)
    BY DEF OwnInv, PlanInv
  <1>1. PICK i \in GotIdx(q) : plan[q][i].key = k
    BY <1>t DEF Follows
  <1>2. /\ at[q].pos \in 1..Len(plan[q]) /\ K(q) = plan[q][at[q].pos].key
        /\ plan[q] \in Plans /\ Len(plan[q]) \in Nat
    BY <1>t, PlanFacts
  <1>3. i \in 1..Len(plan[q]) /\ i < at[q].pos
    BY <1>2 DEF GotIdx
  <1> QED
    BY <1>1, <1>2, <1>3 DEF TakenInOrder

(* Whoever a caller waits for is further on, if it waits as well. *)
LEMMA WaitsForFurther ==
    ASSUME LocksInv, TakenInOrder, NEW p \in Proc, NEW q \in Proc, NEW r \in Proc,
           WaitsFor(p, q), WaitsFor(q, r)
    PROVE  Stage(p) < Stage(q)
  <1>t. OwnInv /\ PlanInv /\ TypeOK /\ MapInv
    BY DEF LocksInv, OwnInv, PlanInv
  <1>1. at[p].pc \in {"lock", "blocked", "drain"} /\ at[q].pc \in {"lock", "blocked", "drain"}
    BY DEF WaitsFor
  <1>2. K(p) \in Key /\ K(q) \in Key
    BY <1>t, <1>1, PlanFacts
  <1>3. Rank[K(p)] \in Nat /\ Rank[K(q)] \in Nat
    BY <1>2 DEF TakenInOrder
  <1>4. E(p) = locks[K(p)] /\ locks[K(p)] # None
    BY <1>t, <1>1, <1>2, HolderFacts DEF Waits
  <1>5. Agrees(K(p), rw[E(p)])
    BY <1>2, <1>4 DEF LocksInv, LockState
  <1>6. CASE granted[q][K(p)] # "no"
    <2>1. Rank[K(p)] < Rank[K(q)]
      BY <1>t, <1>1, <1>2, <1>6, HeldBefore
    <2> QED
      BY <1>3, <2>1 DEF Stage
  <1>7. CASE granted[q][K(p)] = "no"
    <2>1. CASE at[p].pc = "drain"
      <3>1. q \in rw[E(p)].readers
        BY <2>1 DEF WaitsFor
      <3>2. Waits(q, K(p), "blocked")
        BY <1>5, <1>7, <3>1 DEF Agrees
      <3>3. at[q].pc = "blocked" /\ K(q) = K(p)
        BY <3>2 DEF Waits
      <3>4. E(q) = E(p)
        BY <1>t, <1>2, <1>4, <3>2, HolderFacts
      <3> QED
        BY <3>1, <3>3, <3>4 DEF WaitsFor
    <2>2. CASE at[p].pc # "drain"
      <3>1. rw[E(p)].writer = q /\ q # None
        BY <2>2, ProcAssumption DEF WaitsFor
      <3>2. Waits(q, K(p), "drain")
        BY <1>5, <1>7, <3>1 DEF Agrees
      <3> QED
        BY <1>3, <2>2, <3>2 DEF Stage, Waits
    <2> QED
      BY <2>1, <2>2
  <1> QED
    BY <1>6, <1>7

LEMMA NoCircle ==
    ASSUME LocksInv, TakenInOrder
    PROVE  NoCircularWait
  <1> SUFFICES ASSUME NEW D \in (SUBSET Proc) \ {{}},
                      \A p \in D : \E q \in D : WaitsFor(p, q)
               PROVE  FALSE
    BY DEF NoCircularWait
  <1>1. PICK n \in Nat : Rank \in [Key -> 0..n]
    BY DEF TakenInOrder
  <1>2. ASSUME NEW p \in D PROVE Stage(p) \in 0..(2 * n + 1)
    <2>1. at[p].pc # "idle"
      BY DEF WaitsFor
    <2>2. K(p) \in Key
      BY <2>1, PlanFacts DEF LocksInv, OwnInv, PlanInv
    <2>3. Rank[K(p)] \in 0..n
      BY <1>1, <2>2
    <2> QED
      BY <2>3 DEF Stage
  <1> DEFINE T == {(2 * n + 1) - Stage(p) : p \in D}
  <1>3. T \in SUBSET Nat /\ T # {}
    BY <1>2
  <1>4. PICK x \in T : \A y \in T : x <= y
    BY <1>3, SmallestElement
  <1>5. PICK p \in D : x = (2 * n + 1) - Stage(p)
    OBVIOUS
  <1>6. PICK q \in D : WaitsFor(p, q)
    OBVIOUS
  <1>7. PICK r \in D : WaitsFor(q, r)
    OBVIOUS
  <1>8. Stage(p) < Stage(q)
    BY <1>6, <1>7, WaitsForFurther
  <1>9. (2 * n + 1) - Stage(p) <= (2 * n + 1) - Stage(q)
    BY <1>4, <1>5
  <1> QED
    BY <1>2, <1>8, <1>9

(* If every operation takes its locks in one order of the keys, callers      *)
(* never wait for each other in a circle, however many there are, readers    *)
(* that queue behind a waiting writer included.                              *)
THEOREM OrderedLocksDoNotDeadlock ==
    ASSUME TakenInOrder
    PROVE  Spec => []NoCircularWait
  <1>1. LocksInv => NoCircularWait
    BY NoCircle
  <1> QED
    BY <1>1, LocksAlways, PTL

=============================================================================
