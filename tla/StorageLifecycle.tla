--------------------------- MODULE StorageLifecycle ---------------------------
(***************************************************************************)
(* The keyed reader-writer locks of app/storage_lifecycle.go.              *)
(*                                                                         *)
(* A lock entry is created when the first caller asks for its key and is   *)
(* deleted from the map when the last one lets go; the entry itself holds  *)
(* a sync.RWMutex, whose writer preference is modelled from its documented *)
(* behaviour.  The callers hold several locks at once: a plan is the list  *)
(* of locks one of them takes, in order, before it releases them in the    *)
(* opposite order.                                                         *)
(***************************************************************************)
EXTENDS Integers, Sequences, FiniteSets

CONSTANTS
    Key,    \* mount ids, "file:<id>" and "pool:<id>"
    Rank,   \* an order of the keys
    Entry,  \* storageLifecycleLock objects
    None,
    Proc,   \* goroutines that take lifecycle locks
    Plans   \* sequences of the locks a caller takes

(* ReadLocks removes duplicates and no caller takes a lock it holds. *)
ASSUME PlansAssumption ==
    \A s \in Plans :
        /\ s \in Seq([mode : {"read", "write"}, key : Key]) /\ Len(s) > 0
        /\ \A i, j \in 1..Len(s) : s[i].key = s[j].key => i = j

ASSUME ProcAssumption == IsFiniteSet(Proc) /\ None \notin Entry \cup Proc

VARIABLES
    locks,    \* StorageLifecycle.locks
    refs,     \* storageLifecycleLock.refs
    rw,       \* storageLifecycleLock.lock
    entry,    \* the entry each caller's release function for a key refers to
    granted,  \* how each caller holds a key
    plan,     \* the locks each caller takes
    at        \* how far each caller is: the position in its plan and the step there

vars == <<locks, refs, rw, entry, granted, plan, at>>

Modes == {"no", "read", "write"}

Steps == {"idle", "retain", "lock", "blocked", "drain", "hold", "unlocked"}

(* An unlocked sync.RWMutex.  writer has announced itself, and is writing   *)
(* once the readers before it have left; blocked are the readers after it.  *)
Unlocked == [readers |-> {}, writer |-> None, writing |-> FALSE, blocked |-> {}]

(* The map of locks, the mutexes and their callers have their types. *)
TypeOK ==
    /\ locks \in [Key -> Entry \cup {None}]
    /\ refs \in [Entry -> Nat]
    /\ rw \in [Entry -> [readers : SUBSET Proc, writer : Proc \cup {None},
                         writing : BOOLEAN, blocked : SUBSET Proc]]
    /\ entry \in [Proc -> [Key -> Entry \cup {None}]]
    /\ granted \in [Proc -> [Key -> Modes]]
    /\ plan \in [Proc -> Plans \cup {<<>>}]
    /\ at \in [Proc -> [pos : Nat, pc : Steps]]
    /\ \A p \in Proc : at[p].pc # "idle" => at[p].pos \in 1..Len(plan[p])

Init ==
    /\ locks = [k \in Key |-> None]
    /\ refs = [e \in Entry |-> 0]
    /\ rw = [e \in Entry |-> Unlocked]
    /\ entry = [p \in Proc |-> [k \in Key |-> None]]
    /\ granted = [p \in Proc |-> [k \in Key |-> "no"]]
    /\ plan = [p \in Proc |-> <<>>]
    /\ at = [p \in Proc |-> [pos |-> 0, pc |-> "idle"]]

Lock(p) == plan[p][at[p].pos]
K(p) == Lock(p).key
E(p) == entry[p][K(p)]

(* The caller has the lock it asked for, and asks for the next one. *)
Acquired(p) ==
    /\ granted' = [granted EXCEPT ![p][K(p)] = Lock(p).mode]
    /\ at' = [at EXCEPT ![p] = IF @.pos = Len(plan[p]) THEN [pos |-> @.pos, pc |-> "hold"]
                               ELSE [pos |-> @.pos + 1, pc |-> "retain"]]

Begin(p) ==
    /\ at[p].pc = "idle"
    /\ \E s \in Plans : plan' = [plan EXCEPT ![p] = s]
    /\ at' = [at EXCEPT ![p] = [pos |-> 1, pc |-> "retain"]]
    /\ UNCHANGED <<locks, refs, rw, entry, granted>>

-----------------------------------------------------------------------------
(* The map of entries, under StorageLifecycle.mu.                          *)

Unused == {e \in Entry : (\A k \in Key : locks[k] # e) /\ \A p \in Proc, k \in Key : entry[p][k] # e}

(* retainLock finds the entry of a key or adds one. *)
RetainLock(p) ==
    /\ at[p].pc = "retain"
    /\ IF locks[K(p)] = None
       THEN /\ Unused # {}
            /\ LET e == CHOOSE e \in Unused : TRUE
               IN /\ locks' = [locks EXCEPT ![K(p)] = e]
                  /\ refs' = [refs EXCEPT ![e] = 1]
                  /\ rw' = [rw EXCEPT ![e] = Unlocked]
                  /\ entry' = [entry EXCEPT ![p][K(p)] = e]
       ELSE /\ refs' = [refs EXCEPT ![locks[K(p)]] = @ + 1]
            /\ entry' = [entry EXCEPT ![p][K(p)] = locks[K(p)]]
            /\ UNCHANGED <<locks, rw>>
    /\ at' = [at EXCEPT ![p].pc = "lock"]
    /\ UNCHANGED <<granted, plan>>

(* After a lock is released the caller releases the one before it. *)
StepBack(p) ==
    /\ at' = [at EXCEPT ![p] = IF @.pos = 1 THEN [pos |-> 0, pc |-> "idle"]
                               ELSE [pos |-> @.pos - 1, pc |-> "hold"]]
    /\ plan' = IF at[p].pos = 1 THEN [plan EXCEPT ![p] = <<>>] ELSE plan

(* Mutant: an entry is deleted as soon as anyone lets go of it. *)
ReleaseLockEager(p) ==
    /\ at[p].pc = "unlocked"
    /\ refs' = [refs EXCEPT ![E(p)] = @ - 1]
    /\ locks' = IF locks[K(p)] = E(p) THEN [locks EXCEPT ![K(p)] = None] ELSE locks
    /\ entry' = [entry EXCEPT ![p][K(p)] = None]
    /\ StepBack(p)
    /\ UNCHANGED <<rw, granted>>

(* releaseLock drops a reference; the last one removes the entry. *)
ReleaseLock(p) ==
    /\ at[p].pc = "unlocked"
    /\ refs' = [refs EXCEPT ![E(p)] = @ - 1]
    /\ locks' = IF refs[E(p)] = 1 /\ locks[K(p)] = E(p) THEN [locks EXCEPT ![K(p)] = None]
                ELSE locks
    /\ entry' = [entry EXCEPT ![p][K(p)] = None]
    /\ StepBack(p)
    /\ UNCHANGED <<rw, granted>>

-----------------------------------------------------------------------------
(* sync.RWMutex.                                                           *)

(* A reader waits behind a writer that has announced itself. *)
RLock(p) ==
    /\ at[p].pc = "lock" /\ Lock(p).mode = "read"
    /\ IF rw[E(p)].writer = None
       THEN /\ rw' = [rw EXCEPT ![E(p)].readers = @ \cup {p}]
            /\ Acquired(p)
       ELSE /\ rw' = [rw EXCEPT ![E(p)].blocked = @ \cup {p}]
            /\ at' = [at EXCEPT ![p].pc = "blocked"]
            /\ UNCHANGED granted
    /\ UNCHANGED <<locks, refs, entry, plan>>

(* The writer has left and made the reader one of the readers. *)
RLockWakes(p) ==
    /\ at[p].pc = "blocked"
    /\ p \in rw[E(p)].readers
    /\ Acquired(p)
    /\ UNCHANGED <<locks, refs, rw, entry, plan>>

(* A writer excludes the other writers and announces itself to readers. *)
WLock(p) ==
    /\ at[p].pc = "lock" /\ Lock(p).mode = "write"
    /\ rw[E(p)].writer = None
    /\ rw' = [rw EXCEPT ![E(p)].writer = p]
    /\ at' = [at EXCEPT ![p].pc = "drain"]
    /\ UNCHANGED <<locks, refs, entry, granted, plan>>

(* It gets the lock when the readers before it have left. *)
WLockDrained(p) ==
    /\ at[p].pc = "drain"
    /\ rw[E(p)].readers = {}
    /\ rw' = [rw EXCEPT ![E(p)].writing = TRUE]
    /\ Acquired(p)
    /\ UNCHANGED <<locks, refs, entry, plan>>

RUnlock(p) ==
    /\ at[p].pc = "hold" /\ Lock(p).mode = "read"
    /\ rw' = [rw EXCEPT ![E(p)].readers = @ \ {p}]
    /\ granted' = [granted EXCEPT ![p][K(p)] = "no"]
    /\ at' = [at EXCEPT ![p].pc = "unlocked"]
    /\ UNCHANGED <<locks, refs, entry, plan>>

(* Unlock lets the readers in that waited for the writer to leave. *)
WUnlock(p) ==
    /\ at[p].pc = "hold" /\ Lock(p).mode = "write"
    /\ rw' = [rw EXCEPT ![E(p)] = [Unlocked EXCEPT !.readers = rw[E(p)].blocked]]
    /\ granted' = [granted EXCEPT ![p][K(p)] = "no"]
    /\ at' = [at EXCEPT ![p].pc = "unlocked"]
    /\ UNCHANGED <<locks, refs, entry, plan>>

-----------------------------------------------------------------------------

(* Mutant: an early return forgets the locks it already has. *)
GiveUpLeaks(p) ==
    /\ at[p].pc = "retain" /\ at[p].pos > 1
    /\ at' = [at EXCEPT ![p] = [pos |-> 0, pc |-> "idle"]]
    /\ plan' = [plan EXCEPT ![p] = <<>>]
    /\ UNCHANGED <<locks, refs, rw, entry, granted>>

(* A caller returns early with the locks it already has. *)
GiveUp(p) ==
    /\ at[p].pc = "retain" /\ at[p].pos > 1
    /\ at' = [at EXCEPT ![p] = [pos |-> @.pos - 1, pc |-> "hold"]]
    /\ UNCHANGED <<locks, refs, rw, entry, granted, plan>>

Step(p) ==
    \/ RetainLock(p) \/ RLock(p) \/ RLockWakes(p) \/ WLock(p) \/ WLockDrained(p)
    \/ RUnlock(p) \/ WUnlock(p) \/ ReleaseLock(p)

Next == \E p \in Proc : Begin(p) \/ GiveUp(p) \/ Step(p)

Spec == Init /\ [][Next]_vars

-----------------------------------------------------------------------------

(* A writer excludes every other holder of its key, although the lock      *)
(* behind the key is deleted and made anew all the time: no caller is left  *)
(* with an entry the map no longer has (ReadLock, WriteLock).               *)
Exclusion ==
    \A p, q \in Proc, k \in Key :
        p # q /\ granted[p][k] = "write" => granted[q][k] = "no"

(* The map has an entry for a key exactly while somebody refers to it, and  *)
(* they all refer to that one: unused entries are released and used ones    *)
(* are not (retainLock, releaseLock).                                       *)
EntriesInUse ==
    \A k \in Key :
        /\ locks[k] # None => \E p \in Proc : entry[p][k] # None
        /\ \A p \in Proc : entry[p][k] # None => entry[p][k] = locks[k]

(* p cannot go on before q does: p waits for the writer q, or is a writer   *)
(* that waits for the reader q to leave.                                    *)
WaitsFor(p, q) ==
    \/ /\ at[p].pc = "lock"
       /\ rw[E(p)].writer = q
    \/ /\ at[p].pc = "blocked"
       /\ p \notin rw[E(p)].readers
       /\ rw[E(p)].writer = q
    \/ /\ at[p].pc = "drain"
       /\ q \in rw[E(p)].readers

(* Callers never wait for each other in a circle, readers that queue        *)
(* behind a waiting writer included.                                        *)
NoCircularWait ==
    \A D \in (SUBSET Proc) \ {{}} : \E p \in D : \A q \in D : ~WaitsFor(p, q)

(* Every plan takes its locks in the order of Rank. *)
TakenInOrder ==
    /\ \E n \in Nat : Rank \in [Key -> 0..n]
    /\ \A s \in Plans : \A i, j \in 1..Len(s) : i < j => Rank[s[i].key] < Rank[s[j].key]

=============================================================================
