------------------------- MODULE StorageServiceProofs -------------------------
(***************************************************************************)
(* The safety properties of StorageService for every set of names, handles *)
(* and clients, and of SFTPStore, its remote provider, for every set of    *)
(* callers and every number of broken connections and failed dials.        *)
(***************************************************************************)
EXTENDS StorageService, SFTPStore, FiniteSetTheorems, TLAPS

(* The operations that count in managedStore.active. *)
Users(h) == {c \in Client : client[c].pc = "using" /\ client[c].handle = h}

(* Only handles that were registered can be found, and a close starts only  *)
(* on a retired handle without users.                                       *)
HandleOK(h) ==
    /\ handle[h].active = Cardinality(Users(h))
    /\ handle[h].step # "open" => handle[h].active = 0
    /\ handle[h].step \notin {"open", "unused"} => handle[h].retired

Known ==
    /\ \A i \in Id : stores[i] # NoHandle => handle[stores[i]].step # "unused"
    /\ \A c \in Client : client[c].pc # "idle" =>
         client[c].handle \in Handle /\ handle[client[c].handle].step # "unused"

UseInv == TypeOK /\ Known /\ \A h \in Handle : HandleOK(h)

(* The states of a handle whose close the registry has not heard of. *)
Unfinished == {"open", "closing", "closed"}

(* The registry reaches every handle that is not closed, and so does Close  *)
(* once it has begun; the errors it has collected are those of the handles  *)
(* that told it.                                                            *)
Reached ==
    /\ \A h \in Handle : handle[h].step \in Unfinished =>
         h \in retired \/ \E i \in Id : stores[i] = h
    /\ closeErr = {h \in Handle : handle[h].failed /\ handle[h].step \in {"notified", "done"}}
    /\ \A h \in Handle : handle[h].failed => handle[h].step \in {"closed", "notified", "done"}

Closing ==
    /\ closed <=> closing.pc # "none"
    /\ closed => /\ \A i \in Id : stores[i] = NoHandle
                 /\ \A h \in Handle : handle[h].step \in Unfinished => h \in closing.all

CloseInv == UseInv /\ Reached /\ Closing /\ CloseComplete

HandleState == [step : Steps, active : Nat, retired : BOOLEAN, failed : BOOLEAN]

-----------------------------------------------------------------------------

(* A client that enters or leaves a handle changes the count by one. *)
LEMMA UsersFinite == \A h : IsFiniteSet(Users(h)) /\ Cardinality(Users(h)) \in Nat
<1> SUFFICES ASSUME NEW h PROVE IsFiniteSet(Users(h)) /\ Cardinality(Users(h)) \in Nat
  OBVIOUS
<1>1. IsFiniteSet(Users(h))
  BY StoresAssumption, FS_Subset DEF Users
<1> QED
  BY <1>1, FS_CardinalityType

(* The parts of a step that leave a handle and its users alone. *)
LEMMA HandleSame ==
  ASSUME NEW h \in Handle, HandleOK(h), handle'[h] = handle[h], Users(h)' = Users(h)
  PROVE  HandleOK(h)'
  BY DEF HandleOK

LEMMA UsersSame ==
  ASSUME client' = client, NEW h PROVE Users(h)' = Users(h)
  BY DEF Users

LEMMA UseInit == Init => UseInv
<1> SUFFICES ASSUME Init PROVE UseInv
  OBVIOUS
<1>1. PICK h0 \in Handle :
        /\ stores = [i \in Id |-> IF i = DefaultId THEN h0 ELSE NoHandle]
        /\ handle = [h \in Handle |->
                        IF h = h0 THEN NewHandle ELSE [NewHandle EXCEPT !.step = "unused"]]
  BY DEF Init
<1>2. \A h \in Handle : Users(h) = {}
  BY DEF Init, Users, Idle
<1>3. TypeOK
  <2>1. handle \in [Handle -> HandleState]
    BY <1>1 DEF NewHandle, HandleState, Steps
  <2>2. client \in [Client -> [pc : ClientPC, handle : Handle \cup {NoHandle}]]
    BY DEF Init, Idle, ClientPC
  <2>3. stores \in [Id -> Handle \cup {NoHandle}]
    BY <1>1
  <2>4. closing \in [pc : {"none", "retire", "wait", "returned"}, todo : SUBSET Handle,
                     all : SUBSET Handle, err : SUBSET Handle]
    BY DEF Init
  <2> QED
    BY <2>1, <2>2, <2>3, <2>4 DEF Init, TypeOK, HandleState
<1>4. Known
  BY <1>1, StoresAssumption DEF Init, Known, NewHandle, Idle
<1>5. \A h \in Handle : HandleOK(h)
  BY <1>1, <1>2, FS_EmptySet DEF HandleOK, NewHandle
<1> QED
  BY <1>3, <1>4, <1>5 DEF UseInv

(* What retire and release make of the fields of a handle. *)
LEMMA RetiredFacts ==
  ASSUME NEW r \in HandleState
  PROVE  /\ Retired(r) \in HandleState
         /\ Retired(r).active = r.active /\ Retired(r).failed = r.failed /\ Retired(r).retired
         /\ Retired(r).step = IF ~r.retired /\ r.active = 0 /\ r.step = "open" THEN "closing" ELSE r.step
  BY DEF Retired, HandleState, Steps

LEMMA ReleasedFacts ==
  ASSUME NEW r \in HandleState, r.active > 0
  PROVE  /\ Released(r) \in HandleState
         /\ Released(r).active = r.active - 1
         /\ Released(r).failed = r.failed /\ Released(r).retired = r.retired
         /\ Released(r).step = IF r.retired /\ r.active = 1 /\ r.step = "open" THEN "closing" ELSE r.step
<1> DEFINE st == IF r.retired /\ r.active = 1 /\ r.step = "open" THEN "closing" ELSE r.step
<1>1. Released(r) = [r EXCEPT !.active = r.active - 1, !.step = st]
  BY DEF Released
<1>2. st \in Steps /\ r.active - 1 \in Nat
  BY DEF HandleState, Steps
<1> HIDE DEF st
<1>3. QED
  BY <1>1, <1>2 DEF HandleState, st

(* A client that uses a handle is counted there, and the handle is open. *)
LEMMA UsedFacts ==
  ASSUME UseInv, NEW c \in Client, client[c].pc = "using"
  PROVE  /\ client[c].handle \in Handle
         /\ handle[client[c].handle].active > 0
         /\ handle[client[c].handle].step = "open"
<1> DEFINE h == client[c].handle
<1>1. h \in Handle
  BY DEF UseInv, Known
<1>2. c \in Users(h)
  BY DEF Users
<1>3. Cardinality(Users(h)) # 0
  BY <1>2, UsersFinite, FS_EmptySet
<1>4. HandleOK(h)
  BY <1>1 DEF UseInv
<1> QED
  BY <1>1, <1>3, <1>4, UsersFinite DEF HandleOK

LEMMA TypeStep == UseInv /\ [Next]_vars => TypeOK'
<1> SUFFICES ASSUME UseInv, [Next]_vars PROVE TypeOK'
  OBVIOUS
<1> USE DEF HandleState
<1>0. TypeOK /\ handle \in [Handle -> HandleState]
  BY DEF UseInv, TypeOK
<1>1. ASSUME NEW c \in Client, NEW i \in Id, Store(c, i) PROVE TypeOK'
  BY <1>0, <1>1 DEF Store, TypeOK, ClientPC
<1>2. ASSUME NEW i \in Id, NEW h \in Handle, RegisterStore(i, h) PROVE TypeOK'
  <2>1. handle' \in [Handle -> HandleState]
    BY <1>0, <1>2 DEF RegisterStore, NewHandle, Steps
  <2> QED
    BY <1>0, <1>2, <2>1 DEF RegisterStore, TypeOK
<1>3. ASSUME NEW i \in Id, UnregisterStore(i) PROVE TypeOK'
  BY <1>0, <1>3 DEF UnregisterStore, TypeOK
<1>4. ASSUME NEW c \in Client, Acquire(c) PROVE TypeOK'
  <2>1. client[c].handle \in Handle
    BY <1>4 DEF UseInv, Known, Acquire
  <2>2. handle' \in [Handle -> HandleState]
    BY <1>0, <1>4, <2>1 DEF Acquire
  <2>3. client' \in [Client -> [pc : ClientPC, handle : Handle \cup {NoHandle}]]
    BY <1>0, <1>4, <2>1 DEF Acquire, TypeOK, Idle, ClientPC
  <2> QED
    BY <1>0, <1>4, <2>2, <2>3 DEF Acquire, TypeOK
<1>5. ASSUME NEW c \in Client, Release(c) PROVE TypeOK'
  <2>1. client[c].handle \in Handle /\ handle[client[c].handle].active > 0
    BY <1>5, UsedFacts DEF Release
  <2>2. handle' \in [Handle -> HandleState]
    BY <1>0, <1>5, <2>1, ReleasedFacts DEF Release
  <2>3. client' \in [Client -> [pc : ClientPC, handle : Handle \cup {NoHandle}]]
    BY <1>0, <1>5 DEF Release, TypeOK, ClientPC
  <2> QED
    BY <1>0, <1>5, <2>2, <2>3 DEF Release, TypeOK
<1>6. ASSUME NEW c \in Client, CloseAgain(c) PROVE TypeOK'
  BY <1>0, <1>6 DEF CloseAgain, TypeOK, Idle, ClientPC
<1>7. ASSUME NEW h \in Handle, Retire(h) PROVE TypeOK'
  <2>1. handle' \in [Handle -> HandleState]
    BY <1>0, <1>7, RetiredFacts DEF Retire
  <2> QED
    BY <1>0, <1>7, <2>1 DEF Retire, TypeOK
<1>8. ASSUME NEW h \in Handle, CloseProvider(h) PROVE TypeOK'
  <2>1. PICK failed \in BOOLEAN : handle' = [handle EXCEPT ![h].step = "closed", ![h].failed = failed]
    BY <1>8 DEF CloseProvider
  <2>2. handle' = [handle EXCEPT ![h] = [handle[h] EXCEPT !.step = "closed", !.failed = failed]]
    BY <1>0, <2>1
  <2>3. [handle[h] EXCEPT !.step = "closed", !.failed = failed] \in HandleState
    BY <1>0 DEF Steps
  <2>4. handle' \in [Handle -> HandleState]
    BY <1>0, <2>2, <2>3
  <2> QED
    BY <1>0, <1>8, <2>4 DEF CloseProvider, TypeOK
<1>9. ASSUME NEW h \in Handle, StoreClosed(h) PROVE TypeOK'
  <2>1. handle' \in [Handle -> HandleState]
    BY <1>0, <1>9 DEF StoreClosed, Steps
  <2> QED
    BY <1>0, <1>9, <2>1 DEF StoreClosed, TypeOK
<1>10. ASSUME NEW h \in Handle, CloseDone(h) PROVE TypeOK'
  <2>1. handle' \in [Handle -> HandleState]
    BY <1>0, <1>10 DEF CloseDone, Steps
  <2> QED
    BY <1>0, <1>10, <2>1 DEF CloseDone, TypeOK
<1>11. CASE CloseBegins
  <2>1. Mounted \subseteq Handle
    BY <1>0 DEF Mounted, TypeOK
  <2> QED
    BY <1>0, <1>11, <2>1 DEF CloseBegins, TypeOK
<1>12. ASSUME NEW h \in Handle, CloseRetires(h) PROVE TypeOK'
  <2>1. handle' \in [Handle -> HandleState]
    BY <1>0, <1>12, RetiredFacts DEF CloseRetires
  <2> QED
    BY <1>0, <1>12, <2>1 DEF CloseRetires, TypeOK
<1>13. CASE CloseWaits
  BY <1>0, <1>13 DEF CloseWaits, TypeOK
<1>14. CASE CloseReturns
  BY <1>0, <1>14 DEF CloseReturns, TypeOK
<1>15. CASE UNCHANGED vars
  BY <1>0, <1>15 DEF vars, TypeOK
<1> QED
  BY <1>1, <1>2, <1>3, <1>4, <1>5, <1>6, <1>7, <1>8, <1>9, <1>10, <1>11, <1>12, <1>13, <1>14, <1>15
  DEF Next, Operation, Registry, Closer, Close

(* An operation that enters a handle, or leaves it, changes its count by one. *)
LEMMA UsersEnter ==
  ASSUME NEW c \in Client, NEW h \in Handle, c \notin Users(h), Users(h)' = Users(h) \cup {c}
  PROVE  Cardinality(Users(h))' = Cardinality(Users(h)) + 1
  BY UsersFinite, FS_AddElement

LEMMA UsersLeave ==
  ASSUME NEW c \in Client, NEW h \in Handle, c \in Users(h), Users(h)' = Users(h) \ {c}
  PROVE  Cardinality(Users(h))' = Cardinality(Users(h)) - 1
  BY UsersFinite, FS_RemoveElement

(* The steps of finishClose and of retire, which no client is part of. *)
LEMMA ClosingStep ==
  ASSUME UseInv, NEW h \in Handle, client' = client, stores' \in [Id -> Handle \cup {NoHandle}],
         \A i \in Id : stores'[i] \in {stores[i], NoHandle},
         \A g \in Handle : g # h => handle'[g] = handle[g],
         handle'[h].active = handle[h].active,
         handle[h].step = "open" => handle'[h].step = "open" \/ handle[h].active = 0,
         handle[h].step # "open" => handle'[h].step # "open",
         handle'[h].step = "unused" <=> handle[h].step = "unused",
         handle[h].retired => handle'[h].retired,
         handle'[h].step \notin {"open", "unused"} => handle'[h].retired
  PROVE  Known' /\ \A g \in Handle : HandleOK(g)'
<1>1. Known'
  <2>1. \A g \in Handle : handle'[g].step = "unused" <=> handle[g].step = "unused"
    OBVIOUS
  <2> QED
    BY <2>1 DEF Known, UseInv, TypeOK
<1>2. ASSUME NEW g \in Handle PROVE HandleOK(g)'
  <2>1. HandleOK(g) /\ Users(g)' = Users(g)
    BY <1>2, UsersSame DEF UseInv
  <2>2. CASE g # h
    BY <2>1, <2>2, HandleSame
  <2>3. CASE g = h
    BY <2>1, <2>3 DEF HandleOK
  <2> QED
    BY <2>2, <2>3
<1> QED
  BY <1>1, <1>2

LEMMA UseStep == UseInv /\ [Next]_vars => Known' /\ \A g \in Handle : HandleOK(g)'
<1> SUFFICES ASSUME UseInv, [Next]_vars PROVE Known' /\ \A g \in Handle : HandleOK(g)'
  OBVIOUS
<1> DEFINE Goal == Known' /\ \A g \in Handle : HandleOK(g)'
<1>0. /\ TypeOK /\ Known /\ \A h \in Handle : HandleOK(h)
      /\ handle \in [Handle -> HandleState]
  BY DEF UseInv, TypeOK, HandleState
<1>a. TypeOK'
  BY TypeStep
<1>1. ASSUME NEW c \in Client, NEW i \in Id, Store(c, i) PROVE Goal
  <2>1. \A g \in Handle : Users(g)' = Users(g)
    BY <1>0, <1>1 DEF Users, Store, TypeOK
  <2>2. Known'
    BY <1>0, <1>1 DEF Known, Store, TypeOK
  <2> QED
    BY <1>0, <1>1, <2>1, <2>2, HandleSame DEF Store
<1>2. ASSUME NEW i \in Id, NEW h \in Handle, RegisterStore(i, h) PROVE Goal
  <2>1. \A g \in Handle : Users(g)' = Users(g)
    BY <1>2, UsersSame DEF RegisterStore
  <2>2. handle' = [handle EXCEPT ![h] = NewHandle] /\ handle[h].step = "unused"
    BY <1>2 DEF RegisterStore
  <2>3. Known'
    BY <1>0, <1>2, <2>2 DEF Known, RegisterStore, TypeOK, NewHandle
  <2>4. HandleOK(h)'
    BY <1>0, <2>1, <2>2 DEF HandleOK, NewHandle
  <2>5. ASSUME NEW g \in Handle, g # h PROVE HandleOK(g)'
    BY <1>0, <2>1, <2>2, <2>5, HandleSame
  <2> QED
    BY <2>3, <2>4, <2>5
<1>3. ASSUME NEW i \in Id, UnregisterStore(i) PROVE Goal
  <2>1. \A g \in Handle : Users(g)' = Users(g)
    BY <1>3, UsersSame DEF UnregisterStore
  <2>2. Known'
    BY <1>0, <1>3 DEF Known, UnregisterStore, TypeOK
  <2> QED
    BY <1>0, <1>3, <2>1, <2>2, HandleSame DEF UnregisterStore
<1>4. ASSUME NEW c \in Client, Acquire(c) PROVE Goal
  <2>1. PICK h \in Handle : client[c].handle = h /\ handle[h].step # "unused" /\ client[c].pc = "resolved"
    BY <1>0, <1>4 DEF Known, Acquire
  <2>2. CASE handle[h].retired
    <3>1. client' = [client EXCEPT ![c] = Idle] /\ handle' = handle /\ stores' = stores
      BY <1>4, <2>1, <2>2 DEF Acquire
    <3>2. \A g \in Handle : Users(g)' = Users(g)
      BY <1>0, <2>1, <3>1 DEF Users, TypeOK, Idle
    <3>3. Known'
      BY <1>0, <3>1 DEF Known, TypeOK, Idle
    <3> QED
      BY <1>0, <3>1, <3>2, <3>3, HandleSame
  <2>3. CASE ~handle[h].retired
    <3>1. /\ client' = [client EXCEPT ![c].pc = "using"] /\ stores' = stores
          /\ handle' = [handle EXCEPT ![h].active = @ + 1]
      BY <1>4, <2>1, <2>3 DEF Acquire
    <3>2. handle[h].step = "open"
      BY <1>0, <2>1, <2>3 DEF HandleOK
    <3>3. Known'
      BY <1>0, <2>1, <3>1 DEF Known, TypeOK
    <3>4. HandleOK(h)'
      <4>1. c \notin Users(h) /\ Users(h)' = Users(h) \cup {c}
        BY <1>0, <2>1, <3>1 DEF Users, TypeOK
      <4>2. handle'[h].active = handle[h].active + 1 /\ handle'[h].step = "open"
        BY <1>0, <3>1, <3>2 DEF HandleState
      <4> QED
        BY <1>0, <4>1, <4>2, UsersEnter DEF HandleOK
    <3>5. ASSUME NEW g \in Handle, g # h PROVE HandleOK(g)'
      <4>1. Users(g)' = Users(g)
        BY <1>0, <2>1, <3>1, <3>5 DEF Users, TypeOK
      <4> QED
        BY <1>0, <3>1, <3>5, <4>1, HandleSame
    <3> QED
      BY <3>3, <3>4, <3>5
  <2> QED
    BY <2>2, <2>3
<1>5. ASSUME NEW c \in Client, Release(c) PROVE Goal
  <2>1. PICK h \in Handle : /\ client[c].handle = h /\ client[c].pc = "using"
                            /\ handle[h].active > 0 /\ handle[h].step = "open"
    BY <1>5, UsedFacts DEF Release
  <2>2. /\ client' = [client EXCEPT ![c].pc = "released"] /\ stores' = stores
        /\ handle' = [handle EXCEPT ![h] = Released(handle[h])]
    BY <1>5, <2>1 DEF Release
  <2>3. handle'[h] = Released(handle[h])
    BY <1>0, <2>2
  <2>4. handle'[h].step # "unused"
    BY <1>0, <2>1, <2>3, ReleasedFacts
  <2>5. Known'
    BY <1>0, <2>1, <2>2, <2>4 DEF Known, TypeOK
  <2>6. HandleOK(h)'
    <3>1. c \in Users(h) /\ Users(h)' = Users(h) \ {c}
      BY <1>0, <2>1, <2>2 DEF Users, TypeOK
    <3>3. handle[h] \in HandleState /\ handle[h].active = Cardinality(Users(h))
      BY <1>0 DEF HandleOK
    <3>5. handle'[h].active = handle[h].active - 1
      BY <2>1, <2>3, <3>3, ReleasedFacts
    <3>6. Cardinality(Users(h))' = Cardinality(Users(h)) - 1
      BY <3>1, UsersLeave
    <3>2. handle'[h].active = Cardinality(Users(h))'
      BY <3>3, <3>5, <3>6
    <3>4. handle'[h].step # "open" => handle'[h].active = 0 /\ handle'[h].retired
      BY <2>1, <2>3, <3>3, ReleasedFacts DEF HandleState
    <3> QED
      BY <3>2, <3>4 DEF HandleOK
  <2>7. ASSUME NEW g \in Handle, g # h PROVE HandleOK(g)'
    <3>1. Users(g)' = Users(g)
      BY <1>0, <2>1, <2>2, <2>7 DEF Users, TypeOK
    <3> QED
      BY <1>0, <2>2, <2>7, <3>1, HandleSame
  <2> QED
    BY <2>5, <2>6, <2>7
<1>6. ASSUME NEW c \in Client, CloseAgain(c) PROVE Goal
  <2>1. \A g \in Handle : Users(g)' = Users(g)
    BY <1>0, <1>6 DEF Users, CloseAgain, TypeOK, Idle
  <2>2. Known'
    BY <1>0, <1>6 DEF Known, CloseAgain, TypeOK, Idle
  <2> QED
    BY <1>0, <1>6, <2>1, <2>2, HandleSame DEF CloseAgain
<1>7. ASSUME NEW h \in Handle, handle' = [handle EXCEPT ![h] = Retired(handle[h])],
             client' = client, stores' = stores
      PROVE  Goal
  <2>1. handle'[h] = Retired(handle[h]) /\ \A g \in Handle : g # h => handle'[g] = handle[g]
    BY <1>0, <1>7
  <2>2. handle[h] \in HandleState /\ HandleOK(h)
    BY <1>0
  <2>3. /\ handle'[h].active = handle[h].active /\ handle'[h].retired
        /\ handle'[h].step = IF ~handle[h].retired /\ handle[h].active = 0 /\ handle[h].step = "open"
                             THEN "closing" ELSE handle[h].step
    BY <2>1, <2>2, RetiredFacts
  <2> QED
    BY <1>a, <1>7, <2>1, <2>3, ClosingStep DEF TypeOK
<1>8. ASSUME NEW h \in Handle, CloseProvider(h) \/ StoreClosed(h) \/ CloseDone(h) PROVE Goal
  <2>1. /\ client' = client /\ stores' = stores
        /\ \A g \in Handle : g # h => handle'[g] = handle[g]
        /\ handle'[h].active = handle[h].active /\ handle'[h].retired = handle[h].retired
        /\ {handle[h].step, handle'[h].step} \subseteq {"closing", "closed", "notified", "done"}
    <3>1. CASE CloseProvider(h)
      <4>1. PICK failed \in BOOLEAN : handle' = [handle EXCEPT ![h].step = "closed", ![h].failed = failed]
        BY <3>1 DEF CloseProvider
      <4>2. handle' = [handle EXCEPT ![h] = [handle[h] EXCEPT !.step = "closed", !.failed = failed]]
        BY <1>0, <4>1
      <4> QED
        BY <1>0, <3>1, <4>2 DEF CloseProvider, HandleState
    <3>2. CASE StoreClosed(h)
      BY <1>0, <3>2 DEF StoreClosed, HandleState
    <3>3. CASE CloseDone(h)
      BY <1>0, <3>3 DEF CloseDone, HandleState
    <3> QED
      BY <1>8, <3>1, <3>2, <3>3
  <2>2. handle[h].retired
    BY <1>0, <2>1 DEF HandleOK
  <2> QED
    BY <1>a, <2>1, <2>2, ClosingStep DEF TypeOK
<1>9. CASE CloseBegins
  <2>1. \A g \in Handle : Users(g)' = Users(g)
    BY <1>9, UsersSame DEF CloseBegins
  <2>2. Known'
    BY <1>0, <1>9 DEF Known, CloseBegins
  <2> QED
    BY <1>0, <1>9, <2>1, <2>2, HandleSame DEF CloseBegins
<1>10. ASSUME UNCHANGED <<handle, client, stores>> PROVE Goal
  <2>1. \A g \in Handle : Users(g)' = Users(g)
    BY <1>10, UsersSame
  <2>2. Known'
    BY <1>0, <1>10 DEF Known
  <2> QED
    BY <1>0, <1>10, <2>1, <2>2, HandleSame
<1>11. ASSUME NEW h \in Handle, Retire(h) \/ CloseRetires(h) PROVE Goal
  BY <1>7, <1>11 DEF Retire, CloseRetires
<1>12. CASE CloseWaits \/ CloseReturns \/ UNCHANGED vars
  BY <1>10, <1>12 DEF CloseWaits, CloseReturns, vars
<1> QED
  BY <1>1, <1>2, <1>3, <1>4, <1>5, <1>6, <1>8, <1>9, <1>11, <1>12
  DEF Next, Operation, Registry, Closer, Close

LEMMA UseAlways == Spec => []UseInv
<1>1. UseInv /\ [Next]_vars => UseInv'
  BY TypeStep, UseStep DEF UseInv
<1> QED
  BY UseInit, <1>1, PTL DEF Spec

(* The registry, the handles and their clients keep their types: a handle's *)
(* count of users never becomes negative (managedStore.release).            *)
THEOREM StoresTypeCorrect == Spec => []TypeOK
<1>1. UseInv => TypeOK
  BY DEF UseInv
<1> QED
  BY UseAlways, <1>1, PTL

(* No provider is closed under an operation that uses it, whatever is       *)
(* replaced, unmounted or shut down meanwhile (managedStore).               *)
THEOREM OperationsDrain == Spec => []NoUseAfterClose
<1>1. UseInv => NoUseAfterClose
  BY UsedFacts DEF NoUseAfterClose
<1> QED
  BY UseAlways, <1>1, PTL

-----------------------------------------------------------------------------

(* The steps that leave the registry alone: a handle may begin its close or *)
(* end it, and nothing else changes what Close is about to report.          *)
LEMMA QuietStep ==
  ASSUME Reached, Closing, CloseComplete,
         UNCHANGED <<stores, retired, closed, closeErr>>,
         closing'.all = closing.all, closing'.err = closing.err,
         closing'.pc = "none" <=> closing.pc = "none",
         closing'.pc = "returned" => closing.pc = "returned",
         \A h \in Handle :
            /\ handle'[h].failed = handle[h].failed
            /\ \/ handle'[h].step = handle[h].step
               \/ handle[h].step = "open" /\ handle'[h].step = "closing"
               \/ handle[h].step = "notified" /\ handle'[h].step = "done"
  PROVE  Reached' /\ Closing' /\ CloseComplete'
<1>1. Reached'
  <2>1. \A h \in Handle : handle'[h].step \in Unfinished <=> handle[h].step \in Unfinished
    BY DEF Unfinished
  <2>2. \A h \in Handle : handle'[h].step \in {"notified", "done"} <=> handle[h].step \in {"notified", "done"}
    OBVIOUS
  <2>3. \A h \in Handle : handle'[h].failed => handle'[h].step \in {"closed", "notified", "done"}
    BY DEF Reached
  <2> QED
    BY <2>1, <2>2, <2>3 DEF Reached
<1>2. Closing'
  BY DEF Closing, Unfinished
<1>3. CloseComplete'
  BY DEF CloseComplete
<1> QED
  BY <1>1, <1>2, <1>3

LEMMA CloseStep == CloseInv /\ [Next]_vars => Reached' /\ Closing' /\ CloseComplete'
<1> SUFFICES ASSUME CloseInv, [Next]_vars PROVE Reached' /\ Closing' /\ CloseComplete'
  OBVIOUS
<1> DEFINE Goal == Reached' /\ Closing' /\ CloseComplete'
<1>0. /\ UseInv /\ TypeOK /\ Reached /\ Closing /\ CloseComplete
      /\ handle \in [Handle -> HandleState]
      /\ stores \in [Id -> Handle \cup {NoHandle}]
      /\ closing \in [pc : {"none", "retire", "wait", "returned"}, todo : SUBSET Handle,
                      all : SUBSET Handle, err : SUBSET Handle]
  BY DEF CloseInv, UseInv, TypeOK, HandleState
<1>1. ASSUME UNCHANGED <<stores, retired, closed, closeErr, handle, closing>> PROVE Goal
  BY <1>0, <1>1, QuietStep
<1>2. ASSUME NEW c \in Client, Acquire(c) PROVE Goal
  <2>1. client[c].handle \in Handle
    BY <1>0, <1>2 DEF UseInv, Known, Acquire
  <2>2. \A h \in Handle : handle'[h].failed = handle[h].failed /\ handle'[h].step = handle[h].step
    BY <1>0, <1>2, <2>1 DEF Acquire, HandleState
  <2> QED
    BY <1>0, <1>2, <2>2, QuietStep DEF Acquire
<1>3. ASSUME NEW c \in Client, Release(c) PROVE Goal
  <2>1. PICK g \in Handle : client[c].handle = g /\ handle[g].active > 0
    BY <1>0, <1>3, UsedFacts DEF Release
  <2>2. handle' = [handle EXCEPT ![g] = Released(handle[g])]
    BY <1>3, <2>1 DEF Release
  <2>3. handle'[g].failed = handle[g].failed /\
        (handle'[g].step = handle[g].step \/ (handle[g].step = "open" /\ handle'[g].step = "closing"))
    BY <1>0, <2>1, <2>2, ReleasedFacts
  <2> QED
    BY <1>0, <1>3, <2>2, <2>3, QuietStep DEF Release
<1>4. ASSUME NEW g \in Handle, Retire(g) \/ CloseRetires(g) PROVE Goal
  <2>1. handle' = [handle EXCEPT ![g] = Retired(handle[g])]
    BY <1>4 DEF Retire, CloseRetires
  <2>2. handle'[g].failed = handle[g].failed /\
        (handle'[g].step = handle[g].step \/ (handle[g].step = "open" /\ handle'[g].step = "closing"))
    BY <1>0, <2>1, RetiredFacts
  <2>3. /\ closing'.all = closing.all /\ closing'.err = closing.err /\ closing'.pc = closing.pc
        /\ UNCHANGED <<stores, retired, closed, closeErr>>
    BY <1>0, <1>4 DEF Retire, CloseRetires
  <2> QED
    BY <1>0, <2>1, <2>2, <2>3, QuietStep
<1>5. ASSUME NEW g \in Handle, CloseDone(g) PROVE Goal
  <2>1. \A h \in Handle : /\ handle'[h].failed = handle[h].failed
                          /\ handle'[h].step = IF h = g THEN "done" ELSE handle[h].step
    BY <1>0, <1>5 DEF CloseDone, HandleState
  <2> QED
    BY <1>0, <1>5, <2>1, QuietStep DEF CloseDone
<1>6. CASE CloseWaits
  <2>1. closing'.all = closing.all /\ closing'.err = closing.err /\ closing'.pc = "wait" /\ closing.pc = "retire"
    BY <1>0, <1>6 DEF CloseWaits
  <2> QED
    BY <1>0, <1>6, <2>1, QuietStep DEF CloseWaits
<1>7. ASSUME NEW i \in Id, NEW g \in Handle, RegisterStore(i, g) PROVE Goal
  <2>1. /\ ~closed /\ closing.pc = "none" /\ closing' = closing /\ closed' = closed
        /\ handle[g].step = "unused" /\ ~handle[g].failed
    BY <1>0, <1>7 DEF RegisterStore, Closing, Reached, HandleState
  <2>2. /\ handle'[g].step = "open" /\ handle'[g].failed = FALSE
        /\ \A h \in Handle : h # g => handle'[h] = handle[h]
    BY <1>0, <1>7 DEF RegisterStore, NewHandle
  <2>3. \A h \in Handle : handle'[h].step \in Unfinished =>
          h \in retired' \/ \E j \in Id : stores'[j] = h
    <3>1. SUFFICES ASSUME NEW h \in Handle, handle'[h].step \in Unfinished
                   PROVE  h \in retired' \/ \E j \in Id : stores'[j] = h
      OBVIOUS
    <3>2. CASE h = g
      BY <1>0, <1>7, <3>2 DEF RegisterStore
    <3>3. CASE h # g
      <4>1. h \in retired \/ \E j \in Id : stores[j] = h
        BY <1>0, <2>2, <3>1, <3>3 DEF Reached
      <4>2. \A j \in Id : j # i => stores'[j] = stores[j]
        BY <1>0, <1>7 DEF RegisterStore
      <4>3. stores[i] = h => h \in retired'
        BY <1>7, StoresAssumption DEF RegisterStore
      <4>4. h \in retired => h \in retired'
        BY <1>7 DEF RegisterStore
      <4> QED
        BY <4>1, <4>2, <4>3, <4>4
    <3> QED
      BY <3>2, <3>3
  <2>4. closeErr' = closeErr
    BY <1>7 DEF RegisterStore
  <2>5. Reached'
    BY <1>0, <2>1, <2>2, <2>3, <2>4 DEF Reached
  <2> QED
    BY <2>1, <2>5, <1>0 DEF Closing, CloseComplete
<1>8. ASSUME NEW i \in Id, UnregisterStore(i) PROVE Goal
  <2>1. ~closed /\ closing.pc = "none" /\ UNCHANGED <<closing, closed, closeErr, handle>>
    BY <1>0, <1>8 DEF UnregisterStore, Closing
  <2>2. \A h \in Handle : h \in retired \/ (\E j \in Id : stores[j] = h) =>
                          h \in retired' \/ (\E j \in Id : stores'[j] = h)
    BY <1>0, <1>8 DEF UnregisterStore
  <2>3. Reached'
    BY <1>0, <2>1, <2>2 DEF Reached
  <2> QED
    BY <2>1, <2>3, <1>0 DEF Closing, CloseComplete
<1>9. ASSUME NEW g \in Handle, CloseProvider(g) PROVE Goal
  <2>1. UNCHANGED <<stores, retired, closed, closeErr, closing>> /\ handle[g].step = "closing"
    BY <1>9 DEF CloseProvider
  <2>2. handle'[g].step = "closed" /\ \A h \in Handle : h # g => handle'[h] = handle[h]
    <3>1. PICK failed \in BOOLEAN : handle' = [handle EXCEPT ![g].step = "closed", ![g].failed = failed]
      BY <1>9 DEF CloseProvider
    <3>2. handle' = [handle EXCEPT ![g] = [handle[g] EXCEPT !.step = "closed", !.failed = failed]]
      BY <1>0, <3>1
    <3> QED
      BY <1>0, <3>2 DEF HandleState
  <2>3. Reached'
    <3>1. closeErr = {h \in Handle : handle'[h].failed /\ handle'[h].step \in {"notified", "done"}}
      BY <1>0, <2>1, <2>2 DEF Reached
    <3> QED
      BY <1>0, <2>1, <2>2, <3>1 DEF Reached, Unfinished
  <2>4. closing.pc # "returned"
    BY <1>0, <2>1 DEF CloseComplete
  <2> QED
    BY <1>0, <2>1, <2>2, <2>3, <2>4 DEF Closing, CloseComplete, Unfinished
<1>10. ASSUME NEW g \in Handle, StoreClosed(g) PROVE Goal
  <2>1. /\ UNCHANGED <<stores, closed, closing>> /\ handle[g].step = "closed"
        /\ retired' = retired \ {g}
    BY <1>10 DEF StoreClosed
  <2>2. /\ handle'[g].step = "notified" /\ handle'[g].failed = handle[g].failed
        /\ \A h \in Handle : h # g => handle'[h] = handle[h]
    BY <1>0, <1>10 DEF StoreClosed, HandleState
  <2>3. closeErr' = {h \in Handle : handle'[h].failed /\ handle'[h].step \in {"notified", "done"}}
    BY <1>0, <1>10, <2>1, <2>2 DEF Reached, StoreClosed
  <2>4. Reached'
    BY <1>0, <2>1, <2>2, <2>3 DEF Reached, Unfinished
  <2>5. closing.pc # "returned"
    BY <1>0, <2>1 DEF CloseComplete
  <2> QED
    BY <1>0, <2>1, <2>2, <2>4, <2>5 DEF Closing, CloseComplete, Unfinished
<1>11. CASE CloseBegins
  <2>1. /\ UNCHANGED <<closeErr, handle>> /\ closed' = TRUE
        /\ stores' = [i \in Id |-> NoHandle] /\ retired' = retired \cup Mounted
    BY <1>11 DEF CloseBegins
  <2>2. closing'.pc = "retire" /\ closing'.all = retired \cup Mounted
    BY <1>0, <1>11 DEF CloseBegins
  <2>3. \A h \in Handle : handle[h].step \in Unfinished => h \in retired \cup Mounted
    BY <1>0, StoresAssumption DEF Reached, Mounted
  <2>4. Reached'
    BY <1>0, <2>1, <2>3 DEF Reached
  <2> QED
    BY <2>1, <2>2, <2>3, <2>4 DEF Closing, CloseComplete
<1>12. CASE CloseReturns
  <2>1. /\ UNCHANGED <<stores, retired, closed, closeErr, handle>> /\ closing.pc = "wait"
        /\ \A h \in closing.all : handle[h].step = "done"
    BY <1>12 DEF CloseReturns
  <2>2. closing'.pc = "returned" /\ closing'.all = closing.all /\ closing'.err = closeErr
    BY <1>0, <1>12 DEF CloseReturns
  <2>3. \A h \in Handle : handle[h].step \in {"unused", "notified", "done"}
    BY <1>0, <2>1 DEF Closing, Unfinished, HandleState, Steps
  <2>4. closeErr = {h \in Handle : handle[h].failed}
    BY <1>0, <2>3 DEF Reached
  <2> QED
    BY <1>0, <2>1, <2>2, <2>3, <2>4 DEF Reached, Closing, CloseComplete
<1>13. CASE (\E c \in Client, i \in Id : Store(c, i)) \/ (\E c \in Client : CloseAgain(c)) \/ UNCHANGED vars
  BY <1>1, <1>13 DEF Store, CloseAgain, vars
<1> QED
  BY <1>2, <1>3, <1>4, <1>5, <1>6, <1>7, <1>8, <1>9, <1>10, <1>11, <1>12, <1>13
  DEF Next, Operation, Registry, Closer, Close

(* When Service.Close returns, it has closed every provider ever mounted    *)
(* and reports exactly the close errors there were: storeClosed joins the   *)
(* error before the done channel that Close waits for is closed.            *)
THEOREM CloseReportsAll == Spec => []CloseComplete
<1>1. Init => CloseInv
  <2>1. ASSUME Init PROVE CloseInv
    <3>1. UseInv
      BY <2>1, UseInit
    <3>2. PICK h0 \in Handle :
            /\ stores = [i \in Id |-> IF i = DefaultId THEN h0 ELSE NoHandle]
            /\ handle = [h \in Handle |->
                            IF h = h0 THEN NewHandle ELSE [NewHandle EXCEPT !.step = "unused"]]
      BY <2>1 DEF Init
    <3>3. \A h \in Handle : ~handle[h].failed /\ (handle[h].step = "unused" \/ h = h0)
      BY <3>2 DEF NewHandle
    <3>4. Reached
      BY <2>1, <3>2, <3>3, StoresAssumption DEF Init, Reached, Unfinished
    <3> QED
      BY <2>1, <3>1, <3>4 DEF Init, CloseInv, Closing, CloseComplete
  <2> QED
    BY <2>1
<1>2. CloseInv /\ [Next]_vars => CloseInv'
  BY TypeStep, UseStep, CloseStep DEF CloseInv, UseInv
<1>3. CloseInv => CloseComplete
  BY DEF CloseInv
<1> QED
  BY <1>1, <1>2, <1>3, PTL DEF Spec

-----------------------------------------------------------------------------
(* The SFTP provider: its inductive invariant.                             *)

(* At most one caller dials, for the newest generation, and only while the *)
(* store has no connection.                                                *)
OneDialer ==
    /\ \A u \in Caller : call[u].step = "dial" =>
          dialing /\ call[u].conn = generation /\ generation \notin established /\ generation # 0
    /\ \A u, v \in Caller : call[u].step = "dial" /\ call[v].step = "dial" => u = v
    /\ dialing => connection = 0
    /\ \A g \in established : g <= generation

(* Whoever names a connection names one that was dialed. *)
Holding == {"use", "reading", "upload", "publish", "invalidate", "close"}

NamesDialed ==
    /\ \A u \in Caller : call[u].step \in Holding => call[u].conn \in established
    /\ connection # 0 => connection \in established
    /\ closer # 0 => closer \in established /\ shut
    /\ \A g \in Generations : keeper[g] # "none" => g \in established

(* Until the store is closed a connection is given up only because it      *)
(* broke, so every generation but the one in use has cost a fault.         *)
Spare == dialing \/ (connection # 0 /\ connection \notin broken)

GenerationsPaid ==
    /\ generation <= sftpFaults + 1
    /\ \A g \in Generations : keeper[g] = "closes" => g \in broken
    /\ ~shut =>
         /\ ended \subseteq broken
         /\ \A u \in Caller : call[u].step \in {"invalidate", "close"} => call[u].conn \in broken
         /\ Spare \/ generation <= sftpFaults

(* What is about to be renamed over the object is complete. *)
UploadsWhole ==
    /\ \A u \in Caller : call[u].step = "publish" => temporary[u] = "whole"
    /\ ObjectWhole

SFTPInv ==
    SFTPTypeOK /\ OneDialer /\ NamesDialed /\ GenerationsPaid /\ ConnectionsOwned /\ UploadsWhole

CallRow == [step : CallSteps, op : Operations, conn : Generations \cup {0}, again : BOOLEAN]

-----------------------------------------------------------------------------
(* What a step does to the call of one goroutine.                          *)

LEMMA StepNames ==
    {"idle", "get", "dial", "use", "reading", "upload", "publish", "invalidate", "close"} \subseteq CallSteps
BY DEF CallSteps

(* A call goes to another step, with or without its connection. *)
CallAt(c, s, g) ==
    /\ call' \in [Caller -> CallRow]
    /\ call'[c].step = s /\ call'[c].conn = g
    /\ \A u \in Caller : u # c => call'[u] = call[u]

LEMMA GoesEffect ==
    ASSUME call \in [Caller -> CallRow], NEW c \in Caller, NEW s \in CallSteps, Goes(c, s)
    PROVE  CallAt(c, s, call[c].conn)
<1>1. call' = [call EXCEPT ![c] = [call[c] EXCEPT !.step = s]]
  BY DEF Goes
<1>2. /\ [call[c] EXCEPT !.step = s] \in CallRow
      /\ [call[c] EXCEPT !.step = s].step = s /\ [call[c] EXCEPT !.step = s].conn = call[c].conn
  BY DEF CallRow
<1> QED
  BY <1>1, <1>2 DEF CallAt

LEMMA ReturnsEffect ==
    ASSUME call \in [Caller -> CallRow], NEW c \in Caller, Returns(c)
    PROVE  CallAt(c, "idle", 0)
<1>1. NoCall \in CallRow
  BY DEF NoCall, CallRow, CallSteps, Operations
<1>2. NoCall.step = "idle" /\ NoCall.conn = 0
  BY DEF NoCall
<1> QED
  BY <1>1, <1>2 DEF Returns, CallAt

LEMMA SFTPTypeParts ==
    SFTPTypeOK <=>
    /\ connection \in Generations \cup {0} /\ closer \in Generations \cup {0}
    /\ dialing \in BOOLEAN /\ retryAt \in BOOLEAN /\ shut \in BOOLEAN
    /\ generation \in Generations \cup {0}
    /\ established \subseteq Generations /\ broken \subseteq established
    /\ ended \subseteq established
    /\ keeper \in [Generations -> {"none", "runs", "closes"}]
    /\ call \in [Caller -> CallRow]
    /\ temporary \in [Caller -> {"none", "part", "whole"}]
    /\ object \in {"none", "part", "whole"}
    /\ sftpFaults \in 0..MaxSFTPFaults
BY DEF SFTPTypeOK, CallRow

LEMMA GenerationNames ==
    /\ Generations \subseteq Nat /\ 0 \notin Generations
    /\ \A n \in Nat : n < MaxSFTPFaults + 1 => n + 1 \in Generations
    /\ \A n \in 0..MaxSFTPFaults : n < MaxSFTPFaults => n + 1 \in 0..MaxSFTPFaults
BY SFTPAssumption DEF Generations

-----------------------------------------------------------------------------
(* Steps of one call that leave the connections alone.                     *)

LEMMA CallMoves ==
    ASSUME SFTPInv, NEW c \in Caller, NEW s, NEW g, CallAt(c, s, g),
           UNCHANGED sftpConnections,
           temporary' \in [Caller -> {"none", "part", "whole"}],
           \A u \in Caller : u # c => temporary'[u] = temporary[u],
           object' \in {object, "none", "whole"},
           s # "dial",
           call[c].step \notin {"invalidate", "close"},
           s \in Holding => g \in established,
           s \in {"invalidate", "close"} /\ ~shut => g \in broken,
           s = "publish" => temporary'[c] = "whole"
    PROVE  SFTPInv'
<1>1. SFTPTypeOK'
  <2>1. object' \in {"none", "part", "whole"}
    BY SFTPTypeParts DEF SFTPInv
  <2> QED
    BY <2>1, SFTPTypeParts DEF SFTPInv, SFTPTypeOK, CallAt, CallRow, sftpConnections
<1>2. OneDialer'
  BY DEF SFTPInv, OneDialer, CallAt, sftpConnections
<1>3. NamesDialed'
  BY DEF SFTPInv, NamesDialed, CallAt, sftpConnections
<1>4. GenerationsPaid'
  BY DEF SFTPInv, GenerationsPaid, Spare, CallAt, sftpConnections
<1>5. ConnectionsOwned'
  <2>1. UNCHANGED <<connection, shut, established, ended, keeper, closer>>
    BY DEF sftpConnections
  <2>2. \A h : InHand(h) => InHand(h)'
    BY <2>1 DEF InHand, CallAt
  <2> QED
    BY <2>1, <2>2 DEF SFTPInv, ConnectionsOwned
<1>6. UploadsWhole'
  BY DEF SFTPInv, UploadsWhole, ObjectWhole, CallAt
<1> QED
  BY <1>1, <1>2, <1>3, <1>4, <1>5, <1>6 DEF SFTPInv

(* A call that holds a connection uses one that was dialed; until the      *)
(* store is closed, one that is not up is broken.                          *)
LEMMA CallHolds ==
    ASSUME SFTPInv, NEW c \in Caller, call[c].step \in Holding
    PROVE  /\ call[c].conn \in established
           /\ ~shut /\ ~Up(call[c].conn) => call[c].conn \in broken
BY DEF SFTPInv, NamesDialed, GenerationsPaid, Up

LEMMA OperationSteps ==
    ASSUME SFTPInv, NEW c \in Caller,
           \/ RequestFails(c) \/ Open(c) \/ BodyClosed(c) \/ Delete(c)
           \/ PutTemporary(c) \/ PutUpload(c) \/ PublishSFTPObject(c)
    PROVE  SFTPInv'
<1>0. /\ call \in [Caller -> CallRow] /\ temporary \in [Caller -> {"none", "part", "whole"}]
      /\ call[c] \in CallRow
  BY SFTPTypeParts DEF SFTPInv
<1>s. {"idle", "get", "dial", "use", "reading", "upload", "publish", "invalidate", "close"} \subseteq CallSteps
  BY StepNames
<1>h. Holding = {"use", "reading", "upload", "publish", "invalidate", "close"}
  BY DEF Holding
<1>r. ASSUME Returns(c), UNCHANGED sftpConnections, call[c].step \notin {"invalidate", "close"},
             temporary' \in [Caller -> {"none", "part", "whole"}],
             \A u \in Caller : u # c => temporary'[u] = temporary[u],
             object' \in {object, "none", "whole"}
      PROVE  SFTPInv'
  BY <1>0, <1>h, <1>r, ReturnsEffect, CallMoves
<1>t. \A x \in {"none", "part", "whole"} :
        LET t == [temporary EXCEPT ![c] = x] IN
            /\ t \in [Caller -> {"none", "part", "whole"}] /\ t[c] = x
            /\ \A u \in Caller : u # c => t[u] = temporary[u]
  BY <1>0
<1>1. CASE RequestFails(c)
  <2> DEFINE b == call[c].again /\ call[c].step = "use"
             r == [call[c] EXCEPT !.step = "invalidate", !.again = b]
  <2>1. r \in CallRow /\ r.step = "invalidate" /\ r.conn = call[c].conn
    BY <1>0 DEF CallRow, CallSteps
  <2>2. call' = [call EXCEPT ![c] = r]
    BY <1>1 DEF RequestFails
  <2> HIDE DEF r
  <2>3. CallAt(c, "invalidate", call[c].conn)
    BY <1>0, <2>1, <2>2 DEF CallAt
  <2>4. /\ call[c].step \in Holding \ {"invalidate", "close"} /\ ~Up(call[c].conn)
        /\ UNCHANGED <<sftpConnections, sftpFiles>>
    BY <1>1, <1>h DEF RequestFails
  <2> QED
    BY <1>0, <2>3, <2>4, CallHolds, CallMoves DEF sftpFiles
<1>2. CASE Open(c)
  <2>1. CASE Returns(c)
    BY <1>0, <1>2, <1>r, <2>1 DEF Open, sftpFiles
  <2>2. CASE Goes(c, "reading")
    <3>1. CallAt(c, "reading", call[c].conn)
      BY <1>0, <1>s, <2>2, GoesEffect
    <3> QED
      BY <1>0, <1>2, <1>h, <3>1, CallHolds, CallMoves DEF Open, sftpFiles
  <2> QED
    BY <1>2, <2>1, <2>2 DEF Open
<1>3. CASE BodyClosed(c)
  BY <1>0, <1>3, <1>r DEF BodyClosed, sftpFiles
<1>4. CASE Delete(c)
  BY <1>0, <1>4, <1>r DEF Delete
<1>5. CASE PutTemporary(c)
  <2>1. CASE Returns(c) /\ UNCHANGED temporary
    BY <1>0, <1>5, <1>r, <2>1 DEF PutTemporary
  <2>2. CASE temporary' = [temporary EXCEPT ![c] = "part"] /\ Goes(c, "upload")
    <3>1. CallAt(c, "upload", call[c].conn)
      BY <1>0, <1>s, <2>2, GoesEffect
    <3> QED
      BY <1>0, <1>5, <1>h, <1>t, <2>2, <3>1, CallHolds, CallMoves DEF PutTemporary
  <2> QED
    BY <1>5, <2>1, <2>2 DEF PutTemporary
<1>6. CASE PutUpload(c)
  <2>1. CASE PutFails(c)
    BY <1>0, <1>6, <1>r, <1>t, <2>1 DEF PutUpload, PutFails
  <2>2. CASE temporary' = [temporary EXCEPT ![c] = "whole"] /\ Goes(c, "publish")
    <3>1. CallAt(c, "publish", call[c].conn)
      BY <1>0, <1>s, <2>2, GoesEffect
    <3> QED
      BY <1>0, <1>6, <1>h, <1>t, <2>2, <3>1, CallHolds, CallMoves DEF PutUpload
  <2> QED
    BY <1>6, <2>1, <2>2 DEF PutUpload
<1>7. CASE PublishSFTPObject(c)
  <2>1. temporary[c] = "whole" /\ UNCHANGED sftpConnections /\ call[c].step = "publish"
    BY <1>7 DEF PublishSFTPObject, SFTPInv, UploadsWhole
  <2>2. CASE PutFails(c) /\ UNCHANGED object
    BY <1>r, <1>t, <2>1, <2>2 DEF PutFails
  <2>3. CASE object' = temporary[c] /\ temporary' = [temporary EXCEPT ![c] = "none"] /\ Returns(c)
    BY <1>r, <1>t, <2>1, <2>3
  <2> QED
    BY <1>7, <2>2, <2>3 DEF PublishSFTPObject
<1> QED
  BY <1>1, <1>2, <1>3, <1>4, <1>5, <1>6, <1>7

LEMMA GetSteps ==
    ASSUME SFTPInv, NEW c \in Caller,
           (\E op \in Operations : SFTPBegin(c, op)) \/ GetCanceled(c) \/ GetConnection(c)
    PROVE  SFTPInv'
<1>0. /\ call \in [Caller -> CallRow] /\ temporary \in [Caller -> {"none", "part", "whole"}]
      /\ call[c] \in CallRow /\ SFTPTypeOK
      /\ connection \in Generations \cup {0} /\ generation \in Generations \cup {0}
      /\ sftpFaults \in 0..MaxSFTPFaults /\ 0 \in Generations \cup {0}
  BY SFTPTypeParts DEF SFTPInv
<1>h. Holding = {"use", "reading", "upload", "publish", "invalidate", "close"}
  BY DEF Holding
<1>1. ASSUME NEW op \in Operations, SFTPBegin(c, op) PROVE SFTPInv'
  <2> DEFINE r == [step |-> "get", op |-> op, conn |-> 0, again |-> op \in TriedTwice]
  <2>1. r \in CallRow /\ r.step = "get" /\ r.conn = 0
    BY DEF CallRow, CallSteps
  <2>2. call' = [call EXCEPT ![c] = r] /\ UNCHANGED <<sftpConnections, sftpFiles>> /\ call[c].step = "idle"
    BY <1>1 DEF SFTPBegin, sftpConnections
  <2> HIDE DEF r
  <2>3. CallAt(c, "get", 0)
    BY <1>0, <2>1, <2>2 DEF CallAt
  <2> QED
    BY <1>0, <1>h, <2>2, <2>3, CallMoves DEF sftpFiles
<1>r. ASSUME Returns(c), UNCHANGED <<sftpConnections, sftpFiles>>, call[c].step = "get"
      PROVE  SFTPInv'
  BY <1>0, <1>h, <1>r, ReturnsEffect, CallMoves DEF sftpFiles
<1>2. CASE GetCanceled(c)
  BY <1>2, <1>r DEF GetCanceled, sftpConnections
<1>3. CASE GetConnection(c)
  <2>1. /\ call[c].step = "get"
        /\ UNCHANGED <<connection, retryAt, shut, established, broken, ended, keeper, closer,
                       sftpFiles, sftpFaults>>
    BY <1>3 DEF GetConnection
  <2>2. CASE shut /\ Returns(c) /\ UNCHANGED <<dialing, generation>>
    BY <1>r, <2>1, <2>2 DEF sftpConnections
  <2>3. CASE /\ ~shut /\ connection # 0
             /\ call' = [call EXCEPT ![c].step = "use", ![c].conn = connection]
             /\ UNCHANGED <<dialing, generation>>
    <3> DEFINE r == [call[c] EXCEPT !.step = "use", !.conn = connection]
    <3>1. r \in CallRow /\ r.step = "use" /\ r.conn = connection
      BY <1>0 DEF CallRow, CallSteps
    <3>2. call' = [call EXCEPT ![c] = r]
      BY <2>3
    <3> HIDE DEF r
    <3>3. CallAt(c, "use", connection)
      BY <1>0, <3>1, <3>2 DEF CallAt
    <3>4. connection \in established
      BY <2>3 DEF SFTPInv, NamesDialed
    <3> QED
      BY <1>0, <2>1, <2>3, <3>3, <3>4, CallMoves DEF sftpFiles, sftpConnections
  <2>4. CASE /\ ~shut /\ connection = 0 /\ ~dialing /\ ~retryAt
             /\ dialing' = TRUE
             /\ generation' = generation + 1
             /\ call' = [call EXCEPT ![c].step = "dial", ![c].conn = generation + 1]
    <3>1. generation <= sftpFaults
      BY <2>4 DEF SFTPInv, GenerationsPaid, Spare
    <3>2. generation \in Nat /\ generation + 1 \in Generations /\ generation + 1 \in Generations \cup {0}
      BY <1>0, <3>1, SFTPAssumption DEF Generations
    <3> DEFINE r == [call[c] EXCEPT !.step = "dial", !.conn = generation + 1]
    <3>3. r \in CallRow /\ r.step = "dial" /\ r.conn = generation + 1
      BY <1>0, <3>2 DEF CallRow, CallSteps
    <3>4. call' = [call EXCEPT ![c] = r]
      BY <2>4
    <3> HIDE DEF r
    <3>5. CallAt(c, "dial", generation + 1)
      BY <1>0, <3>3, <3>4 DEF CallAt
    <3>6. SFTPTypeOK'
      BY <1>0, <2>1, <2>4, <3>2, <3>5 DEF SFTPTypeOK, CallAt, CallRow, sftpFiles
    <3>7. established \subseteq Nat /\ \A g \in established : g <= generation
      BY <1>0 DEF SFTPInv, OneDialer, SFTPTypeOK, Generations
    <3>8. OneDialer'
      <4>1. \A u \in Caller : call[u].step # "dial"
        BY <2>4 DEF SFTPInv, OneDialer
      <4>2. generation + 1 \notin established /\ \A g \in established : g <= generation + 1
        BY <3>2, <3>7
      <4> QED
        BY <2>1, <2>4, <3>2, <3>5, <4>1, <4>2 DEF OneDialer, CallAt
    <3>9. NamesDialed'
      BY <1>h, <2>1, <3>5 DEF SFTPInv, NamesDialed, CallAt
    <3>10. GenerationsPaid'
      <4>1. generation + 1 <= sftpFaults + 1
        BY <1>0, <3>1, <3>2
      <4> QED
        BY <2>1, <2>4, <3>5, <4>1 DEF SFTPInv, GenerationsPaid, Spare, CallAt
    <3>11. ConnectionsOwned'
      <4>1. \A h : InHand(h) => InHand(h)'
        BY <2>1, <3>5 DEF InHand, CallAt
      <4> QED
        BY <2>1, <4>1 DEF SFTPInv, ConnectionsOwned
    <3>12. UploadsWhole'
      BY <2>1, <3>5 DEF SFTPInv, UploadsWhole, ObjectWhole, CallAt, sftpFiles
    <3> QED
      BY <3>6, <3>8, <3>9, <3>10, <3>11, <3>12 DEF SFTPInv
  <2> QED
    BY <1>3, <2>2, <2>3, <2>4 DEF GetConnection
<1> QED
  BY <1>1, <1>2, <1>3

-----------------------------------------------------------------------------
(* Steps that dial, break, invalidate and close connections.               *)

LEMMA DialSteps ==
    ASSUME SFTPInv, NEW c \in Caller, Dialed(c) \/ DialFails(c)
    PROVE  SFTPInv'
<1>0. /\ call \in [Caller -> CallRow] /\ call[c] \in CallRow /\ SFTPTypeOK
      /\ sftpFaults \in 0..MaxSFTPFaults /\ generation \in Nat
  <2>1. SFTPTypeOK
    BY DEF SFTPInv
  <2>2. call \in [Caller -> CallRow] /\ sftpFaults \in 0..MaxSFTPFaults /\ generation \in Generations \cup {0}
    BY <2>1, SFTPTypeParts
  <2> QED
    BY <2>1, <2>2, GenerationNames
<1>h. Holding = {"use", "reading", "upload", "publish", "invalidate", "close"}
  BY DEF Holding
<1> DEFINE g == call[c].conn
<1>1. /\ call[c].step = "dial" /\ dialing /\ connection = 0 /\ g = generation
      /\ generation \notin established /\ generation # 0
      /\ \A u \in Caller : u # c => call[u].step # "dial"
  BY DEF Dialed, DialFails, SFTPInv, OneDialer
<1>2. generation \in Generations /\ generation \notin broken /\ generation <= sftpFaults + 1
  BY <1>0, <1>1 DEF SFTPTypeOK, SFTPInv, GenerationsPaid
<1>3. CASE Dialed(c) /\ shut
  <2> DEFINE r == [call[c] EXCEPT !.step = "close", !.again = FALSE]
  <2>1. r \in CallRow /\ r.step = "close" /\ r.conn = generation
    BY <1>0, <1>1 DEF CallRow, CallSteps
  <2>2. call' = [call EXCEPT ![c] = r]
    BY <1>3 DEF Dialed
  <2> HIDE DEF r
  <2>3. CallAt(c, "close", generation)
    BY <1>0, <2>1, <2>2 DEF CallAt
  <2>4. /\ dialing' = FALSE /\ established' = established \cup {generation}
        /\ UNCHANGED <<connection, retryAt, keeper, shut, generation, broken, ended, closer,
                       temporary, object, sftpFaults>>
    BY <1>1, <1>3 DEF Dialed, sftpFiles
  <2>5. SFTPTypeOK'
    BY <1>0, <1>2, <2>3, <2>4 DEF SFTPTypeOK, CallAt, CallRow
  <2>6. OneDialer'
    BY <1>0, <1>1, <2>3, <2>4 DEF SFTPInv, OneDialer, CallAt
  <2>7. NamesDialed'
    BY <2>3, <2>4 DEF SFTPInv, NamesDialed, CallAt
  <2>8. GenerationsPaid'
    BY <1>3, <2>3, <2>4 DEF SFTPInv, GenerationsPaid, CallAt
  <2>9. ConnectionsOwned'
    <3>1. \A h : InHand(h) => InHand(h)'
      BY <1>1, <2>3, <2>4 DEF InHand, CallAt
    <3>2. \A h : h = generation => InHand(h)'
      BY <2>3 DEF InHand, CallAt
    <3> QED
      BY <2>4, <3>1, <3>2 DEF SFTPInv, ConnectionsOwned
  <2>10. UploadsWhole'
    BY <2>3, <2>4 DEF SFTPInv, UploadsWhole, ObjectWhole, CallAt
  <2> QED
    BY <2>5, <2>6, <2>7, <2>8, <2>9, <2>10 DEF SFTPInv
<1>4. CASE Dialed(c) /\ ~shut
  <2>1. /\ Goes(c, "use")
        /\ dialing' = FALSE /\ established' = established \cup {generation}
        /\ connection' = generation /\ retryAt' = FALSE
        /\ keeper' = [keeper EXCEPT ![generation] = "runs"]
        /\ UNCHANGED <<shut, generation, broken, ended, closer, temporary, object, sftpFaults>>
    BY <1>1, <1>4 DEF Dialed, sftpFiles
  <2>2. CallAt(c, "use", generation)
    BY <1>0, <1>1, <2>1, GoesEffect, StepNames
  <2>3. /\ keeper' \in [Generations -> {"none", "runs", "closes"}]
        /\ \A h \in Generations : keeper'[h] = IF h = generation THEN "runs" ELSE keeper[h]
    BY <1>0, <2>1 DEF SFTPTypeOK
  <2>4. keeper[generation] = "none"
    BY <1>0, <1>1, <1>2 DEF SFTPInv, NamesDialed, SFTPTypeOK
  <2>5. SFTPTypeOK'
    <3>1. /\ established' \subseteq Generations /\ broken' \subseteq established'
          /\ ended' \subseteq established' /\ call' \in [Caller -> CallRow]
      BY <1>0, <1>2, <2>1, <2>2 DEF SFTPTypeOK, CallAt
    <3> QED
      BY <1>0, <1>2, <2>1, <2>3, <3>1 DEF SFTPTypeOK, CallRow
  <2>6. OneDialer'
    BY <1>0, <1>1, <2>1, <2>2 DEF SFTPInv, OneDialer, CallAt
  <2>7. NamesDialed'
    BY <2>1, <2>2, <2>3 DEF SFTPInv, NamesDialed, CallAt
  <2>8. GenerationsPaid'
    BY <1>2, <1>1, <2>1, <2>2, <2>3 DEF SFTPInv, GenerationsPaid, Spare, CallAt
  <2>9. ConnectionsOwned'
    <3>1. \A h \in established : InHand(h) => InHand(h)'
      BY <1>0, <1>1, <2>1, <2>2, <2>3 DEF InHand, CallAt, SFTPTypeOK
    <3> QED
      BY <1>1, <1>4, <2>1, <3>1, GenerationNames DEF SFTPInv, ConnectionsOwned, SFTPTypeOK
  <2>10. UploadsWhole'
    BY <2>1, <2>2 DEF SFTPInv, UploadsWhole, ObjectWhole, CallAt
  <2> QED
    BY <2>5, <2>6, <2>7, <2>8, <2>9, <2>10 DEF SFTPInv
<1>5. CASE DialFails(c)
  <2>1. /\ sftpFaults' = sftpFaults + 1 /\ sftpFaults < MaxSFTPFaults
        /\ dialing' = FALSE /\ retryAt' = TRUE /\ Returns(c)
        /\ UNCHANGED <<connection, shut, generation, established, broken, ended, keeper, closer,
                       temporary, object>>
    BY <1>5 DEF DialFails, sftpFiles
  <2>2. CallAt(c, "idle", 0)
    BY <1>0, <2>1, ReturnsEffect
  <2>3. sftpFaults' \in 0..MaxSFTPFaults
    BY <1>0, <2>1, GenerationNames
  <2>4. SFTPTypeOK'
    BY <1>0, <2>1, <2>2, <2>3 DEF SFTPTypeOK, CallAt, CallRow
  <2>5. OneDialer'
    BY <1>0, <1>1, <2>1, <2>2 DEF SFTPInv, OneDialer, CallAt
  <2>6. NamesDialed'
    BY <1>h, <2>1, <2>2 DEF SFTPInv, NamesDialed, CallAt
  <2>7. GenerationsPaid'
    <3>1. generation <= sftpFaults + 1 /\ generation <= (sftpFaults + 1) + 1
      BY <1>0, <1>2
    <3> QED
      BY <2>1, <2>2, <3>1 DEF SFTPInv, GenerationsPaid, CallAt
  <2>8. ConnectionsOwned'
    <3>1. \A h : InHand(h) => InHand(h)'
      BY <1>1, <2>1, <2>2 DEF InHand, CallAt
    <3> QED
      BY <2>1, <3>1 DEF SFTPInv, ConnectionsOwned
  <2>9. UploadsWhole'
    BY <2>1, <2>2 DEF SFTPInv, UploadsWhole, ObjectWhole, CallAt
  <2> QED
    BY <2>4, <2>5, <2>6, <2>7, <2>8, <2>9 DEF SFTPInv
<1> QED
  BY <1>3, <1>4, <1>5

LEMMA FaultSteps ==
    ASSUME SFTPInv,
           (\E g \in Generations : ConnectionBreaks(g)) \/ (\E c \in Caller : AnswerLost(c))
    PROVE  SFTPInv'
<1>0. /\ call \in [Caller -> CallRow] /\ SFTPTypeOK
      /\ sftpFaults \in 0..MaxSFTPFaults /\ generation \in Nat
  <2>1. SFTPTypeOK
    BY DEF SFTPInv
  <2>2. call \in [Caller -> CallRow] /\ sftpFaults \in 0..MaxSFTPFaults /\ generation \in Generations \cup {0}
    BY <2>1, SFTPTypeParts
  <2> QED
    BY <2>1, <2>2, GenerationNames
<1>h. Holding = {"use", "reading", "upload", "publish", "invalidate", "close"}
  BY DEF Holding
<1>p. generation <= sftpFaults + 1 /\ generation <= (sftpFaults + 1) + 1
  BY <1>0 DEF SFTPInv, GenerationsPaid
<1>1. ASSUME NEW g \in Generations, ConnectionBreaks(g) PROVE SFTPInv'
  <2>1. /\ sftpFaults < MaxSFTPFaults /\ sftpFaults' = sftpFaults + 1
        /\ broken' = broken \cup {g} /\ g \in established
        /\ UNCHANGED <<connection, dialing, retryAt, shut, generation, established, ended, keeper,
                       closer, call, temporary, object>>
    BY <1>1 DEF ConnectionBreaks, sftpFiles
  <2>2. sftpFaults' \in 0..MaxSFTPFaults
    BY <1>0, <2>1, GenerationNames
  <2>3. SFTPTypeOK'
    BY <1>0, <2>1, <2>2 DEF SFTPTypeOK
  <2>4. OneDialer' /\ NamesDialed' /\ UploadsWhole'
    BY <2>1 DEF SFTPInv, OneDialer, NamesDialed, UploadsWhole, ObjectWhole
  <2>5. GenerationsPaid'
    BY <1>p, <2>1 DEF SFTPInv, GenerationsPaid
  <2>6. ConnectionsOwned'
    BY <2>1 DEF SFTPInv, ConnectionsOwned, InHand
  <2> QED
    BY <2>3, <2>4, <2>5, <2>6 DEF SFTPInv
<1>2. ASSUME NEW c \in Caller, AnswerLost(c) PROVE SFTPInv'
  <2> DEFINE g == call[c].conn
  <2>1. /\ sftpFaults < MaxSFTPFaults /\ sftpFaults' = sftpFaults + 1
        /\ broken' = broken \cup {g} /\ Goes(c, "invalidate")
        /\ UNCHANGED <<connection, dialing, retryAt, shut, generation, established, ended, keeper,
                       closer>>
        /\ call[c].step \in {"use", "publish"}
    BY <1>2 DEF AnswerLost
  <2>2. CallAt(c, "invalidate", g)
    BY <1>0, <2>1, GoesEffect, StepNames
  <2>3. g \in established
    BY <1>h, <2>1, CallHolds
  <2>4. sftpFaults' \in 0..MaxSFTPFaults
    BY <1>0, <2>1, GenerationNames
  <2>5. /\ object' \in {"none", "whole"} /\ temporary' \in [Caller -> {"none", "part", "whole"}]
        /\ \A u \in Caller : u # c => temporary'[u] = temporary[u]
    BY <1>0, <1>2 DEF AnswerLost, SFTPInv, UploadsWhole, SFTPTypeOK
  <2> HIDE DEF g
  <2>6. SFTPTypeOK'
    BY <1>0, <2>1, <2>2, <2>3, <2>4, <2>5 DEF SFTPTypeOK, CallAt, CallRow
  <2>7. OneDialer'
    BY <2>1, <2>2 DEF SFTPInv, OneDialer, CallAt
  <2>8. NamesDialed'
    BY <2>1, <2>2, <2>3 DEF SFTPInv, NamesDialed, CallAt
  <2>9. GenerationsPaid'
    BY <1>p, <2>1, <2>2 DEF SFTPInv, GenerationsPaid, CallAt
  <2>10. ConnectionsOwned'
    <3>1. \A h : InHand(h) => InHand(h)'
      BY <2>1, <2>2 DEF InHand, CallAt
    <3> QED
      BY <2>1, <3>1 DEF SFTPInv, ConnectionsOwned
  <2>11. UploadsWhole'
    BY <2>2, <2>5 DEF SFTPInv, UploadsWhole, ObjectWhole, CallAt
  <2> QED
    BY <2>6, <2>7, <2>8, <2>9, <2>10, <2>11 DEF SFTPInv
<1> QED
  BY <1>1, <1>2

LEMMA GiveUpSteps ==
    ASSUME SFTPInv, NEW c \in Caller, Invalidate(c) \/ ClosesConnection(c)
    PROVE  SFTPInv'
<1>0. /\ call \in [Caller -> CallRow] /\ call[c] \in CallRow /\ SFTPTypeOK
      /\ temporary \in [Caller -> {"none", "part", "whole"}]
  BY SFTPTypeParts DEF SFTPInv
<1>h. Holding = {"use", "reading", "upload", "publish", "invalidate", "close"}
  BY DEF Holding
<1> DEFINE g == call[c].conn
<1>1. g \in established /\ (~shut => g \in broken) /\ call[c].step \in {"invalidate", "close"}
  BY <1>h, CallHolds DEF Invalidate, ClosesConnection, SFTPInv, GenerationsPaid
<1>2. CASE Invalidate(c)
  <2>1. /\ Goes(c, "close") /\ connection' = IF connection = g THEN 0 ELSE connection
        /\ UNCHANGED <<dialing, retryAt, shut, generation, established, broken, ended, keeper,
                       closer, temporary, object, sftpFaults>>
    BY <1>2 DEF Invalidate, Without, sftpFiles
  <2>2. CallAt(c, "close", g)
    BY <1>0, <2>1, GoesEffect, StepNames
  <2> HIDE DEF g
  <2>3. SFTPTypeOK'
    BY <1>0, <2>1, <2>2 DEF SFTPTypeOK, CallAt, CallRow
  <2>4. OneDialer'
    BY <2>1, <2>2 DEF SFTPInv, OneDialer, CallAt
  <2>5. NamesDialed'
    BY <1>1, <2>1, <2>2 DEF SFTPInv, NamesDialed, CallAt
  <2>6. GenerationsPaid'
    BY <1>1, <2>1, <2>2 DEF SFTPInv, GenerationsPaid, Spare, CallAt
  <2>7. ConnectionsOwned'
    <3>1. \A h : InHand(h) => InHand(h)'
      BY <1>1, <2>1, <2>2 DEF InHand, CallAt, g
    <3>2. \A h : h = g => InHand(h)'
      BY <2>2 DEF InHand, CallAt
    <3> QED
      BY <2>1, <3>1, <3>2 DEF SFTPInv, ConnectionsOwned
  <2>8. UploadsWhole'
    BY <2>1, <2>2 DEF SFTPInv, UploadsWhole, ObjectWhole, CallAt
  <2> QED
    BY <2>3, <2>4, <2>5, <2>6, <2>7, <2>8 DEF SFTPInv
<1>3. CASE ClosesConnection(c)
  <2>1. /\ ended' = ended \cup {g} /\ temporary' = [temporary EXCEPT ![c] = "none"]
        /\ UNCHANGED <<connection, dialing, retryAt, shut, generation, established, broken, keeper,
                       closer, object, sftpFaults>>
    BY <1>3 DEF ClosesConnection
  <2>2. \E s \in {"get", "idle"} : CallAt(c, s, 0)
    <3>1. CASE call[c].again
      <4> DEFINE r == [call[c] EXCEPT !.step = "get", !.conn = 0, !.again = FALSE]
      <4>1. r \in CallRow /\ r.step = "get" /\ r.conn = 0
        BY <1>0 DEF CallRow, CallSteps
      <4>2. call' = [call EXCEPT ![c] = r]
        BY <1>3, <3>1 DEF ClosesConnection
      <4> HIDE DEF r
      <4> QED
        BY <1>0, <4>1, <4>2 DEF CallAt
    <3>2. CASE ~call[c].again
      BY <1>0, <1>3, <3>2, ReturnsEffect DEF ClosesConnection
    <3> QED
      BY <3>1, <3>2
  <2>3. PICK s \in {"get", "idle"} : CallAt(c, s, 0)
    BY <2>2
  <2> HIDE DEF g
  <2>4. SFTPTypeOK'
    BY <1>0, <1>1, <2>1, <2>3 DEF SFTPTypeOK, CallAt, CallRow
  <2>5. OneDialer'
    BY <2>1, <2>3 DEF SFTPInv, OneDialer, CallAt
  <2>6. NamesDialed'
    BY <1>h, <2>1, <2>3 DEF SFTPInv, NamesDialed, CallAt
  <2>7. GenerationsPaid'
    BY <1>1, <2>1, <2>3 DEF SFTPInv, GenerationsPaid, Spare, CallAt
  <2>8. ConnectionsOwned'
    <3>1. \A h : h # g /\ InHand(h) => InHand(h)'
      BY <2>1, <2>3 DEF InHand, CallAt, g
    <3> QED
      BY <2>1, <3>1 DEF SFTPInv, ConnectionsOwned
  <2>9. UploadsWhole'
    BY <1>0, <2>1, <2>3 DEF SFTPInv, UploadsWhole, ObjectWhole, CallAt
  <2> QED
    BY <2>4, <2>5, <2>6, <2>7, <2>8, <2>9 DEF SFTPInv
<1> QED
  BY <1>2, <1>3

LEMMA StoreSteps ==
    ASSUME SFTPInv,
           \/ RetryDelayEnds \/ CloseStore \/ CloseStoreReturns
           \/ \E g \in Generations : Keepalive(g)
    PROVE  SFTPInv'
<1>0. SFTPTypeOK /\ 0 \notin Generations
  BY GenerationNames DEF SFTPInv
<1>1. CASE RetryDelayEnds
  <2>1. /\ retryAt' = FALSE
        /\ UNCHANGED <<connection, dialing, shut, generation, established, broken, ended, keeper,
                       closer, call, temporary, object, sftpFaults>>
    BY <1>1 DEF RetryDelayEnds, sftpFiles
  <2>2. SFTPTypeOK' /\ OneDialer' /\ NamesDialed'
    BY <1>0, <2>1 DEF SFTPInv, SFTPTypeOK, OneDialer, NamesDialed
  <2>3. GenerationsPaid' /\ ConnectionsOwned' /\ UploadsWhole'
    BY <2>1 DEF SFTPInv, GenerationsPaid, Spare, ConnectionsOwned, InHand, UploadsWhole, ObjectWhole
  <2> QED
    BY <2>2, <2>3 DEF SFTPInv
<1>2. CASE CloseStore
  <2>1. /\ ~shut /\ shut' = TRUE /\ closer' = connection /\ connection' = 0
        /\ UNCHANGED <<dialing, retryAt, generation, established, broken, ended, keeper, call,
                       temporary, object, sftpFaults>>
    BY <1>2 DEF CloseStore, sftpFiles
  <2>2. closer = 0
    BY <2>1 DEF SFTPInv, NamesDialed
  <2>3. SFTPTypeOK' /\ OneDialer' /\ NamesDialed' /\ GenerationsPaid' /\ UploadsWhole'
    BY <1>0, <2>1 DEF SFTPInv, SFTPTypeOK, OneDialer, NamesDialed, GenerationsPaid, UploadsWhole,
                      ObjectWhole
  <2>4. ConnectionsOwned'
    BY <1>0, <2>1, <2>2 DEF SFTPInv, ConnectionsOwned, InHand, SFTPTypeOK
  <2> QED
    BY <2>3, <2>4 DEF SFTPInv
<1>3. CASE CloseStoreReturns
  <2>1. /\ closer # 0 /\ ended' = ended \cup {closer} /\ closer' = 0
        /\ UNCHANGED <<connection, dialing, retryAt, shut, generation, established, broken, keeper,
                       call, temporary, object, sftpFaults>>
    BY <1>3 DEF CloseStoreReturns, sftpFiles
  <2>2. closer \in established /\ shut
    BY <2>1 DEF SFTPInv, NamesDialed
  <2>3. SFTPTypeOK' /\ OneDialer' /\ NamesDialed' /\ GenerationsPaid' /\ UploadsWhole'
    BY <1>0, <2>1, <2>2 DEF SFTPInv, SFTPTypeOK, OneDialer, NamesDialed, GenerationsPaid,
                            UploadsWhole, ObjectWhole
  <2>4. ConnectionsOwned'
    BY <2>1 DEF SFTPInv, ConnectionsOwned, InHand
  <2> QED
    BY <2>3, <2>4 DEF SFTPInv
<1>4. ASSUME NEW g \in Generations, Keepalive(g) PROVE SFTPInv'
  <2>1. UNCHANGED <<dialing, retryAt, shut, generation, established, broken, closer, call,
                    temporary, object, sftpFaults>>
    BY <1>4 DEF Keepalive, sftpFiles
  <2>2. keeper[g] # "none" /\ g \in established
    BY <1>4 DEF Keepalive, SFTPInv, NamesDialed
  <2>k. \A x \in {"none", "closes"} : keeper' = [keeper EXCEPT ![g] = x] =>
          /\ keeper' \in [Generations -> {"none", "runs", "closes"}]
          /\ \A h \in Generations : keeper'[h] = IF h = g THEN x ELSE keeper[h]
    BY <1>0 DEF SFTPTypeOK
  <2>3. CASE keeper[g] = "runs" /\ g \in ended /\ keeper' = [keeper EXCEPT ![g] = "none"]
             /\ UNCHANGED <<connection, ended>>
    <3>1. /\ keeper' \in [Generations -> {"none", "runs", "closes"}]
          /\ \A h \in Generations : keeper'[h] = IF h = g THEN "none" ELSE keeper[h]
      BY <2>3, <2>k
    <3>2. SFTPTypeOK' /\ OneDialer' /\ NamesDialed' /\ GenerationsPaid' /\ UploadsWhole'
      BY <1>0, <2>1, <2>3, <3>1 DEF SFTPInv, SFTPTypeOK, OneDialer, NamesDialed, GenerationsPaid,
                                    Spare, UploadsWhole, ObjectWhole
    <3>3. ConnectionsOwned'
      BY <1>0, <2>1, <2>3, <3>1 DEF SFTPInv, SFTPTypeOK, ConnectionsOwned, InHand
    <3> QED
      BY <3>2, <3>3 DEF SFTPInv
  <2>4. CASE keeper[g] = "runs" /\ g \in broken \ ended /\ connection' = Without(g)
             /\ keeper' = [keeper EXCEPT ![g] = "closes"] /\ UNCHANGED ended
    <3>1. /\ keeper' \in [Generations -> {"none", "runs", "closes"}]
          /\ \A h \in Generations : keeper'[h] = IF h = g THEN "closes" ELSE keeper[h]
      BY <2>4, <2>k
    <3>2. connection' = IF connection = g THEN 0 ELSE connection
      BY <2>4 DEF Without
    <3>3. SFTPTypeOK' /\ OneDialer' /\ NamesDialed' /\ UploadsWhole'
      BY <1>0, <2>1, <2>2, <2>4, <3>1, <3>2 DEF SFTPInv, SFTPTypeOK, OneDialer, NamesDialed,
                                                UploadsWhole, ObjectWhole
    <3>4. GenerationsPaid'
      BY <1>0, <2>1, <2>4, <3>1, <3>2 DEF SFTPInv, GenerationsPaid, Spare
    <3>5. ConnectionsOwned'
      BY <1>0, <2>1, <2>4, <3>1, <3>2 DEF SFTPInv, SFTPTypeOK, ConnectionsOwned, InHand
    <3> QED
      BY <3>3, <3>4, <3>5 DEF SFTPInv
  <2>5. CASE keeper[g] = "closes" /\ ended' = ended \cup {g}
             /\ keeper' = [keeper EXCEPT ![g] = "none"] /\ UNCHANGED connection
    <3>1. /\ keeper' \in [Generations -> {"none", "runs", "closes"}]
          /\ \A h \in Generations : keeper'[h] = IF h = g THEN "none" ELSE keeper[h]
      BY <2>5, <2>k
    <3>2. g \in broken
      BY <2>5 DEF SFTPInv, GenerationsPaid
    <3>3. SFTPTypeOK' /\ OneDialer' /\ NamesDialed' /\ GenerationsPaid' /\ UploadsWhole'
      BY <1>0, <2>1, <2>2, <2>5, <3>1, <3>2
      DEF SFTPInv, SFTPTypeOK, OneDialer, NamesDialed, GenerationsPaid, Spare, UploadsWhole, ObjectWhole
    <3>4. ConnectionsOwned'
      BY <1>0, <2>1, <2>5, <3>1 DEF SFTPInv, SFTPTypeOK, ConnectionsOwned, InHand
    <3> QED
      BY <3>3, <3>4 DEF SFTPInv
  <2> QED
    BY <1>4, <2>3, <2>4, <2>5 DEF Keepalive
<1> QED
  BY <1>1, <1>2, <1>3, <1>4

-----------------------------------------------------------------------------

LEMMA SFTPInvHolds == SFTPSpec => []SFTPInv
<1>1. ASSUME SFTPInit PROVE SFTPInv
  <2>0. 0 \in 0..MaxSFTPFaults
    BY SFTPAssumption
  <2>1. SFTPTypeOK
    BY <1>1, <2>0 DEF SFTPInit, SFTPTypeOK, NoCall, CallSteps, Operations
  <2>2. \A u \in Caller : call[u].step = "idle"
    BY <1>1 DEF SFTPInit, NoCall
  <2>3. OneDialer /\ NamesDialed /\ UploadsWhole
    BY <1>1, <2>2 DEF SFTPInit, OneDialer, NamesDialed, UploadsWhole, ObjectWhole, Holding
  <2>4. GenerationsPaid /\ ConnectionsOwned
    BY <1>1, <2>2 DEF SFTPInit, GenerationsPaid, ConnectionsOwned
  <2> QED
    BY <2>1, <2>3, <2>4 DEF SFTPInv
<1>2. SFTPInv /\ [SFTPNext]_sftpVars => SFTPInv'
  <2> SUFFICES ASSUME SFTPInv, [SFTPNext]_sftpVars PROVE SFTPInv'
    OBVIOUS
  <2>1. CASE UNCHANGED sftpVars
    BY <2>1 DEF sftpVars, SFTPInv, SFTPTypeOK, OneDialer, NamesDialed, GenerationsPaid, Spare,
                ConnectionsOwned, InHand, UploadsWhole, ObjectWhole
  <2>2. ASSUME NEW c \in Caller,
               (\E op \in Operations : SFTPBegin(c, op)) \/ GetCanceled(c) \/ CallGoesOn(c) \/ AnswerLost(c)
        PROVE  SFTPInv'
    BY <2>2, OperationSteps, GetSteps, DialSteps, FaultSteps, GiveUpSteps DEF CallGoesOn
  <2>3. CASE \/ RetryDelayEnds \/ CloseStore \/ CloseStoreReturns
             \/ \E g \in Generations : ConnectionBreaks(g) \/ Keepalive(g)
    BY <2>3, StoreSteps, FaultSteps
  <2> QED
    BY <2>1, <2>2, <2>3 DEF SFTPNext
<1> QED
  BY <1>1, <1>2, PTL DEF SFTPSpec

(* Connections, calls and files keep their types; in particular a store    *)
(* never dials more often than once and once more per fault, because one   *)
(* caller dials for all of them and only a fault makes them dial again     *)
(* (getConnection).                                                        *)
THEOREM SFTPTypeCorrect == SFTPSpec => []SFTPTypeOK
<1>1. SFTPInv => SFTPTypeOK
  BY DEF SFTPInv
<1> QED
  BY <1>1, SFTPInvHolds, PTL

(* No connection leaks: one that was dialed and is not closed is the       *)
(* store's own or in the hands of somebody who closes it, and a closed     *)
(* store has none (getConnection, invalidate, keepalive, Close).           *)
THEOREM NoConnectionLeaks == SFTPSpec => []ConnectionsOwned
<1>1. SFTPInv => ConnectionsOwned
  BY DEF SFTPInv
<1> QED
  BY <1>1, SFTPInvHolds, PTL

(* The object under a key is never a part of an upload, whatever breaks    *)
(* or is canceled during a Put (Put, publishSFTPObject).                   *)
THEOREM ObjectsAreWhole == SFTPSpec => []ObjectWhole
<1>1. SFTPInv => ObjectWhole
  BY DEF SFTPInv, UploadsWhole
<1> QED
  BY <1>1, SFTPInvHolds, PTL
=============================================================================
