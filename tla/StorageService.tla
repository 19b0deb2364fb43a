---------------------------- MODULE StorageService ----------------------------
(***************************************************************************)
(* The registry of mounted stores (storage/service.go) and the handles it  *)
(* gives out (storage/managed_store.go).                                   *)
(*                                                                         *)
(* A handle keeps its provider open while operations use it.  Replacing or *)
(* unmounting a store retires its handle: new operations on it fail, the   *)
(* running ones drain, and whoever leaves last closes the provider.  Each  *)
(* critical section of Service.mu and of managedStore.mu is one step.      *)
(***************************************************************************)
EXTENDS Integers, FiniteSets

CONSTANTS
    Id,         \* names stores are mounted under
    DefaultId,  \* the built-in store, which cannot be unmounted
    Handle,     \* managedStore objects
    NoHandle,
    Client      \* operations and open object bodies

ASSUME StoresAssumption ==
    /\ DefaultId \in Id
    /\ NoHandle \notin Handle
    /\ IsFiniteSet(Client) /\ Handle # {}

VARIABLES
    stores,     \* Service.stores
    retired,    \* Service.retired
    closed,     \* Service.closed
    closeErr,   \* Service.closeErr: the handles whose Close error was joined
    handle,     \* the fields of each managedStore
    toRetire,   \* handles that RegisterStore or UnregisterStore is about to retire
    client,     \* what each operation does, and on which handle
    closing     \* the call of Service.Close

vars == <<stores, retired, closed, closeErr, handle, toRetire, client, closing>>

(* managedStore goes through finishClose step by step: the provider is     *)
(* closed, the registry is told, then the done channel is closed.          *)
Steps == {"unused", "open", "closing", "closed", "notified", "done"}

(* A client looks a handle up, acquires it, uses it and releases it; the    *)
(* body of an opened object may be closed a second time.                    *)
ClientPC == {"idle", "resolved", "using", "released"}

(* The registry, the handles and their users have their types. *)
TypeOK ==
    /\ stores \in [Id -> Handle \cup {NoHandle}]
    /\ retired \subseteq Handle
    /\ closed \in BOOLEAN
    /\ closeErr \subseteq Handle
    /\ handle \in [Handle -> [step : Steps, active : Nat, retired : BOOLEAN, failed : BOOLEAN]]
    /\ toRetire \subseteq Handle
    /\ client \in [Client -> [pc : ClientPC, handle : Handle \cup {NoHandle}]]
    /\ closing \in [pc : {"none", "retire", "wait", "returned"}, todo : SUBSET Handle,
                    all : SUBSET Handle, err : SUBSET Handle]

NewHandle == [step |-> "open", active |-> 0, retired |-> FALSE, failed |-> FALSE]

Idle == [pc |-> "idle", handle |-> NoHandle]

(* NewServiceWithWorkspace with the built-in store alone. *)
Init ==
    \E h0 \in Handle :
        /\ stores = [i \in Id |-> IF i = DefaultId THEN h0 ELSE NoHandle]
        /\ handle = [h \in Handle |->
                        IF h = h0 THEN NewHandle ELSE [NewHandle EXCEPT !.step = "unused"]]
        /\ retired = {} /\ closed = FALSE /\ closeErr = {} /\ toRetire = {}
        /\ client = [c \in Client |-> Idle]
        /\ closing = [pc |-> "none", todo |-> {}, all |-> {}, err |-> {}]

-----------------------------------------------------------------------------
(* The registry.                                                           *)

(* Store: a lookup in the registry. *)
Store(c, i) ==
    /\ ~closed
    /\ client[c].pc = "idle"
    /\ stores[i] # NoHandle
    /\ client' = [client EXCEPT ![c] = [pc |-> "resolved", handle |-> stores[i]]]
    /\ UNCHANGED <<stores, retired, closed, closeErr, handle, toRetire, closing>>

(* A store that was mounted under the same name is retired. *)
RegisterStore(i, h) ==
    /\ handle[h].step = "unused"
    /\ ~closed
    /\ handle' = [handle EXCEPT ![h] = NewHandle]
    /\ stores' = [stores EXCEPT ![i] = h]
    /\ retired' = retired \cup ({stores[i]} \ {NoHandle})
    /\ toRetire' = toRetire \cup ({stores[i]} \ {NoHandle})
    /\ UNCHANGED <<closed, closeErr, client, closing>>

UnregisterStore(i) ==
    /\ ~closed
    /\ i # DefaultId
    /\ stores[i] # NoHandle
    /\ stores' = [stores EXCEPT ![i] = NoHandle]
    /\ retired' = retired \cup {stores[i]}
    /\ toRetire' = toRetire \cup {stores[i]}
    /\ UNCHANGED <<closed, closeErr, handle, client, closing>>

-----------------------------------------------------------------------------
(* The handle.                                                             *)

(* Mutant: acquire does not look at retired. *)
AcquireRetired(c) ==
    LET h == client[c].handle
    IN /\ client[c].pc = "resolved"
       /\ handle' = [handle EXCEPT ![h].active = @ + 1]
       /\ client' = [client EXCEPT ![c].pc = "using"]
       /\ UNCHANGED <<stores, retired, closed, closeErr, toRetire, closing>>

(* acquire fails on a handle retired since the lookup. *)
Acquire(c) ==
    LET h == client[c].handle
    IN /\ client[c].pc = "resolved"
       /\ IF handle[h].retired
          THEN /\ client' = [client EXCEPT ![c] = Idle]
               /\ UNCHANGED handle
          ELSE /\ handle' = [handle EXCEPT ![h].active = @ + 1]
               /\ client' = [client EXCEPT ![c].pc = "using"]
       /\ UNCHANGED <<stores, retired, closed, closeErr, toRetire, closing>>

(* The fields of a handle after release: the last one out starts the close. *)
Released(r) ==
    [r EXCEPT !.active = r.active - 1,
              !.step = IF r.retired /\ r.active = 1 /\ r.step = "open" THEN "closing" ELSE r.step]

Release(c) ==
    /\ client[c].pc = "using"
    /\ handle' = [handle EXCEPT ![client[c].handle] = Released(@)]
    /\ client' = [client EXCEPT ![c].pc = "released"]
    /\ UNCHANGED <<stores, retired, closed, closeErr, toRetire, closing>>

(* A body closed again releases nothing: sync.Once. *)
CloseAgain(c) ==
    /\ client[c].pc = "released"
    /\ client' = [client EXCEPT ![c] = Idle]
    /\ UNCHANGED <<stores, retired, closed, closeErr, handle, toRetire, closing>>

(* Mutant: retiring an idle handle does not close it. *)
RetiredLeavesOpen(r) == [r EXCEPT !.retired = TRUE]

(* The fields of a handle after retire, which only has an effect once. *)
Retired(r) ==
    IF r.retired THEN r
    ELSE [r EXCEPT !.retired = TRUE,
                   !.step = IF r.active = 0 /\ r.step = "open" THEN "closing" ELSE @]

Retire(h) ==
    /\ h \in toRetire
    /\ handle' = [handle EXCEPT ![h] = Retired(@)]
    /\ toRetire' = toRetire \ {h}
    /\ UNCHANGED <<stores, retired, closed, closeErr, client, closing>>

(* finishClose: the provider's Close may fail. *)
CloseProvider(h) ==
    /\ handle[h].step = "closing"
    /\ \E failed \in BOOLEAN :
         handle' = [handle EXCEPT ![h].step = "closed", ![h].failed = failed]
    /\ UNCHANGED <<stores, retired, closed, closeErr, toRetire, client, closing>>

(* Mutant: the done channel is closed before the registry is told. *)
StoreClosedLate(h) ==
    /\ handle[h].step \in {"closed", "done"}
    /\ IF handle[h].step = "closed"
       THEN /\ handle' = [handle EXCEPT ![h].step = "done"]
            /\ UNCHANGED <<retired, closeErr>>
       ELSE /\ retired' = retired \ {h}
            /\ closeErr' = IF handle[h].failed THEN closeErr \cup {h} ELSE closeErr
            /\ UNCHANGED handle
    /\ UNCHANGED <<stores, closed, toRetire, client, closing>>

(* storeClosed: the registry forgets the handle and joins its error. *)
StoreClosed(h) ==
    /\ handle[h].step = "closed"
    /\ retired' = retired \ {h}
    /\ closeErr' = IF handle[h].failed THEN closeErr \cup {h} ELSE closeErr
    /\ handle' = [handle EXCEPT ![h].step = "notified"]
    /\ UNCHANGED <<stores, closed, toRetire, client, closing>>

CloseDone(h) ==
    /\ handle[h].step = "notified"
    /\ handle' = [handle EXCEPT ![h].step = "done"]
    /\ UNCHANGED <<stores, retired, closed, closeErr, toRetire, client, closing>>

-----------------------------------------------------------------------------
(* Service.Close retires everything, waits for it and returns the errors.  *)

Mounted == {stores[i] : i \in Id} \ {NoHandle}

CloseBegins ==
    /\ closing.pc = "none"
    /\ closed' = TRUE
    /\ stores' = [i \in Id |-> NoHandle]
    /\ retired' = retired \cup Mounted
    /\ closing' = [closing EXCEPT !.pc = "retire", !.todo = retired \cup Mounted,
                                  !.all = retired \cup Mounted]
    /\ UNCHANGED <<closeErr, handle, toRetire, client>>

CloseRetires(h) ==
    /\ closing.pc = "retire"
    /\ h \in closing.todo
    /\ handle' = [handle EXCEPT ![h] = Retired(@)]
    /\ closing' = [closing EXCEPT !.todo = @ \ {h}]
    /\ UNCHANGED <<stores, retired, closed, closeErr, toRetire, client>>

CloseWaits ==
    /\ closing.pc = "retire"
    /\ closing.todo = {}
    /\ closing' = [closing EXCEPT !.pc = "wait"]
    /\ UNCHANGED <<stores, retired, closed, closeErr, handle, toRetire, client>>

CloseReturns ==
    /\ closing.pc = "wait"
    /\ \A h \in closing.all : handle[h].step = "done"
    /\ closing' = [closing EXCEPT !.pc = "returned", !.err = closeErr]
    /\ UNCHANGED <<stores, retired, closed, closeErr, handle, toRetire, client>>

-----------------------------------------------------------------------------

Operation(c) == (\E i \in Id : Store(c, i)) \/ Acquire(c) \/ Release(c) \/ CloseAgain(c)

Registry == \E i \in Id : UnregisterStore(i) \/ \E h \in Handle : RegisterStore(i, h)

Closer(h) == Retire(h) \/ CloseProvider(h) \/ StoreClosed(h) \/ CloseDone(h)

Close == CloseBegins \/ (\E h \in Handle : CloseRetires(h)) \/ CloseWaits \/ CloseReturns

Next ==
    \/ \E c \in Client : Operation(c)
    \/ Registry
    \/ \E h \in Handle : Closer(h)
    \/ Close

Spec == Init /\ [][Next]_vars

(* Every thread inside retire, finishClose or Close goes on, and every      *)
(* operation and every open body is released in the end.                    *)
Fairness ==
    /\ \A c \in Client : WF_vars(Acquire(c)) /\ WF_vars(Release(c))
    /\ \A h \in Handle : /\ WF_vars(Retire(h)) /\ WF_vars(CloseProvider(h))
                         /\ WF_vars(StoreClosed(h)) /\ WF_vars(CloseDone(h))
                         /\ WF_vars(CloseRetires(h))
    /\ WF_vars(CloseWaits) /\ WF_vars(CloseReturns)

FairSpec == Spec /\ Fairness

-----------------------------------------------------------------------------

(* A provider is never closed under an operation: while anyone uses a      *)
(* handle, its close has not begun, however often the store was replaced,  *)
(* unmounted or shut down since the lookup (managedStore).                 *)
NoUseAfterClose ==
    \A c \in Client : client[c].pc = "using" => handle[client[c].handle].step = "open"

(* When Service.Close returns, every provider that was ever mounted has     *)
(* been closed and every close error is in the result, including those of   *)
(* stores that were replaced or unmounted earlier and were still draining.  *)
CloseComplete ==
    closing.pc = "returned" =>
        /\ \A h \in Handle : handle[h].step \in {"unused", "notified", "done"}
        /\ closing.err = {h \in Handle : handle[h].failed}

(* Close returns, whatever was in flight when it was called. *)
CloseTerminates == closing.pc # "none" ~> closing.pc = "returned"

=============================================================================
