------------------------------ MODULE MediaCache ------------------------------
(***************************************************************************)
(* The read-through playback cache of mediacache/service.go: requests that *)
(* miss capture the origin object while it is sent, promotions copy it to  *)
(* a cache mount of the pool, fill jobs finish interrupted captures, an    *)
(* encoder republishes the file and invalidates its entries, a maintenance *)
(* task evicts.                                                            *)
(*                                                                         *)
(* One pool and one file with the objects CacheObjects.  The contents of   *)
(* an object is the number of its publication.  Cache objects live under a *)
(* key that only depends on the object, so a mount holds one per object.   *)
(***************************************************************************)
EXTENDS Naturals, FiniteSets

CONSTANTS CacheObjects, CacheMounts, Flows,
          ObjectSize,        \* size of every object
          CacheMaxBytes,     \* CacheMaxBytes of every membership
          WorkspaceBytes,    \* room for captures in the scratch workspace
          MaxPublications,   \* encodings of the file
          MaxFills           \* durable fill jobs

ASSUME CacheAssumption ==
    /\ {ObjectSize, CacheMaxBytes, WorkspaceBytes, MaxPublications, MaxFills} \subseteq Nat
    /\ ObjectSize > 0
    /\ IsFiniteSet(CacheObjects) /\ IsFiniteSet(Flows) /\ "none" \notin CacheMounts

VARIABLES
    origin,    \* origin[o]: the publication primary storage holds
    version,   \* storage_cache_version of the file
    cacheEntry, \* cacheEntry[o]: mount and version of its storage_cache_entries row
    cached,    \* cached[k][o]: the publication in the cache store, 0: none
    flow,      \* requests and promotions under way
    claims,    \* the active map of the service
    reserved,  \* reservedWorkspaceBytes
    fills,     \* payloads of queued storage.cache.fill tasks
    fillsMade,
    encoder,   \* where the encoding of the file is
    removing,  \* cache objects an invalidation still deletes
    cacheClosed

cacheVars == <<origin, version, cacheEntry, cached, flow, claims, reserved, fills,
               fillsMade, encoder, removing, cacheClosed>>

NoEntry == [at |-> "none", ver |-> 0]
NoFlow == [pc |-> "idle", o |-> "none", got |-> 0, ver |-> 0, job |-> FALSE,
           claim |-> FALSE, room |-> FALSE, left |-> {}, at |-> "none"]

CacheInit ==
    /\ origin = [o \in CacheObjects |-> 1]
    /\ version = 0
    /\ cacheEntry = [o \in CacheObjects |-> NoEntry]
    /\ cached = [k \in CacheMounts |-> [o \in CacheObjects |-> 0]]
    /\ flow = [w \in Flows |-> NoFlow]
    /\ claims = {} /\ reserved = 0
    /\ fills = {} /\ fillsMade = 0
    /\ encoder = "idle" /\ removing = {}
    /\ cacheClosed = FALSE

Fresh(o) == cacheEntry[o].at # "none" /\ cacheEntry[o].ver = version
Hit(o) == Fresh(o) /\ cached[cacheEntry[o].at][o] # 0
Locked(k) == \E w \in Flows : flow[w].at = k
Quit(w) == flow' = [flow EXCEPT ![w] = NoFlow]

\* Mutant: claims are kept once the service is closed.
UnclaimWhileOpen(w) == claims' = IF flow[w].claim /\ ~ cacheClosed THEN claims \ {flow[w].o}
                                 ELSE claims

Unclaim(w) == claims' = IF flow[w].claim THEN claims \ {flow[w].o} ELSE claims

Release(w) == reserved' = IF flow[w].room THEN reserved - ObjectSize ELSE reserved

-----------------------------------------------------------------------------
\* OpenWithResult: a hit is served from the cache and changes nothing; an
\* entry whose object is gone is dropped and the origin is opened.
OpenOrigin(w, o) ==
    /\ flow[w].pc = "idle" /\ ~ Hit(o)
    /\ cacheEntry' = IF Fresh(o) THEN [cacheEntry EXCEPT ![o] = NoEntry] ELSE cacheEntry
    /\ flow' = [flow EXCEPT ![w] = [NoFlow EXCEPT !.pc = "opened", !.o = o, !.got = origin[o]]]
    /\ UNCHANGED <<origin, version, cached, claims, reserved, fills, fillsMade, encoder,
                   removing, cacheClosed>>

\* The version is read, the targets are chosen and the object is claimed;
\* without room in the workspace a fill job takes over.
Claim(o) == ~ cacheClosed /\ o \notin claims
ReserveWorkspace == ~ cacheClosed /\ reserved + ObjectSize <= WorkspaceBytes
Targets == IF ObjectSize <= CacheMaxBytes THEN CacheMounts ELSE {}

\* enqueuePromotion refuses when the database does.
EnqueuePromotion(payload, ok) ==
    /\ ok => fillsMade < MaxFills
    /\ fills' = IF ok THEN fills \cup {payload} ELSE fills
    /\ fillsMade' = IF ok THEN fillsMade + 1 ELSE fillsMade
Payload(w, got) == [o |-> flow[w].o, ver |-> flow[w].ver, got |-> got, left |-> flow[w].left]

BeginCapture(w) ==
    LET o == flow[w].o
    IN /\ flow[w].pc = "opened"
       /\ IF Targets = {} \/ ~ Claim(o)
          THEN Quit(w) /\ UNCHANGED <<claims, reserved>>
          ELSE /\ claims' = claims \cup {o}
               /\ reserved' = IF ReserveWorkspace THEN reserved + ObjectSize ELSE reserved
               /\ flow' = [flow EXCEPT ![w].pc = IF ReserveWorkspace THEN "capture" ELSE "handover",
                                       ![w].ver = version, ![w].claim = TRUE,
                                       ![w].room = ReserveWorkspace, ![w].left = Targets]
       /\ UNCHANGED <<origin, version, cacheEntry, cached, fills, fillsMade, encoder, removing,
                      cacheClosed>>

\* The response body is closed: nothing was read, all of it was captured, or
\* the client stopped early or asked for a range.
CaptureEnds(w, outcome) ==
    /\ flow[w].pc = "capture"
    /\ Release(w)
    /\ IF outcome = "unread" THEN Quit(w) /\ Unclaim(w)
       ELSE /\ flow' = [flow EXCEPT ![w].room = FALSE,
                                    ![w].pc = IF outcome = "complete" THEN "promote"
                                              ELSE "handover"]
            /\ UNCHANGED claims
    /\ UNCHANGED <<origin, version, cacheEntry, cached, fills, fillsMade, encoder, removing,
                   cacheClosed>>

\* The fill is queued as a job, or done by this process when it cannot be.
HandOver(w, queued) ==
    /\ flow[w].pc = "handover"
    /\ EnqueuePromotion(Payload(w, 0), queued)
    /\ IF queued THEN Quit(w) /\ Unclaim(w)
       ELSE /\ flow' = [flow EXCEPT ![w].pc = "promote", ![w].got = 0]
            /\ UNCHANGED claims
    /\ UNCHANGED <<origin, version, cacheEntry, cached, reserved, encoder, removing,
                   cacheClosed>>

FillTask(w, p) ==
    /\ flow[w].pc = "idle" /\ p \in fills
    /\ fills' = fills \ {p}
    /\ flow' = [flow EXCEPT ![w] = [NoFlow EXCEPT !.pc = "promote", !.o = p.o, !.got = p.got,
                                                  !.ver = p.ver, !.left = p.left, !.job = TRUE]]
    /\ UNCHANGED <<origin, version, cacheEntry, cached, claims, reserved, fillsMade, encoder,
                   removing, cacheClosed>>

-----------------------------------------------------------------------------
\* Promote and captureFromOrigin: a stale payload is dropped, then the
\* targets are tried in turn.  A closed service starts no promotion.
Fill(w) ==
    /\ flow[w].pc = "promote"
    /\ LET skip == \/ cacheClosed /\ ~ flow[w].job
                   \/ flow[w].got = 0 /\ Hit(flow[w].o)
                   \/ flow[w].ver # version
       IN IF skip THEN Quit(w) /\ Unclaim(w)
          ELSE flow' = [flow EXCEPT ![w].pc = "targets"] /\ UNCHANGED claims
    /\ UNCHANGED <<origin, version, cacheEntry, cached, reserved, fills, fillsMade, encoder,
                   removing, cacheClosed>>

\* pruneMembership evicts until the new object fits below the low watermark.
On(k) == {o \in CacheObjects : cacheEntry[o].at = k}
UsedBytes(k) == Cardinality(On(k)) * ObjectSize
HighWatermark == (CacheMaxBytes * 90) \div 100
LowWatermark == (CacheMaxBytes * 80) \div 100

\* Mutant: the object to come is not counted.
BytesToFreeNow(k, incoming) ==
    IF UsedBytes(k) > HighWatermark THEN UsedBytes(k) - LowWatermark ELSE 0

BytesToFree(k, incoming) ==
    IF UsedBytes(k) + incoming > HighWatermark /\ UsedBytes(k) + incoming > LowWatermark
    THEN UsedBytes(k) + incoming - LowWatermark ELSE 0
Victims(k, incoming) ==
    {V \in SUBSET On(k) :
        \/ Cardinality(V) * ObjectSize >= BytesToFree(k, incoming)
             /\ \A o \in V : (Cardinality(V) - 1) * ObjectSize < BytesToFree(k, incoming)
        \/ V = On(k) /\ Cardinality(V) * ObjectSize < BytesToFree(k, incoming)}
Evicted(k, V) == [o \in CacheObjects |-> IF o \in V THEN NoEntry ELSE cacheEntry[o]]
Erased(k, V) == [cached EXCEPT ![k] = [o \in CacheObjects |-> IF o \in V THEN 0 ELSE @[o]]]

\* promoteToTarget under the lock of the membership: room is made, the
\* capture or the origin is copied.  Admission is skipped when too little
\* can be evicted.
PromoteToTarget(w, k, V) ==
    LET o == flow[w].o
        fits == Cardinality(V) * ObjectSize >= BytesToFree(k, ObjectSize)
        contents == IF flow[w].got = 0 THEN origin[o] ELSE flow[w].got
    IN /\ flow[w].pc = "targets" /\ k \in flow[w].left /\ ~ Locked(k)
       /\ V \in Victims(k, ObjectSize)
       /\ cacheEntry' = Evicted(k, V)
       /\ IF fits
          THEN /\ cached' = [Erased(k, V) EXCEPT ![k][o] = contents]
               /\ flow' = [flow EXCEPT ![w].pc = "commit", ![w].at = k]
          ELSE /\ cached' = Erased(k, V)
               /\ flow' = [flow EXCEPT ![w].left = @ \ {k}]
       /\ UNCHANGED <<origin, version, claims, reserved, fills, fillsMade, encoder,
                      removing, cacheClosed>>

\* commitPromotion: the entry appears if the version is still the one the
\* request read; otherwise the copy is deleted.
CommitPromotion(w) ==
    LET o == flow[w].o
        k == flow[w].at
    IN /\ flow[w].pc = "commit"
       /\ IF flow[w].ver = version
          THEN cacheEntry' = [cacheEntry EXCEPT ![o] = [at |-> k, ver |-> version]] /\ UNCHANGED cached
          ELSE cached' = [cached EXCEPT ![k][o] = 0] /\ UNCHANGED cacheEntry
       /\ Quit(w) /\ Unclaim(w)
       /\ UNCHANGED <<origin, version, reserved, fills, fillsMade, encoder, removing,
                      cacheClosed>>

\* A target fails: what was copied is deleted, the next one is tried; when
\* none is left a process' own promotion is queued as a job.
TargetFails(w) ==
    LET k == flow[w].at
    IN /\ flow[w].pc = "commit"
       /\ cached' = [cached EXCEPT ![k][flow[w].o] = 0]
       /\ flow' = [flow EXCEPT ![w].pc = "targets", ![w].at = "none", ![w].left = @ \ {k}]
       /\ UNCHANGED <<origin, version, cacheEntry, claims, reserved, fills, fillsMade, encoder,
                      removing, cacheClosed>>

NoTargetLeft(w, queued) ==
    /\ flow[w].pc = "targets" /\ flow[w].left = {}
    /\ EnqueuePromotion([Payload(w, flow[w].got) EXCEPT !.left = Targets], queued)
    /\ Quit(w) /\ Unclaim(w)
    /\ UNCHANGED <<origin, version, cacheEntry, cached, reserved, encoder, removing,
                   cacheClosed>>

-----------------------------------------------------------------------------
\* InvalidateFile: the version moves on and the rows go in one transaction;
\* their objects are deleted afterwards.
InvalidateFile ==
    /\ version' = version + 1
    /\ removing' = removing \cup {<<cacheEntry[o].at, o>> : o \in {x \in CacheObjects : cacheEntry[x].at # "none"}}
    /\ cacheEntry' = [o \in CacheObjects |-> NoEntry]

RemoveObject(k, o) ==
    /\ <<k, o>> \in removing
    /\ removing' = removing \ {<<k, o>>}
    /\ cached' = [cached EXCEPT ![k][o] = 0]
    /\ UNCHANGED <<origin, version, cacheEntry, flow, claims, reserved, fills, fillsMade, encoder,
                   cacheClosed>>

\* encodingHandler: invalidate, encode and publish, invalidate.
EncodeStart ==
    /\ encoder = "idle" /\ version < 2 * MaxPublications
    /\ InvalidateFile /\ encoder' = "encoding"
    /\ UNCHANGED <<origin, cached, flow, claims, reserved, fills, fillsMade, cacheClosed>>
EncodePublishes ==
    /\ encoder = "encoding"
    /\ origin' = [o \in CacheObjects |-> origin[o] + 1]
    /\ encoder' = "published"
    /\ UNCHANGED <<version, cacheEntry, cached, flow, claims, reserved, fills, fillsMade, removing,
                   cacheClosed>>
EncodeEnd ==
    /\ encoder = "published"
    /\ InvalidateFile /\ encoder' = "idle"
    /\ UNCHANGED <<origin, cached, flow, claims, reserved, fills, fillsMade, cacheClosed>>

\* The eviction task: memberships above their watermark, then orphans.
Prune(k, V) ==
    /\ ~ Locked(k) /\ V \in Victims(k, 0)
    /\ LET orphans == {o \in On(k) : cacheEntry[o].ver # version}
       IN /\ V \cup orphans # {}
          /\ cacheEntry' = Evicted(k, V \cup orphans)
          /\ cached' = Erased(k, V \cup orphans)
    /\ UNCHANGED <<origin, version, flow, claims, reserved, fills, fillsMade, encoder,
                   removing, cacheClosed>>

CloseCache ==
    /\ ~ cacheClosed /\ cacheClosed' = TRUE
    /\ UNCHANGED <<origin, version, cacheEntry, cached, flow, claims, reserved, fills, fillsMade,
                   encoder, removing>>

-----------------------------------------------------------------------------
FlowStep(w) ==
    \/ \E o \in CacheObjects : OpenOrigin(w, o)
    \/ BeginCapture(w) \/ Fill(w) \/ CommitPromotion(w) \/ TargetFails(w)
    \/ \E outcome \in {"unread", "complete", "stopped"} : CaptureEnds(w, outcome)
    \/ \E queued \in BOOLEAN : HandOver(w, queued) \/ NoTargetLeft(w, queued)
    \/ \E p \in fills : FillTask(w, p)
    \/ \E k \in CacheMounts : \E V \in SUBSET CacheObjects : PromoteToTarget(w, k, V)

CacheNext ==
    \/ \E w \in Flows : FlowStep(w)
    \/ \E k \in CacheMounts : \/ \E V \in SUBSET CacheObjects : Prune(k, V)
                              \/ \E o \in CacheObjects : RemoveObject(k, o)
    \/ EncodeStart \/ EncodePublishes \/ EncodeEnd
    \/ CloseCache

CacheSpec == CacheInit /\ [][CacheNext]_cacheVars

-----------------------------------------------------------------------------
\* Every piece of state has its type.
CacheTypeOK ==
    /\ version \in Nat /\ reserved \in Nat
    /\ \A o \in CacheObjects : cacheEntry[o].at \in CacheMounts \cup {"none"} /\ cacheEntry[o].ver <= version
    /\ claims \subseteq CacheObjects
    /\ \A w \in Flows : flow[w].pc \in {"idle", "opened", "capture", "handover", "promote",
                                        "targets", "commit"}

\* The entries on a cache mount never exceed the size its membership allows,
\* whichever promotions, fill jobs and evictions run at the same time.
CacheBounded == \A k \in CacheMounts : UsedBytes(k) <= CacheMaxBytes

\* No claim and no workspace reservation outlives the request or promotion
\* that took it: a leaked claim would keep its object from ever being cached
\* again, a leaked reservation would end response captures.
ClaimsOwned ==
    /\ claims = {flow[w].o : w \in {x \in Flows : flow[x].claim}}
    /\ reserved = ObjectSize * Cardinality({w \in Flows : flow[w].room})

\* A hit never serves a publication that an encoding finished before has
\* replaced (TestPromotionCapturedBeforeInvalidationIsDiscarded): when no
\* encoding is under way, what the current entry names is what the origin has.
CaptureDiscarded ==
    encoder = "idle" =>
        \A o \in CacheObjects :
            Hit(o) /\ (\A w \in Flows : flow[w].at = "none") => cached[cacheEntry[o].at][o] = origin[o]
=============================================================================
