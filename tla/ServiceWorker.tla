---- MODULE ServiceWorker ----
(***************************************************************************)
(* The service worker of the browser extension                             *)
(* (03_Browser_Extension/service_worker.js): its in-memory SRV cache, the  *)
(* background resolutions that fill it, the load of the persistent cache   *)
(* that runs when the worker starts, and the termination and restart of    *)
(* the worker by the browser.                                              *)
(*                                                                         *)
(* JavaScript runs one continuation at a time, so an action is the code    *)
(* between two awaits.  What an await waits for (the DoH server, the       *)
(* extension storage) answers in any order and may fail.                   *)
(***************************************************************************)
EXTENDS ExtensionStorage

CONSTANTS
  Task,        \* identifiers of resolveSrv activations
  MaxTime,     \* bound: the clock stops there
  Absent,      \* Map.get of a key the map does not hold: undefined
  InProgress,  \* the null sentinel
  Idle         \* an activation that has not started, or has returned

CacheValue == Entry \cup {Absent, InProgress}

ASSUME MaxTimeAssumption == MaxTime \in Nat
ASSUME ValueAssumption ==
  Absent \notin Entry /\ InProgress \notin Entry /\ Absent # InProgress

\* A resolveSrv activation: the await it is at, the slot it resolves and, once
\* it is storing, the timestamp it stores.
Activation ==
  [at : {"fetching", "reading", "storing"}, slot : Slot, stamp : Nat]

ASSUME IdleAssumption == Idle \notin Activation

VARIABLES
  now,      \* Date.now()
  storage,  \* chrome.storage.local
  alive,    \* the worker is running
  boot,     \* history: when the running worker started
  cache,    \* SRV_CACHE and IDENTITY_CACHE of the running worker
  loader,   \* loadCache: "off", "getting", "got" a snapshot, or "done"
  snapshot, \* what storage.get() returned to loadCache
  task      \* the resolveSrv activations

loadVars == <<loader, snapshot>>
vars == <<now, storage, alive, boot, cache, loader, snapshot, task>>

Live(t) == task[t] # Idle
At(t, await) == Live(t) /\ task[t].at = await
Querying(t) == At(t, "fetching") \/ At(t, "reading")

NothingCached == [slot \in Slot |-> Absent]
NothingRunning == [t \in Task |-> Idle]
----
Init ==
  /\ now = 0
  /\ storage = NothingStored
  /\ alive = FALSE
  /\ boot = 0
  /\ cache = NothingCached
  /\ loader = "off"
  /\ snapshot = NothingStored
  /\ task = NothingRunning

(***************************************************************************)
(* The script runs from the top when the browser starts the worker: empty  *)
(* maps, and loadCache up to its await.                                    *)
(***************************************************************************)
WorkerStart ==
  /\ ~alive
  /\ alive' = TRUE
  /\ boot' = now
  /\ loader' = "getting"
  /\ UNCHANGED <<now, storage, cache, snapshot, task>>

\* The browser ends the worker: memory and pending continuations are lost.
WorkerKill ==
  /\ alive
  /\ alive' = FALSE
  /\ cache' = NothingCached
  /\ loader' = "off"
  /\ snapshot' = NothingStored
  /\ task' = NothingRunning
  /\ UNCHANGED <<now, storage, boot>>
----
(***************************************************************************)
(* loadCache.                                                              *)
(***************************************************************************)
LoadGet ==
  /\ loader = "getting"
  /\ loader' = "got"
  /\ snapshot' = storage
  /\ UNCHANGED <<now, storage, alive, boot, cache, task>>

\* storage.get() rejects; `loadCache().catch(() => {})`.
LoadFails ==
  /\ loader = "getting"
  /\ loader' = "done"
  /\ UNCHANGED <<now, storage, alive, boot, cache, snapshot, task>>

\* Faulty variant: no `continue` on an entry older than its ttl.
Loadable_NoTtl(slot) ==
  {sk \in StorageKey : snapshot[sk] # NoEntry /\ SlotOf(sk) = slot}

\* The storage keys of the snapshot that the loop files under slot.
Loadable(slot) ==
  {sk \in StorageKey : /\ snapshot[sk] # NoEntry
                       /\ ~Expired(snapshot[sk], now)
                       /\ SlotOf(sk) = slot}

LoadKey(slot) == CHOOSE sk \in Loadable(slot) : TRUE

\* The loop over the snapshot: Map.set, whatever the map holds by now.
LoadApply ==
  /\ loader = "got"
  /\ loader' = "done"
  /\ cache' = [slot \in Slot |->
                 IF Loadable(slot) = {}
                   THEN cache[slot]
                   ELSE snapshot[LoadKey(slot)]]
  /\ snapshot' = NothingStored
  /\ UNCHANGED <<now, storage, alive, boot, task>>
----
(***************************************************************************)
(* resolveSrv, one activation t.  Every way it gives up deletes the cache  *)
(* key, whatever the map holds by then.                                    *)
(***************************************************************************)

\* Faulty variant: no sentinel is set before the query is sent.
OnBeforeRequest_NoSentinel(slot, t) ==
  /\ alive
  /\ slot[2] \in {"http", "https"}
  /\ cache[slot] = Absent
  /\ ~Live(t)
  /\ task' = [task EXCEPT ![t] = [at |-> "fetching", slot |-> slot, stamp |-> 0]]
  /\ UNCHANGED <<now, storage, alive, boot, cache, loadVars>>

\* A request for a slot the map does not hold starts its resolution: the
\* sentinel is set and the query sent before the listener returns.  (In the
\* two other cases the listener changes nothing: it redirects, or it finds
\* the sentinel.)
OnBeforeRequest(slot, t) ==
  /\ alive
  /\ slot[2] \in {"http", "https"}
  /\ cache[slot] = Absent
  /\ ~Live(t)
  /\ cache' = [cache EXCEPT ![slot] = InProgress]
  /\ task' = [task EXCEPT ![t] = [at |-> "fetching", slot |-> slot, stamp |-> 0]]
  /\ UNCHANGED <<now, storage, alive, boot, loadVars>>

\* Faulty variant: gives up without deleting the sentinel.
GiveUp_KeepSentinel(t) ==
  /\ task' = [task EXCEPT ![t] = Idle]
  /\ UNCHANGED <<now, storage, alive, boot, cache, loadVars>>

\* Faulty variant: deletes the sentinel, then sends the query once more.
GiveUp_Retry(t) ==
  /\ cache' = [cache EXCEPT ![task[t].slot] = Absent]
  /\ task' = [task EXCEPT ![t].at = "fetching"]
  /\ UNCHANGED <<now, storage, alive, boot, loadVars>>

GiveUp(t) ==
  /\ cache' = [cache EXCEPT ![task[t].slot] = Absent]
  /\ task' = [task EXCEPT ![t] = Idle]
  /\ UNCHANGED <<now, storage, alive, boot, loadVars>>

\* fetch() rejects, or the response is not ok.
FetchFails(t) ==
  /\ At(t, "fetching")
  /\ GiveUp(t)

FetchOk(t) ==
  /\ At(t, "fetching")
  /\ task' = [task EXCEPT ![t].at = "reading"]
  /\ UNCHANGED <<now, storage, alive, boot, cache, loadVars>>

\* The body is no JSON, or holds no SRV answer.
ReplyUnusable(t) ==
  /\ At(t, "reading")
  /\ GiveUp(t)

\* The best answer is cached, and storage.set() called with the present time.
ReplyUsable(t) ==
  /\ At(t, "reading")
  /\ cache' = [cache EXCEPT ![task[t].slot] =
                 [from |-> task[t].slot, timestamp |-> now]]
  /\ task' = [task EXCEPT ![t].at = "storing", ![t].stamp = now]
  /\ UNCHANGED <<now, storage, alive, boot, loadVars>>

StoreOk(t) ==
  /\ At(t, "storing")
  /\ storage' = [storage EXCEPT ![StorageKeyOf(task[t].slot)] =
                   [from |-> task[t].slot, timestamp |-> task[t].stamp]]
  /\ task' = [task EXCEPT ![t] = Idle]
  /\ UNCHANGED <<now, alive, boot, cache, loadVars>>

\* storage.set() rejects inside the same try: the catch deletes the answer.
StoreFails(t) ==
  /\ At(t, "storing")
  /\ GiveUp(t)

TaskStep(t) ==
  \/ FetchFails(t)
  \/ FetchOk(t)
  \/ ReplyUnusable(t)
  \/ ReplyUsable(t)
  \/ StoreOk(t)
  \/ StoreFails(t)
----
(***************************************************************************)
(* The environment: the clock, and the other contexts of the extension     *)
(* that keep their answers under the same keys (dns_fetcher.js).           *)
(***************************************************************************)
Tick ==
  /\ now < MaxTime
  /\ now' = now + 1
  /\ UNCHANGED <<storage, alive, boot, cache, loadVars, task>>

PageStores(slot) ==
  /\ \E stamp \in 0..now :
       storage' = [storage EXCEPT ![StorageKeyOf(slot)] =
                     [from |-> slot, timestamp |-> stamp]]
  /\ UNCHANGED <<now, alive, boot, cache, loadVars, task>>

PageRemoves(slot) ==
  /\ storage[StorageKeyOf(slot)] # NoEntry
  /\ storage' = [storage EXCEPT ![StorageKeyOf(slot)] = NoEntry]
  /\ UNCHANGED <<now, alive, boot, cache, loadVars, task>>

Next ==
  \/ WorkerStart
  \/ WorkerKill
  \/ LoadGet
  \/ LoadFails
  \/ LoadApply
  \/ \E slot \in Slot, t \in Task : OnBeforeRequest(slot, t)
  \/ \E t \in Task : TaskStep(t)
  \/ Tick
  \/ \E slot \in Slot : PageStores(slot)
  \/ \E slot \in Slot : PageRemoves(slot)

Spec == Init /\ [][Next]_vars

(***************************************************************************)
(* The browser settles every fetch and every storage call of a live        *)
(* worker, and dispatches the continuation.                                *)
(***************************************************************************)
Fairness == \A t \in Task : WF_vars(TaskStep(t))

FairSpec == Spec /\ Fairness
----
(***************************************************************************)
(* Properties.                                                             *)
(***************************************************************************)

\* Every variable keeps its shape: in particular a resolution caches under
\* the slot it was started for, and the clock never runs behind the boot.
TypeOK ==
  /\ now \in Nat /\ boot \in 0..now
  /\ storage \in [StorageKey -> StoredValue]
  /\ alive \in BOOLEAN
  /\ cache \in [Slot -> CacheValue]
  /\ loader \in {"off", "getting", "got", "done"}
  /\ snapshot \in [StorageKey -> StoredValue]
  /\ task \in [Task -> Activation \cup {Idle}]

\* At most one resolveSrv activation works on a cache key, whatever loadCache
\* writes in between: the sentinel does "avoid duplicate queries".
SingleFlight ==
  \A t, u \in Task : Live(t) /\ Live(u) /\ task[t].slot = task[u].slot => t = u

\* "cached === null means in progress": a sentinel stands only while some
\* activation still queries that very key, so no key is blocked for good.
NullMeansInProgress ==
  \A slot \in Slot :
    cache[slot] = InProgress => \E t \in Task : Querying(t) /\ task[t].slot = slot

\* An answer is filed under the key it was obtained for, in memory and in the
\* storage, also after a round trip through a storage key of a host with "_".
FiledUnderItsKey ==
  /\ \A slot \in Slot : cache[slot] \in Entry => cache[slot].from = slot
  /\ \A slot \in Slot : LET entry == storage[StorageKeyOf(slot)]
                        IN  entry \in Entry => entry.from = slot

\* The worker checks the age of an answer only when it loads it: what it
\* redirects by was at most TTL old when the running worker started.
BoundedStaleness ==
  \A slot \in Slot :
    cache[slot] \in Entry => boot - cache[slot].timestamp <= TTL

\* Every sentinel is replaced: by an answer, a loaded entry, or nothing.
SentinelClears ==
  \A slot \in Slot : cache[slot] = InProgress ~> cache[slot] # InProgress

\* A resolution gives up, or the browser ends the worker.
Failure ==
  \/ WorkerKill
  \/ \E t \in Task : FetchFails(t) \/ ReplyUnusable(t) \/ StoreFails(t)

RequestedWhileUnknown(slot) ==
  /\ WF_vars(WorkerStart)
  /\ WF_vars(\E t \in Task : OnBeforeRequest(slot, t))

\* "Subsequent requests to the same domain will be redirected": once failures
\* stop, a slot that is requested while unknown is cached, for good.  Nothing
\* that failed before (a sentinel, an activation) is in the way.
CachedOnceHealthy ==
  \A slot \in Slot :
    /\ slot[2] \in {"http", "https"}
    /\ <>[][~Failure]_vars
    /\ RequestedWhileUnknown(slot)
    => <>[](cache[slot] \in Entry)

----
(***************************************************************************)
(* The promise to the listener: the abstract cache of SrvCache.            *)
(***************************************************************************)
StatusOf(value) ==
  IF value = Absent THEN "unknown"
  ELSE IF value = InProgress THEN "resolving"
  ELSE "known"

Promise == INSTANCE SrvCache WITH
  status <- [slot \in Slot |-> StatusOf(cache[slot])],
  busy <- {task[t].slot : t \in {u \in Task : Live(u)}}

\* The worker implements SrvCache: no order of requests, replies, loads,
\* failures and restarts makes a second query for a key, or leaves a sentinel
\* behind a query that has ended.
ImplementsSrvCache == Promise!Spec
====
