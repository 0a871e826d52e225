---- MODULE ServiceWorker_proofs ----
(***************************************************************************)
(* Theorems about ServiceWorker, for every set of hosts, kinds and         *)
(* activations and every TTL and clock bound.                              *)
(*                                                                         *)
(* The inductive invariant IInv adds to the invariants of ServiceWorker    *)
(* what makes them survive a step: a running activation holds its slot of  *)
(* the map (SlotHeld, so no request begins a second one and only its own   *)
(* GiveUp empties the slot), stored answers stay under their keys on the   *)
(* way through a snapshot (StoredUnderItsKey), and a worker that does not  *)
(* run holds nothing (DeadIsEmpty, so the next start sets boot safely).    *)
(***************************************************************************)
EXTENDS ServiceWorker, TLAPS

SlotHeld == \A t \in Task : Live(t) => cache[task[t].slot] # Absent

StoredUnderItsKey ==
  \A sk \in StorageKey :
    /\ storage[sk] # NoEntry => storage[sk].from = SlotOf(sk)
    /\ snapshot[sk] # NoEntry => snapshot[sk].from = SlotOf(sk)

CachedUnderItsKey ==
  \A slot \in Slot : cache[slot] \in Entry => cache[slot].from = slot

DeadIsEmpty ==
  ~alive => cache = NothingCached /\ task = NothingRunning /\ loader = "off"

FlightInv == SingleFlight /\ SlotHeld /\ NullMeansInProgress
FileInv == StoredUnderItsKey /\ CachedUnderItsKey

IInv == TypeOK /\ DeadIsEmpty /\ FlightInv /\ FileInv /\ BoundedStaleness
----
\* Filing: a slot's storage key is one of the keys, and is decoded to it.
LEMMA StorageKeyRoundTrip ==
  ASSUME NEW slot \in Slot
  PROVE  StorageKeyOf(slot) \in StorageKey /\ SlotOf(StorageKeyOf(slot)) = slot
<1> DEFINE d == slot[1]  k == slot[2]
<1>1. d \in Seq(Segment) /\ k \in Kind /\ slot = <<d, k>>
  BY DomainAssumption DEF Slot
<1>2. StorageKeyOf(slot) \in StorageKey
  BY DEF StorageKey
<1>3. CASE k = "identity"
  BY <1>1, <1>2, <1>3 DEF StorageKeyOf, SlotOf
<1>4. CASE k # "identity"
  <2> DEFINE n == Append(d, k)
  <2>1. k \in Segment
    BY <1>1, KindAssumption
  <2>2. n \in Seq(Segment) /\ Len(n) = Len(d) + 1 /\ n[Len(n)] = k
    BY <1>1, <2>1
  <2>3. SubSeq(n, 1, Len(n) - 1) = d
    BY <1>1, <2>1, <2>2
  <2>4. /\ StorageKeyOf(slot).prefix # "kirin_identity_"
        /\ StorageKeyOf(slot).name = n
    BY <1>4 DEF StorageKeyOf
  <2> HIDE DEF n
  <2>5. SlotOf(StorageKeyOf(slot)) = <<d, k>>
    BY <2>2, <2>3, <2>4 DEF SlotOf
  <2> QED
    BY <1>1, <1>2, <2>5
<1> QED
  BY <1>3, <1>4

\* What loadCache files under a slot is an unexpired entry of the snapshot,
\* read at a key of that slot.
LEMMA LoadableEntry ==
  ASSUME TypeOK, NEW slot \in Slot, Loadable(slot) # {}
  PROVE  /\ LoadKey(slot) \in StorageKey /\ SlotOf(LoadKey(slot)) = slot
         /\ snapshot[LoadKey(slot)] # NoEntry
         /\ snapshot[LoadKey(slot)] \in Entry
         /\ now - snapshot[LoadKey(slot)].timestamp <= TTL
<1>1. LoadKey(slot) \in Loadable(slot)
  BY DEF LoadKey
<1>2. /\ LoadKey(slot) \in StorageKey /\ SlotOf(LoadKey(slot)) = slot
      /\ snapshot[LoadKey(slot)] # NoEntry
      /\ ~Expired(snapshot[LoadKey(slot)], now)
  BY <1>1 DEF Loadable
<1>3. snapshot[LoadKey(slot)] \in Entry
  BY <1>2 DEF TypeOK, StoredValue
<1>4. now - snapshot[LoadKey(slot)].timestamp <= TTL
  BY <1>2, <1>3, TtlAssumption DEF Expired, Entry, TypeOK
<1> QED
  BY <1>2, <1>3, <1>4

\* A step of an activation is a step of a running one, and every way it gives
\* up is the same GiveUp.
LEMMA TaskStepCases ==
  ASSUME TypeOK, NEW t \in Task, TaskStep(t)
  PROVE  /\ Live(t) /\ task[t] \in Activation /\ task[t].slot \in Slot
         /\ GiveUp(t) \/ FetchOk(t) \/ ReplyUsable(t) \/ StoreOk(t)
BY DEF TypeOK, TaskStep, FetchFails, FetchOk, ReplyUnusable, ReplyUsable,
       StoreOk, StoreFails, At, Live, Activation
----
LEMMA InitTypeOK == Init => TypeOK
<1> SUFFICES ASSUME Init PROVE TypeOK
  OBVIOUS
<1>1. now \in Nat /\ boot \in 0..now
  BY DEF Init
<1>2. alive \in BOOLEAN /\ loader \in {"off", "getting", "got", "done"}
  BY DEF Init
<1>3. /\ NothingStored \in [StorageKey -> StoredValue]
      /\ NothingCached \in [Slot -> CacheValue]
      /\ NothingRunning \in [Task -> Activation \cup {Idle}]
  BY DEF NothingStored, NothingCached, NothingRunning, StoredValue, CacheValue
<1> QED
  BY <1>1, <1>2, <1>3 DEF Init, TypeOK

LEMMA NextTypeOK == TypeOK /\ [Next]_vars => TypeOK'
<1> SUFFICES ASSUME TypeOK, [Next]_vars PROVE TypeOK'
  OBVIOUS
<1> USE DEF TypeOK
<1>1. CASE WorkerStart
  BY <1>1 DEF WorkerStart
<1>2. CASE WorkerKill
  BY <1>2 DEF WorkerKill, NothingStored, NothingCached, NothingRunning,
              StoredValue, CacheValue
<1>3. CASE LoadGet
  BY <1>3 DEF LoadGet
<1>4. CASE LoadFails
  BY <1>4 DEF LoadFails
<1>5. CASE LoadApply
  <2>1. \A slot \in Slot :
          Loadable(slot) # {} => snapshot[LoadKey(slot)] \in CacheValue
    BY LoadableEntry DEF CacheValue
  <2> QED
    BY <1>5, <2>1 DEF LoadApply, NothingStored, StoredValue
<1>6. ASSUME NEW slot \in Slot, NEW t \in Task, OnBeforeRequest(slot, t)
      PROVE  TypeOK'
  BY <1>6 DEF OnBeforeRequest, loadVars, CacheValue, Activation
<1>7. ASSUME NEW t \in Task, TaskStep(t)
      PROVE  TypeOK'
  <2>1. Live(t) /\ task[t] \in Activation /\ task[t].slot \in Slot
    BY <1>7, TaskStepCases
  <2>2. CASE GiveUp(t)
    BY <2>1, <2>2 DEF GiveUp, loadVars, CacheValue
  <2>3. CASE FetchOk(t)
    BY <2>1, <2>3 DEF FetchOk, loadVars, Activation
  <2>4. CASE ReplyUsable(t)
    BY <2>1, <2>4 DEF ReplyUsable, loadVars, Activation, CacheValue, Entry
  <2>5. CASE StoreOk(t)
    BY <2>1, <2>5, StorageKeyRoundTrip
    DEF StoreOk, loadVars, Activation, StoredValue, Entry
  <2> QED
    BY <1>7, <2>2, <2>3, <2>4, <2>5, TaskStepCases
<1>8. CASE Tick
  BY <1>8 DEF Tick, loadVars
<1>9. ASSUME NEW slot \in Slot, PageStores(slot) \/ PageRemoves(slot)
      PROVE  TypeOK'
  BY <1>9, StorageKeyRoundTrip
  DEF PageStores, PageRemoves, loadVars, StoredValue, Entry
<1>10. CASE UNCHANGED vars
  BY <1>10 DEF vars
<1> QED
  BY <1>1, <1>2, <1>3, <1>4, <1>5, <1>6, <1>7, <1>8, <1>9, <1>10 DEF Next

\* Every variable keeps its shape in every state the worker reaches.
THEOREM TypeCorrect == Spec => []TypeOK
BY InitTypeOK, NextTypeOK, PTL DEF Spec
----
(***************************************************************************)
(* The inductive invariant, one lemma per part.                            *)
(***************************************************************************)
LEMMA NextDeadIsEmpty ==
  TypeOK /\ DeadIsEmpty /\ [Next]_vars => DeadIsEmpty'
<1> SUFFICES ASSUME TypeOK, DeadIsEmpty, [Next]_vars PROVE DeadIsEmpty'
  OBVIOUS
<1> USE DEF DeadIsEmpty
<1>1. CASE WorkerStart
  BY <1>1 DEF WorkerStart
<1>2. CASE WorkerKill
  BY <1>2 DEF WorkerKill, NothingCached, NothingRunning
<1>3. CASE LoadGet
  BY <1>3 DEF LoadGet, NothingCached, NothingRunning
<1>4. CASE LoadFails
  BY <1>4 DEF LoadFails, NothingCached, NothingRunning
<1>5. CASE LoadApply
  BY <1>5 DEF LoadApply, NothingCached, NothingRunning
<1>6. ASSUME NEW slot \in Slot, NEW t \in Task, OnBeforeRequest(slot, t)
      PROVE  DeadIsEmpty'
  BY <1>6 DEF OnBeforeRequest
<1>7. ASSUME NEW t \in Task, TaskStep(t)
      PROVE  DeadIsEmpty'
  <2>1. Live(t)
    BY <1>7, TaskStepCases
  <2>2. alive
    BY <2>1 DEF Live, NothingRunning, TypeOK
  <2>3. alive'
    BY <1>7, <2>2, TaskStepCases DEF GiveUp, FetchOk, ReplyUsable, StoreOk
  <2> QED
    BY <2>3
<1>8. CASE Tick
  BY <1>8 DEF Tick, NothingCached, NothingRunning, loadVars
<1>9. ASSUME NEW slot \in Slot, PageStores(slot) \/ PageRemoves(slot)
      PROVE  DeadIsEmpty'
  BY <1>9 DEF PageStores, PageRemoves, NothingCached, NothingRunning, loadVars
<1>10. CASE UNCHANGED vars
  BY <1>10 DEF vars, NothingCached, NothingRunning
<1> QED
  BY <1>1, <1>2, <1>3, <1>4, <1>5, <1>6, <1>7, <1>8, <1>9, <1>10 DEF Next

\* Steps that touch neither the map nor the activations keep FlightInv.
LEMMA FlightInvStutter ==
  ASSUME FlightInv, UNCHANGED <<cache, task>>
  PROVE  FlightInv'
BY DEF FlightInv, SingleFlight, SlotHeld, NullMeansInProgress, Live, Querying, At

LEMMA NextFlightInv ==
  TypeOK /\ FlightInv /\ [Next]_vars => FlightInv'
<1> SUFFICES ASSUME TypeOK, FlightInv, [Next]_vars PROVE FlightInv'
  OBVIOUS
<1> USE DEF FlightInv
<1>1. CASE WorkerKill
  <2>1. \A t \in Task : ~Live(t)'
    BY <1>1 DEF WorkerKill, NothingRunning, Live
  <2>2. \A slot \in Slot : cache'[slot] = Absent
    BY <1>1 DEF WorkerKill, NothingCached
  <2> QED
    BY <2>1, <2>2, ValueAssumption DEF SingleFlight, SlotHeld, NullMeansInProgress
<1>2. CASE LoadApply
  <2>1. \A slot \in Slot :
          \/ cache'[slot] = cache[slot]
          \/ cache'[slot] \in Entry
    BY <1>2, LoadableEntry DEF LoadApply
  <2>2. UNCHANGED task
    BY <1>2 DEF LoadApply
  <2>3. SingleFlight'
    BY <2>2 DEF SingleFlight, Live
  <2>4. SlotHeld'
    <3> SUFFICES ASSUME NEW t \in Task, Live(t) PROVE cache'[task[t].slot] # Absent
      BY <2>2 DEF SlotHeld, Live
    <3>1. task[t].slot \in Slot
      BY DEF TypeOK, Live, Activation
    <3> QED
      BY <2>1, <3>1, ValueAssumption DEF SlotHeld
  <2>5. NullMeansInProgress'
    BY <2>1, <2>2, ValueAssumption DEF NullMeansInProgress, Querying, At, Live
  <2> QED
    BY <2>3, <2>4, <2>5
<1>3. ASSUME NEW slot \in Slot, NEW t \in Task, OnBeforeRequest(slot, t)
      PROVE  FlightInv'
  <2> DEFINE a == [at |-> "fetching", slot |-> slot, stamp |-> 0]
  <2>1. /\ cache[slot] = Absent /\ ~Live(t)
        /\ cache' = [cache EXCEPT ![slot] = InProgress]
        /\ task' = [task EXCEPT ![t] = a]
    BY <1>3 DEF OnBeforeRequest
  <2>2. a \in Activation /\ a # Idle /\ a.slot = slot /\ a.at = "fetching"
    BY IdleAssumption DEF Activation
  <2> HIDE DEF a
  <2>3. /\ task'[t] = a
        /\ \A u \in Task \ {t} : task'[u] = task[u]
    BY <2>1 DEF TypeOK
  <2>4. /\ cache'[slot] = InProgress
        /\ \A s \in Slot \ {slot} : cache'[s] = cache[s]
    BY <2>1 DEF TypeOK
  <2>5. \A u \in Task : Live(u) => task[u].slot \in Slot /\ task[u].slot # slot
    BY <2>1 DEF SlotHeld, TypeOK, Live, Activation
  <2>6. SingleFlight'
    BY <2>2, <2>3, <2>5 DEF SingleFlight, Live
  <2>7. SlotHeld'
    BY <2>2, <2>3, <2>4, <2>5, ValueAssumption DEF SlotHeld, Live
  <2>8. NullMeansInProgress'
    BY <2>1, <2>2, <2>3, <2>4 DEF NullMeansInProgress, Querying, At, Live
  <2> QED
    BY <2>6, <2>7, <2>8
<1>4. ASSUME NEW t \in Task, TaskStep(t)
      PROVE  FlightInv'
  <2> DEFINE s == task[t].slot
  <2>1. Live(t) /\ task[t] \in Activation /\ s \in Slot
    BY <1>4, TaskStepCases
  <2>2. \A u \in Task \ {t} : Live(u) => task[u].slot # s
    BY <2>1 DEF SingleFlight
  <2>3. \A u \in Task : Live(u) => task[u].slot \in Slot
    BY DEF TypeOK, Live, Activation
  <2>4. CASE GiveUp(t)
    <3>1. /\ task'[t] = Idle /\ \A u \in Task \ {t} : task'[u] = task[u]
          /\ cache'[s] = Absent /\ \A r \in Slot \ {s} : cache'[r] = cache[r]
      BY <2>1, <2>4 DEF GiveUp, TypeOK
    <3> HIDE DEF s
    <3>2. SingleFlight'
      BY <3>1 DEF SingleFlight, Live
    <3>3. SlotHeld'
      BY <2>2, <2>3, <3>1 DEF SlotHeld, Live
    <3>4. NullMeansInProgress'
      BY <3>1, ValueAssumption DEF NullMeansInProgress, Querying, At, Live, s
    <3> QED
      BY <3>2, <3>3, <3>4
  <2>5. CASE FetchOk(t)
    <3>1. /\ task'[t] \in Activation
          /\ task'[t].slot = s /\ task'[t].at = "reading"
          /\ \A u \in Task \ {t} : task'[u] = task[u]
          /\ cache' = cache
      BY <2>1, <2>5 DEF FetchOk, TypeOK, Activation
    <3>2. task'[t] # Idle
      BY <3>1, IdleAssumption
    <3>3. SingleFlight'
      BY <2>1, <3>1, <3>2 DEF SingleFlight, Live
    <3>4. SlotHeld'
      BY <2>1, <3>1, <3>2 DEF SlotHeld, Live
    <3>5. NullMeansInProgress'
      BY <2>1, <3>1, <3>2 DEF NullMeansInProgress, Querying, At, Live
    <3> QED
      BY <3>3, <3>4, <3>5
  <2>6. CASE ReplyUsable(t)
    <3> DEFINE e == [from |-> s, timestamp |-> now]
    <3>1. e \in Entry
      BY <2>1 DEF Entry, TypeOK
    <3>2. /\ task'[t] \in Activation /\ task'[t].slot = s
          /\ \A u \in Task \ {t} : task'[u] = task[u]
          /\ cache'[s] = e /\ \A r \in Slot \ {s} : cache'[r] = cache[r]
      BY <2>1, <2>6 DEF ReplyUsable, TypeOK, Activation
    <3>3. task'[t] # Idle
      BY <3>2, IdleAssumption
    <3> HIDE DEF e
    <3>4. SingleFlight'
      BY <2>1, <3>2, <3>3 DEF SingleFlight, Live
    <3>5. SlotHeld'
      BY <2>1, <2>2, <2>3, <3>1, <3>2, <3>3, ValueAssumption DEF SlotHeld, Live
    <3>6. NullMeansInProgress'
      BY <2>1, <2>2, <3>1, <3>2, <3>3, ValueAssumption
      DEF NullMeansInProgress, Querying, At, Live
    <3> QED
      BY <3>4, <3>5, <3>6
  <2>7. CASE StoreOk(t)
    <3>1. /\ task'[t] = Idle /\ \A u \in Task \ {t} : task'[u] = task[u]
          /\ cache' = cache
      BY <2>1, <2>7 DEF StoreOk, TypeOK
    <3>2. ~Querying(t)
      BY <2>7 DEF StoreOk, Querying, At
    <3>3. SingleFlight'
      BY <3>1 DEF SingleFlight, Live
    <3>4. SlotHeld'
      BY <3>1 DEF SlotHeld, Live
    <3>5. NullMeansInProgress'
      BY <3>1, <3>2 DEF NullMeansInProgress, Querying, At, Live
    <3> QED
      BY <3>3, <3>4, <3>5
  <2> QED
    BY <1>4, <2>4, <2>5, <2>6, <2>7, TaskStepCases
<1>5. CASE WorkerStart \/ LoadGet \/ LoadFails \/ Tick \/ UNCHANGED vars
  BY <1>5, FlightInvStutter DEF WorkerStart, LoadGet, LoadFails, Tick, vars
<1>6. ASSUME NEW slot \in Slot, PageStores(slot) \/ PageRemoves(slot)
      PROVE  FlightInv'
  BY <1>6, FlightInvStutter DEF PageStores, PageRemoves
<1> QED
  BY <1>1, <1>2, <1>3, <1>4, <1>5, <1>6 DEF Next
----
\* What activations and pages write to the storage goes under its own key.
LEMMA StoreUnderItsKey ==
  ASSUME TypeOK, StoredUnderItsKey, NEW slot \in Slot, NEW time \in Nat,
         storage' = [storage EXCEPT ![StorageKeyOf(slot)] =
                       [from |-> slot, timestamp |-> time]],
         UNCHANGED snapshot
  PROVE  StoredUnderItsKey'
<1>1. StorageKeyOf(slot) \in StorageKey /\ SlotOf(StorageKeyOf(slot)) = slot
  BY StorageKeyRoundTrip
<1>2. storage'[StorageKeyOf(slot)].from = slot
  BY <1>1 DEF TypeOK
<1> QED
  BY <1>1, <1>2 DEF StoredUnderItsKey, TypeOK

LEMMA NextFileInv ==
  TypeOK /\ FileInv /\ [Next]_vars => FileInv'
<1> SUFFICES ASSUME TypeOK, FileInv, [Next]_vars PROVE FileInv'
  OBVIOUS
<1> USE DEF FileInv
<1>a. StoredUnderItsKey /\ UNCHANGED <<storage, snapshot>> => StoredUnderItsKey'
  BY DEF StoredUnderItsKey
<1>b. CachedUnderItsKey /\ UNCHANGED cache => CachedUnderItsKey'
  BY DEF CachedUnderItsKey
<1>c. snapshot' = NothingStored /\ UNCHANGED storage => StoredUnderItsKey'
  BY DEF StoredUnderItsKey, NothingStored
<1>1. CASE WorkerKill
  BY <1>1, <1>c, ValueAssumption
  DEF WorkerKill, NothingCached, CachedUnderItsKey
<1>2. CASE LoadGet
  BY <1>2, <1>b DEF LoadGet, StoredUnderItsKey
<1>3. CASE LoadApply
  <2>1. \A slot \in Slot :
          \/ cache'[slot] = cache[slot]
          \/ cache'[slot].from = slot
    BY <1>3, LoadableEntry DEF LoadApply, StoredUnderItsKey
  <2> QED
    BY <1>3, <1>c, <2>1 DEF LoadApply, CachedUnderItsKey
<1>4. ASSUME NEW slot \in Slot, NEW t \in Task, OnBeforeRequest(slot, t)
      PROVE  FileInv'
  <2>1. CachedUnderItsKey'
    BY <1>4, ValueAssumption DEF OnBeforeRequest, CachedUnderItsKey, TypeOK
  <2> QED
    BY <1>4, <1>a, <2>1 DEF OnBeforeRequest, loadVars
<1>5. ASSUME NEW t \in Task, TaskStep(t)
      PROVE  FileInv'
  <2>1. task[t].slot \in Slot /\ task[t].stamp \in Nat
    BY <1>5, TaskStepCases DEF Activation
  <2>2. CASE GiveUp(t)
    <3>1. CachedUnderItsKey'
      BY <2>1, <2>2, ValueAssumption DEF GiveUp, CachedUnderItsKey, TypeOK
    <3> QED
      BY <2>2, <1>a, <3>1 DEF GiveUp, loadVars
  <2>3. CASE FetchOk(t)
    BY <2>3, <1>a, <1>b DEF FetchOk, loadVars
  <2>4. CASE ReplyUsable(t)
    <3>1. CachedUnderItsKey'
      BY <2>1, <2>4 DEF ReplyUsable, CachedUnderItsKey, TypeOK
    <3> QED
      BY <2>4, <1>a, <3>1 DEF ReplyUsable, loadVars
  <2>5. CASE StoreOk(t)
    BY <2>1, <2>5, <1>b, StoreUnderItsKey DEF StoreOk, loadVars
  <2> QED
    BY <1>5, <2>2, <2>3, <2>4, <2>5, TaskStepCases
<1>6. ASSUME NEW slot \in Slot, PageStores(slot)
      PROVE  FileInv'
  <2> PICK stamp \in 0..now :
         storage' = [storage EXCEPT ![StorageKeyOf(slot)] =
                       [from |-> slot, timestamp |-> stamp]]
    BY <1>6 DEF PageStores
  <2>1. stamp \in Nat
    BY DEF TypeOK
  <2> QED
    BY <1>6, <1>b, <2>1, StoreUnderItsKey DEF PageStores, loadVars
<1>7. ASSUME NEW slot \in Slot, PageRemoves(slot)
      PROVE  FileInv'
  <2>1. StoredUnderItsKey'
    BY <1>7 DEF PageRemoves, loadVars, StoredUnderItsKey, TypeOK
  <2> QED
    BY <1>7, <1>b, <2>1 DEF PageRemoves
<1>8. CASE WorkerStart \/ LoadFails \/ Tick \/ UNCHANGED vars
  BY <1>8, <1>a, <1>b DEF WorkerStart, LoadFails, Tick, vars, loadVars
<1> QED
  BY <1>1, <1>2, <1>3, <1>4, <1>5, <1>6, <1>7, <1>8 DEF Next

LEMMA NextBoundedStaleness ==
  TypeOK /\ DeadIsEmpty /\ BoundedStaleness /\ [Next]_vars => BoundedStaleness'
<1> SUFFICES ASSUME TypeOK, DeadIsEmpty, BoundedStaleness, [Next]_vars
             PROVE  BoundedStaleness'
  OBVIOUS
<1> USE DEF BoundedStaleness
<1>1. CASE WorkerStart
  BY <1>1, ValueAssumption DEF WorkerStart, DeadIsEmpty, NothingCached
<1>2. CASE WorkerKill
  BY <1>2, ValueAssumption DEF WorkerKill, NothingCached
<1>3. CASE LoadApply
  <2>1. ASSUME NEW slot \in Slot, cache'[slot] \in Entry
        PROVE  boot' - cache'[slot].timestamp <= TTL
    <3>1. CASE Loadable(slot) = {}
      BY <1>3, <2>1, <3>1 DEF LoadApply
    <3>2. CASE Loadable(slot) # {}
      <4>1. cache'[slot] = snapshot[LoadKey(slot)] /\ boot' = boot
        BY <1>3, <3>2 DEF LoadApply
      <4>2. now - cache'[slot].timestamp <= TTL
        BY <3>2, <4>1, LoadableEntry
      <4> QED
        BY <2>1, <4>1, <4>2, TtlAssumption DEF TypeOK, Entry
    <3> QED
      BY <3>1, <3>2
  <2> QED
    BY <2>1
<1>4. ASSUME NEW slot \in Slot, NEW t \in Task, OnBeforeRequest(slot, t)
      PROVE  BoundedStaleness'
  BY <1>4, ValueAssumption DEF OnBeforeRequest, TypeOK
<1>5. ASSUME NEW t \in Task, TaskStep(t)
      PROVE  BoundedStaleness'
  <2>1. task[t].slot \in Slot
    BY <1>5, TaskStepCases
  <2>2. CASE GiveUp(t)
    BY <2>1, <2>2, ValueAssumption DEF GiveUp, TypeOK
  <2>3. CASE FetchOk(t) \/ StoreOk(t)
    BY <2>3 DEF FetchOk, StoreOk
  <2>4. CASE ReplyUsable(t)
    <3> DEFINE e == [from |-> task[t].slot, timestamp |-> now]
    <3>1. boot - e.timestamp <= TTL
      BY TtlAssumption DEF TypeOK
    <3>2. cache' = [cache EXCEPT ![task[t].slot] = e] /\ boot' = boot
      BY <2>4 DEF ReplyUsable
    <3> HIDE DEF e
    <3> QED
      BY <2>1, <3>1, <3>2 DEF TypeOK
  <2> QED
    BY <1>5, <2>2, <2>3, <2>4, TaskStepCases
<1>6. CASE LoadGet \/ LoadFails \/ Tick \/ UNCHANGED vars
  BY <1>6 DEF LoadGet, LoadFails, Tick, vars
<1>7. ASSUME NEW slot \in Slot, PageStores(slot) \/ PageRemoves(slot)
      PROVE  BoundedStaleness'
  BY <1>7 DEF PageStores, PageRemoves
<1> QED
  BY <1>1, <1>2, <1>3, <1>4, <1>5, <1>6, <1>7 DEF Next
----
LEMMA Inductive == Spec => []IInv
<1>1. Init => IInv
  <2> SUFFICES ASSUME Init PROVE IInv
    OBVIOUS
  <2>1. TypeOK
    BY InitTypeOK
  <2>2. DeadIsEmpty
    BY DEF Init, DeadIsEmpty
  <2>3. \A t \in Task : ~Live(t)
    BY DEF Init, NothingRunning, Live
  <2>4. \A slot \in Slot : cache[slot] = Absent
    BY DEF Init, NothingCached
  <2>5. FlightInv
    BY <2>3, <2>4, ValueAssumption
    DEF FlightInv, SingleFlight, SlotHeld, NullMeansInProgress
  <2>6. FileInv
    BY <2>4, ValueAssumption
    DEF Init, FileInv, StoredUnderItsKey, CachedUnderItsKey, NothingStored
  <2>7. BoundedStaleness
    BY <2>4, ValueAssumption DEF BoundedStaleness
  <2> QED
    BY <2>1, <2>2, <2>5, <2>6, <2>7 DEF IInv
<1>2. IInv /\ [Next]_vars => IInv'
  BY NextTypeOK, NextDeadIsEmpty, NextFlightInv, NextFileInv,
     NextBoundedStaleness DEF IInv
<1> QED
  BY <1>1, <1>2, PTL DEF Spec

\* At most one activation works on a cache key (the sentinel of resolveSrv).
THEOREM SingleFlightHolds == Spec => []SingleFlight
<1>1. IInv => SingleFlight
  BY DEF IInv, FlightInv
<1> QED
  BY <1>1, Inductive, PTL

\* A sentinel stands only while an activation queries its key.
THEOREM NullMeansInProgressHolds == Spec => []NullMeansInProgress
<1>1. IInv => NullMeansInProgress
  BY DEF IInv, FlightInv
<1> QED
  BY <1>1, Inductive, PTL

\* Answers stay under the key they were obtained for, through loadCache's
\* decoding of the storage keys.
THEOREM FiledUnderItsKeyHolds == Spec => []FiledUnderItsKey
<1>1. IInv => FiledUnderItsKey
  <2> SUFFICES ASSUME IInv PROVE FiledUnderItsKey
    OBVIOUS
  <2>1. ASSUME NEW slot \in Slot, storage[StorageKeyOf(slot)] \in Entry
        PROVE  storage[StorageKeyOf(slot)].from = slot
    BY <2>1, StorageKeyRoundTrip, NoEntryAssumption
    DEF IInv, FileInv, StoredUnderItsKey
  <2> QED
    BY <2>1 DEF IInv, FileInv, CachedUnderItsKey, FiledUnderItsKey
<1> QED
  BY <1>1, Inductive, PTL

\* What the worker redirects by was at most TTL old when it started.
THEOREM BoundedStalenessHolds == Spec => []BoundedStaleness
<1>1. IInv => BoundedStaleness
  BY DEF IInv
<1> QED
  BY <1>1, Inductive, PTL
----
(***************************************************************************)
(* Refinement.  Status and Busy abbreviate the mapping of Promise.         *)
(***************************************************************************)
Status == [slot \in Slot |-> StatusOf(cache[slot])]
Busy == {task[t].slot : t \in {u \in Task : Live(u)}}

LEMMA StatusValues ==
  ASSUME NEW value \in CacheValue
  PROVE  /\ StatusOf(value) = "unknown" <=> value = Absent
         /\ StatusOf(value) = "resolving" <=> value = InProgress
         /\ StatusOf(value) = "known" <=> value \in Entry
BY ValueAssumption DEF StatusOf, CacheValue

\* A step that keeps the map and the activations is a stutter.
LEMMA StutterRefines ==
  ASSUME UNCHANGED <<cache, task>>
  PROVE  UNCHANGED <<Status, Busy>>
BY DEF Status, Busy, Live

LEMMA LoadRefines ==
  ASSUME IInv, LoadApply
  PROVE  Promise!Next
<1> DEFINE S == {slot \in Slot : Loadable(slot) # {}}
<1>1. TypeOK /\ S \in SUBSET Slot
  BY DEF IInv
<1>2. ASSUME NEW slot \in Slot
      PROVE  StatusOf(cache'[slot]) = IF slot \in S THEN "known" ELSE Status[slot]
  <2>1. CASE slot \in S
    <3>1. cache'[slot] \in Entry
      BY <1>1, <2>1, LoadableEntry DEF LoadApply
    <3> QED
      BY <2>1, <3>1, StatusValues DEF CacheValue
  <2>2. CASE slot \notin S
    BY <2>2 DEF LoadApply, Status
  <2> QED
    BY <2>1, <2>2
<1> HIDE DEF S
<1>3. Status' = [slot \in Slot |-> IF slot \in S THEN "known" ELSE Status[slot]]
  BY <1>2 DEF Status
<1>4. Busy' = Busy
  BY DEF LoadApply, Busy, Live
<1> QED
  BY <1>1, <1>3, <1>4
  DEF Promise!Next, Promise!Load, Promise!Known, Status, Busy

LEMMA RequestRefines ==
  ASSUME IInv, NEW slot \in Slot, NEW t \in Task, OnBeforeRequest(slot, t)
  PROVE  Promise!Begin(slot)
<1>1. cache \in [Slot -> CacheValue] /\ task \in [Task -> Activation \cup {Idle}]
  BY DEF IInv, TypeOK
<1> DEFINE a == [at |-> "fetching", slot |-> slot, stamp |-> 0]
<1>2. a # Idle /\ a.slot = slot
  BY IdleAssumption DEF Activation
<1>3. /\ task'[t] = a /\ \A u \in Task \ {t} : task'[u] = task[u]
      /\ ~Live(t)
      /\ cache[slot] = Absent /\ cache' = [cache EXCEPT ![slot] = InProgress]
  BY <1>1 DEF OnBeforeRequest
<1> HIDE DEF a
<1>4. slot \notin Busy
  BY <1>3 DEF IInv, FlightInv, SlotHeld, Busy
<1>5. Busy' = Busy \cup {slot}
  BY <1>2, <1>3 DEF Busy, Live
<1>6. Status[slot] = "unknown" /\ Status' = [Status EXCEPT ![slot] = "resolving"]
  BY <1>1, <1>3, ValueAssumption DEF Status, StatusOf
<1> QED
  BY <1>4, <1>5, <1>6
  DEF Promise!Begin, Promise!Unknown, Promise!Resolving, Status, Busy

LEMMA TaskRefines ==
  ASSUME IInv, NEW t \in Task, TaskStep(t)
  PROVE  Promise!Next \/ UNCHANGED <<Status, Busy>>
<1> DEFINE s == task[t].slot
<1>1. TypeOK /\ Live(t) /\ task[t] \in Activation /\ s \in Slot
  BY TaskStepCases DEF IInv
<1>2. cache \in [Slot -> CacheValue] /\ task \in [Task -> Activation \cup {Idle}]
  BY <1>1 DEF TypeOK
<1>3. s \in Busy
  BY <1>1 DEF Busy
<1>4. \A u \in Task \ {t} : Live(u) => task[u].slot # s
  BY <1>1 DEF IInv, FlightInv, SingleFlight
<1>5. ASSUME task'[t] = Idle, \A u \in Task \ {t} : task'[u] = task[u]
      PROVE  Busy' = Busy \ {s}
  BY <1>4, <1>5 DEF Busy, Live
<1>6. CASE GiveUp(t)
  <2>1. task'[t] = Idle /\ \A u \in Task \ {t} : task'[u] = task[u]
    BY <1>2, <1>6 DEF GiveUp
  <2>2. Status' = [Status EXCEPT ![s] = "unknown"]
    BY <1>1, <1>2, <1>6 DEF GiveUp, Status, StatusOf
  <2> QED
    BY <1>1, <1>3, <1>5, <2>1, <2>2
    DEF Promise!Next, Promise!Fail, Promise!Unknown, Status, Busy
<1>7. CASE FetchOk(t)
  <2>1. /\ task'[t] \in Activation /\ task'[t].slot = s
        /\ \A u \in Task \ {t} : task'[u] = task[u]
    BY <1>1, <1>2, <1>7 DEF FetchOk, Activation
  <2>2. Busy' = Busy
    BY <1>1, <2>1, IdleAssumption DEF Busy, Live
  <2>3. Status' = Status
    BY <1>7 DEF FetchOk, Status
  <2> QED
    BY <2>2, <2>3
<1>8. CASE ReplyUsable(t)
  <2> DEFINE e == [from |-> s, timestamp |-> now]
  <2>1. e \in Entry
    BY <1>1 DEF Entry, TypeOK
  <2>2. /\ task'[t] \in Activation /\ task'[t].slot = s
        /\ \A u \in Task \ {t} : task'[u] = task[u]
    BY <1>1, <1>2, <1>8 DEF ReplyUsable, Activation, TypeOK
  <2>6. cache' = [cache EXCEPT ![s] = e]
    BY <1>8 DEF ReplyUsable
  <2> HIDE DEF e
  <2>3. Busy' = Busy
    BY <1>1, <2>2, IdleAssumption DEF Busy, Live
  <2>4. StatusOf(e) = "known"
    BY <2>1, StatusValues DEF CacheValue
  <2>5. Status' = [Status EXCEPT ![s] = "known"]
    BY <1>1, <1>2, <2>4, <2>6 DEF Status
  <2> QED
    BY <1>1, <1>3, <2>3, <2>5
    DEF Promise!Next, Promise!Answer, Promise!Known, Status, Busy
<1>9. CASE StoreOk(t)
  <2>1. /\ task'[t] = Idle /\ \A u \in Task \ {t} : task'[u] = task[u]
        /\ cache' = cache
    BY <1>2, <1>9 DEF StoreOk
  <2>2. cache[s] # Absent /\ cache[s] # InProgress
    <3>1. cache[s] # Absent
      BY <1>1 DEF IInv, FlightInv, SlotHeld
    <3>2. ~Querying(t)
      BY <1>9 DEF StoreOk, Querying, At
    <3>3. cache[s] # InProgress
      BY <1>1, <1>4, <3>2
      DEF IInv, FlightInv, NullMeansInProgress, Querying, At
    <3> QED
      BY <3>1, <3>3
  <2>3. Status[s] = "known" /\ Status' = Status
    BY <1>1, <2>1, <2>2 DEF Status, StatusOf
  <2> QED
    BY <1>1, <1>3, <1>5, <2>1, <2>3
    DEF Promise!Next, Promise!Finish, Promise!Known, Status, Busy
<1> QED
  BY <1>1, <1>6, <1>7, <1>8, <1>9, TaskStepCases

\* The worker implements the abstract single-flight cache, step by step.
THEOREM Refinement == Spec => ImplementsSrvCache
<1>1. Init => Promise!Init
  <2> SUFFICES ASSUME Init PROVE Promise!Init
    OBVIOUS
  <2>1. Status = [slot \in Slot |-> "unknown"]
    BY DEF Init, Status, NothingCached, StatusOf
  <2>2. Busy = {}
    BY DEF Init, Busy, NothingRunning, Live
  <2> QED
    BY <2>1, <2>2 DEF Promise!Init, Promise!Unknown, Status, Busy
<1>2. IInv /\ [Next]_vars => Promise!Next \/ UNCHANGED <<Status, Busy>>
  <2> SUFFICES ASSUME IInv, [Next]_vars
               PROVE  Promise!Next \/ UNCHANGED <<Status, Busy>>
    OBVIOUS
  <2>1. CASE WorkerKill
    <3>1. Status' = [slot \in Slot |-> "unknown"]
      BY <2>1 DEF WorkerKill, Status, NothingCached, StatusOf
    <3>2. Busy' = {}
      BY <2>1 DEF WorkerKill, Busy, NothingRunning, Live
    <3> QED
      BY <3>1, <3>2
      DEF Promise!Next, Promise!Restart, Promise!Unknown, Status, Busy
  <2>2. CASE LoadApply
    BY <2>2, LoadRefines
  <2>3. ASSUME NEW slot \in Slot, NEW t \in Task, OnBeforeRequest(slot, t)
        PROVE  Promise!Next
    BY <2>3, RequestRefines DEF Promise!Next
  <2>4. ASSUME NEW t \in Task, TaskStep(t)
        PROVE  Promise!Next \/ UNCHANGED <<Status, Busy>>
    BY <2>4, TaskRefines
  <2>5. CASE WorkerStart \/ LoadGet \/ LoadFails \/ Tick \/ UNCHANGED vars
    BY <2>5, StutterRefines DEF WorkerStart, LoadGet, LoadFails, Tick, vars
  <2>6. ASSUME NEW slot \in Slot, PageStores(slot) \/ PageRemoves(slot)
        PROVE  UNCHANGED <<Status, Busy>>
    BY <2>6, StutterRefines DEF PageStores, PageRemoves
  <2> QED
    BY <2>1, <2>2, <2>3, <2>4, <2>5, <2>6 DEF Next
<1> QED
  BY <1>1, <1>2, Inductive, PTL
  DEF Spec, ImplementsSrvCache, Promise!Spec, Status, Busy
====
