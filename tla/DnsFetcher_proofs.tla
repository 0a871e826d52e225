---- MODULE DnsFetcher_proofs ----
(***************************************************************************)
(* Theorems about DnsFetcher, for every set of callers, hosts and kinds    *)
(* and every TTL and clock bound.                                          *)
(*                                                                         *)
(* The inductive invariant IInv follows an answer from the query to the    *)
(* storage and from there to another caller: it is filed under the key of  *)
(* the slot it was asked for (FiledUnderItsKey, for which no two slots may *)
(* share a key), and while a call holds it, it is not older than the call  *)
(* allows (HeldIsRecent).                                                  *)
(***************************************************************************)
EXTENDS DnsFetcher, TLAPS

FiledUnderItsKey ==
  \A slot \in Slot :
    storage[StorageKeyOf(slot)] # NoEntry => storage[StorageKeyOf(slot)].from = slot

\* An answer of the call's own slot, at most TTL old when the call was made.
FitsCall(c) ==
  /\ call[c].entry.from = call[c].slot
  /\ call[c].since - call[c].entry.timestamp <= TTL

HeldIsRecent ==
  \A c \in CallId : Called(c) =>
    /\ call[c].since <= now
    /\ At(c, "storing") => FitsCall(c)
    /\ At(c, "resolved") /\ call[c].entry # NoEntry => FitsCall(c)

\* The calls that resolveAllServices makes are for the slots they are named by.
CalledByName == \A c \in AllCall : Called(c) => call[c].slot = c

\* Once resolveAllServices has resolved, its calls have, to what it answered.
AnswersAreTheirs ==
  all = "resolved" => \A c \in AllCall : At(c, "resolved") /\ answers[c] = call[c].entry

IInv == TypeOK /\ FiledUnderItsKey /\ HeldIsRecent /\ CalledByName /\ AnswersAreTheirs
----
\* A sequence and its last element can be told from the two together.
LEMMA AppendIsOneToOne ==
  ASSUME NEW S, NEW s \in Seq(S), NEW e \in S
  PROVE  LET n == Append(s, e)
         IN  s = SubSeq(n, 1, Len(n) - 1) /\ e = n[Len(n)]
<1> DEFINE n == Append(s, e)
<1>1. n \in Seq(S) /\ Len(n) = Len(s) + 1 /\ n[Len(n)] = e
  OBVIOUS
<1>2. SubSeq(n, 1, Len(n) - 1) = s
  BY <1>1
<1> QED
  BY <1>1, <1>2

\* A slot's storage key is one of the keys, and no other slot's: the domain and
\* the service can be told from it, though both may hold "_".
LEMMA StorageKeyIsOwn ==
  ASSUME NEW slot \in Slot
  PROVE  /\ StorageKeyOf(slot) \in StorageKey
         /\ \A other \in Slot : StorageKeyOf(other) = StorageKeyOf(slot) => other = slot
<1>1. StorageKeyOf(slot) \in StorageKey
  BY DEF StorageKey
<1>2. ASSUME NEW other \in Slot, StorageKeyOf(other) = StorageKeyOf(slot)
      PROVE  other = slot
  <2>1. /\ slot = <<slot[1], slot[2]>> /\ other = <<other[1], other[2]>>
        /\ slot[1] \in Seq(Segment) /\ other[1] \in Seq(Segment)
        /\ slot[2] \in Kind /\ other[2] \in Kind
    BY DomainAssumption DEF Slot
  <2>2. slot[2] \in Segment /\ other[2] \in Segment
    BY <2>1, KindAssumption
  <2>3. CASE slot[2] = "identity" /\ other[2] = "identity"
    <3>1. slot[1] = other[1]
      BY <1>2, <2>3 DEF StorageKeyOf
    <3> QED
      BY <2>1, <2>3, <3>1
  <2>4. CASE slot[2] # "identity" /\ other[2] # "identity"
    <3>1. Append(slot[1], slot[2]) = Append(other[1], other[2])
      BY <1>2, <2>4 DEF StorageKeyOf
    <3> DEFINE n == Append(slot[1], slot[2])  m == Append(other[1], other[2])
    <3>2. slot[1] = SubSeq(n, 1, Len(n) - 1) /\ slot[2] = n[Len(n)]
      BY <2>1, <2>2, AppendIsOneToOne, Zenon
    <3>3. other[1] = SubSeq(m, 1, Len(m) - 1) /\ other[2] = m[Len(m)]
      BY <2>1, <2>2, AppendIsOneToOne, Zenon
    <3> HIDE DEF n, m
    <3>4. n = m
      BY <3>1 DEF n, m
    <3> QED
      BY <2>1, <3>2, <3>3, <3>4
  <2>5. CASE (slot[2] = "identity") # (other[2] = "identity")
    BY <1>2, <2>5 DEF StorageKeyOf
  <2> QED
    BY <2>3, <2>4, <2>5
<1> QED
  BY <1>1, <1>2

LEMMA SlotOfAllCall ==
  ASSUME NEW c \in AllCall
  PROVE  c \in Slot /\ c[2] # "identity" /\ c \in CallId /\ c \notin Caller
BY CallAssumption DEF AllCall, SrvServices, CallId

\* What a step of a call acts on: a call that has been made and is in one of the
\* places where it awaits something.
LEMMA StepOfCall ==
  ASSUME TypeOK, NEW c \in CallId, CallStep(c)
  PROVE  /\ call[c] \in Call /\ Called(c) /\ Pending(c)
         /\ KeyOf(c) \in StorageKey /\ storage[KeyOf(c)] \in StoredValue
<1>1. Called(c) /\ Pending(c)
  BY DEF CallStep, GetMiss, GetHit, GetExpired, Remove, StorageFails, FetchFails,
         FetchOk, ReplyUnusable, ReplyThrows, ReplyUsable, Store, At, Pending, Settled
<1>2. call[c] \in Call
  BY <1>1 DEF Called, TypeOK
<1>3. KeyOf(c) \in StorageKey
  BY <1>2, StorageKeyIsOwn DEF KeyOf, Call
<1> QED
  BY <1>1, <1>2, <1>3 DEF TypeOK
----
LEMMA InitIInv == Init => IInv
<1> SUFFICES ASSUME Init PROVE IInv
  OBVIOUS
<1>1. \A c \in CallId : ~Called(c)
  BY DEF Init, Called
<1>2. TypeOK
  BY <1>1 DEF Init, TypeOK, NothingStored, StoredValue, At
<1>3. FiledUnderItsKey
  BY StorageKeyIsOwn DEF Init, FiledUnderItsKey, NothingStored
<1>4. HeldIsRecent
  BY <1>1 DEF HeldIsRecent
<1>5. CalledByName
  BY <1>1, SlotOfAllCall DEF CalledByName
<1>6. AnswersAreTheirs
  BY DEF Init, AnswersAreTheirs
<1> QED
  BY <1>2, <1>3, <1>4, <1>5, <1>6 DEF IInv

LEMMA NextTypeOK == TypeOK /\ [Next]_vars => TypeOK'
<1> SUFFICES ASSUME TypeOK, [Next]_vars PROVE TypeOK'
  OBVIOUS
<1> USE DEF TypeOK
<1>1. ASSUME NEW c \in Caller, NEW slot \in Slot, Invoke(c, slot)
      PROVE  TypeOK'
  <2>1. NewCall(slot) \in Call /\ NewCall(slot).at # "storing"
    BY DEF NewCall, Call, StoredValue
  <2>2. c \in CallId
    BY DEF CallId
  <2> QED
    BY <1>1, <2>1, <2>2 DEF Invoke, At, Called
<1>2. ASSUME NEW c \in CallId, CallStep(c)
      PROVE  TypeOK'
  <2>1. /\ call[c] \in Call /\ Called(c) /\ KeyOf(c) \in StorageKey
        /\ storage[KeyOf(c)] \in StoredValue
    BY <1>2, StepOfCall
  <2>2. ASSUME NEW at \in {"removing", "fetching", "reading", "resolved", "rejected"},
               Continue(c, at), UNCHANGED storage
        PROVE  TypeOK'
    BY <2>1, <2>2 DEF Continue, Call, At, Called
  <2>3. ASSUME NEW entry \in StoredValue, ResolveTo(c, entry), UNCHANGED storage
        PROVE  TypeOK'
    BY <2>1, <2>3 DEF ResolveTo, Call, At, Called
  <2>4. CASE GetMiss(c) \/ GetExpired(c) \/ StorageFails(c) \/ FetchOk(c) \/ ReplyThrows(c)
    BY <2>2, <2>4 DEF GetMiss, GetExpired, StorageFails, FetchOk, ReplyThrows
  <2>5. CASE GetHit(c)
    BY <2>1, <2>3, <2>5 DEF GetHit
  <2>6. CASE FetchFails(c) \/ ReplyUnusable(c)
    BY <2>3, <2>6 DEF FetchFails, ReplyUnusable, StoredValue
  <2>7. CASE Remove(c)
    BY <2>1, <2>7 DEF Remove, Continue, Call, At, Called, StoredValue
  <2>8. CASE ReplyUsable(c)
    <3>1. [from |-> call[c].slot, timestamp |-> now] \in Entry
      BY <2>1 DEF Call, Entry
    <3> QED
      BY <2>1, <2>8, <3>1 DEF ReplyUsable, Call, At, Called, StoredValue
  <2>9. CASE Store(c)
    <3>1. call[c].entry \in StoredValue
      BY <2>1 DEF Call
    <3> QED
      BY <2>1, <2>9, <3>1 DEF Store, Continue, Call, At, Called
  <2> QED
    BY <1>2, <2>4, <2>5, <2>6, <2>7, <2>8, <2>9 DEF CallStep
<1>3. CASE InvokeAll
  <2>1. ASSUME NEW c \in AllCall
        PROVE  NewCall(c) \in Call /\ NewCall(c).at # "storing"
    BY SlotOfAllCall DEF NewCall, Call, StoredValue
  <2> QED
    BY <1>3, <2>1 DEF InvokeAll, At, Called
<1>4. CASE AllReject \/ Tick \/ UNCHANGED vars
  BY <1>4 DEF AllReject, Tick, vars, At, Called
<1>5. CASE AllResolve
  <2>1. \A c \in AllCall : call[c].entry \in StoredValue
    BY <1>5, SlotOfAllCall DEF AllResolve, At, Called, Call
  <2>2. answers' \in [AllCall -> StoredValue]
    BY <1>5, <2>1 DEF AllResolve
  <2> QED
    BY <1>5, <2>2 DEF AllResolve, At, Called
<1> QED
  BY <1>1, <1>2, <1>3, <1>4, <1>5 DEF Next

\* The storage changes in two steps only: what Remove takes away leaves the
\* others, and Store files the answer of the call's own slot.
LEMMA NextFiled == IInv /\ [Next]_vars => FiledUnderItsKey'
<1> SUFFICES ASSUME IInv, [Next]_vars PROVE FiledUnderItsKey'
  OBVIOUS
<1> USE DEF IInv
<1>1. CASE UNCHANGED storage
  BY <1>1 DEF FiledUnderItsKey
<1>2. ASSUME NEW c \in CallId, Remove(c)
      PROVE  FiledUnderItsKey'
  <2>1. storage' = [storage EXCEPT ![KeyOf(c)] = NoEntry]
    BY <1>2 DEF Remove
  <2> QED
    BY <2>1, StorageKeyIsOwn DEF FiledUnderItsKey, TypeOK
<1>3. ASSUME NEW c \in CallId, Store(c)
      PROVE  FiledUnderItsKey'
  <2>1. /\ Called(c) /\ call[c] \in Call /\ call[c].slot \in Slot
    BY <1>3 DEF Store, At, Called, TypeOK, Call
  <2>2. call[c].entry.from = call[c].slot
    BY <1>3, <2>1 DEF HeldIsRecent, FitsCall, Store
  <2>3. storage' = [storage EXCEPT ![StorageKeyOf(call[c].slot)] = call[c].entry]
    BY <1>3 DEF Store, KeyOf
  <2>4. ASSUME NEW slot \in Slot, storage'[StorageKeyOf(slot)] # NoEntry
        PROVE  storage'[StorageKeyOf(slot)].from = slot
    <3>1. CASE StorageKeyOf(slot) = StorageKeyOf(call[c].slot)
      BY <2>1, <2>2, <2>3, <3>1, StorageKeyIsOwn DEF TypeOK
    <3>2. CASE StorageKeyOf(slot) # StorageKeyOf(call[c].slot)
      BY <2>3, <2>4, <3>2, StorageKeyIsOwn DEF TypeOK, FiledUnderItsKey
    <3> QED
      BY <3>1, <3>2
  <2> QED
    BY <2>4 DEF FiledUnderItsKey
<1>4. CASE ~ \E c \in CallId : Remove(c) \/ Store(c)
  <2>1. UNCHANGED storage
    BY <1>4 DEF Next, vars, Invoke, CallStep, GetMiss, GetHit, GetExpired, StorageFails,
                FetchFails, FetchOk, ReplyUnusable, ReplyThrows, ReplyUsable, InvokeAll,
                AllResolve, AllReject, Tick
  <2> QED
    BY <1>1, <2>1
<1> QED
  BY <1>2, <1>3, <1>4

\* A call that goes on stays the call for its slot, made when it was.
LEMMA CallStepKeeps ==
  ASSUME TypeOK, NEW c \in CallId, CallStep(c)
  PROVE  /\ \A d \in CallId : d # c => call'[d] = call[d]
         /\ Called(c)' /\ call'[c].slot = call[c].slot /\ call'[c].since = call[c].since
         /\ UNCHANGED <<now, all, answers>>
<1>1. call[c] \in Call /\ Called(c)
  BY StepOfCall
<1>2. ASSUME NEW at \in {"removing", "fetching", "reading", "storing", "resolved", "rejected"},
             NEW entry \in StoredValue,
             call' = [call EXCEPT ![c].at = at, ![c].entry = entry]
      PROVE  /\ \A d \in CallId : d # c => call'[d] = call[d]
             /\ Called(c)' /\ call'[c].slot = call[c].slot /\ call'[c].since = call[c].since
  <2>1. call'[c] \in Call
    BY <1>1, <1>2 DEF Call, TypeOK
  <2> QED
    BY <1>1, <1>2, <2>1, CallAssumption DEF Call, TypeOK, Called
<1>3. ASSUME NEW at \in {"removing", "fetching", "reading", "storing", "resolved", "rejected"},
             call' = [call EXCEPT ![c].at = at]
      PROVE  /\ \A d \in CallId : d # c => call'[d] = call[d]
             /\ Called(c)' /\ call'[c].slot = call[c].slot /\ call'[c].since = call[c].since
  <2>1. call'[c] \in Call
    BY <1>1, <1>3 DEF Call, TypeOK
  <2> QED
    BY <1>1, <1>3, <2>1, CallAssumption DEF Call, TypeOK, Called
<1>4. CASE GetMiss(c) \/ GetExpired(c) \/ Remove(c) \/ StorageFails(c) \/ FetchOk(c)
           \/ ReplyThrows(c) \/ Store(c)
  BY <1>3, <1>4 DEF GetMiss, GetExpired, Remove, StorageFails, FetchOk, ReplyThrows, Store,
                    Continue
<1>5. CASE FetchFails(c) \/ ReplyUnusable(c)
  BY <1>2, <1>5 DEF FetchFails, ReplyUnusable, ResolveTo, StoredValue
<1>6. CASE GetHit(c)
  <2>1. storage[KeyOf(c)] \in StoredValue
    BY StepOfCall
  <2> QED
    BY <1>2, <1>6, <2>1 DEF GetHit, ResolveTo
<1>7. CASE ReplyUsable(c)
  <2>1. [from |-> call[c].slot, timestamp |-> now] \in StoredValue
    BY <1>1 DEF Call, Entry, StoredValue, TypeOK
  <2> QED
    BY <1>2, <1>7, <2>1 DEF ReplyUsable
<1> QED
  BY <1>4, <1>5, <1>6, <1>7 DEF CallStep

\* A hit in the storage is of the call's slot and not past its time to live
\* now, so it was not when the call was made; a fresh answer is no older than
\* the call.
LEMMA StepHeldIsRecent ==
  ASSUME IInv, NEW c \in CallId, CallStep(c)
  PROVE  HeldIsRecent'
<1> USE DEF IInv
<1>1. /\ call[c] \in Call /\ Called(c) /\ KeyOf(c) \in StorageKey
      /\ call[c].since <= now /\ now \in Nat
  BY StepOfCall DEF HeldIsRecent, TypeOK
<1>2. /\ \A d \in CallId : d # c => call'[d] = call[d]
      /\ Called(c)' /\ call'[c].slot = call[c].slot /\ call'[c].since = call[c].since
      /\ now' = now
  BY CallStepKeeps
<1>3. ASSUME NEW d \in CallId, d # c, Called(d)'
      PROVE  /\ (call[d].since <= now)'
             /\ (At(d, "storing") => FitsCall(d))'
             /\ (At(d, "resolved") /\ call[d].entry # NoEntry => FitsCall(d))'
  BY <1>2, <1>3 DEF HeldIsRecent, Called, At, FitsCall
<1>4. (At(c, "storing") => FitsCall(c))' /\ (At(c, "resolved") /\ call[c].entry # NoEntry => FitsCall(c))'
  <2>1. ASSUME NEW at \in {"removing", "fetching", "reading", "rejected"}, Continue(c, at)
        PROVE  ~At(c, "storing")' /\ ~At(c, "resolved")'
    BY <1>1, <2>1 DEF Continue, At, Call, TypeOK
  <2>2. CASE GetMiss(c) \/ GetExpired(c) \/ Remove(c) \/ StorageFails(c) \/ FetchOk(c)
             \/ ReplyThrows(c)
    BY <2>1, <2>2 DEF GetMiss, GetExpired, Remove, StorageFails, FetchOk, ReplyThrows
  <2>3. CASE GetHit(c)
    <3>1. /\ storage[KeyOf(c)] \in Entry /\ storage[KeyOf(c)].from = call[c].slot
          /\ ~Expired(storage[KeyOf(c)], now)
      BY <1>1, <2>3 DEF GetHit, FiledUnderItsKey, KeyOf, TypeOK, StoredValue, Call
    <3>2. /\ call'[c].at = "resolved" /\ call'[c].entry = storage[KeyOf(c)]
      BY <1>1, <2>3 DEF GetHit, ResolveTo, TypeOK, Call
    <3>3. call[c].since - storage[KeyOf(c)].timestamp <= TTL
      BY <1>1, <3>1, TtlAssumption DEF Expired, Entry, Call
    <3> QED
      BY <1>2, <3>1, <3>2, <3>3 DEF At, FitsCall
  <2>4. CASE FetchFails(c) \/ ReplyUnusable(c)
    <3>1. call'[c].at = "resolved" /\ call'[c].entry = NoEntry
      BY <1>1, <2>4 DEF FetchFails, ReplyUnusable, ResolveTo, TypeOK, Call
    <3> QED
      BY <3>1 DEF At
  <2>5. CASE ReplyUsable(c)
    <3>1. call'[c].entry = [from |-> call[c].slot, timestamp |-> now]
      BY <1>1, <2>5 DEF ReplyUsable, TypeOK, Call
    <3>2. call[c].since - now <= TTL
      BY <1>1, TtlAssumption DEF Call
    <3> QED
      BY <1>2, <3>1, <3>2 DEF FitsCall
  <2>6. CASE Store(c)
    <3>1. FitsCall(c)
      BY <1>1, <2>6 DEF Store, HeldIsRecent
    <3>2. call'[c].entry = call[c].entry
      BY <1>1, <2>6 DEF Store, Continue, TypeOK, Call
    <3> QED
      BY <1>2, <3>1, <3>2 DEF FitsCall
  <2> QED
    BY <2>2, <2>3, <2>4, <2>5, <2>6 DEF CallStep
<1> QED
  BY <1>1, <1>2, <1>3, <1>4 DEF HeldIsRecent

LEMMA NextHeldIsRecent == IInv /\ [Next]_vars => HeldIsRecent'
<1> SUFFICES ASSUME IInv, [Next]_vars PROVE HeldIsRecent'
  OBVIOUS
<1> USE DEF IInv
<1>1. now \in Nat /\ call \in [CallId -> Call \cup {NotCalled}]
  BY DEF TypeOK
<1>2. ASSUME NEW c \in Caller, NEW slot \in Slot, Invoke(c, slot)
      PROVE  HeldIsRecent'
  <2>1. c \in CallId /\ call' = [call EXCEPT ![c] = NewCall(slot)] /\ now' = now
    BY <1>2 DEF Invoke, CallId
  <2>2. call'[c].since = now /\ call'[c].at = "getting"
    BY <1>1, <2>1 DEF NewCall
  <2> QED
    BY <1>1, <2>1, <2>2 DEF HeldIsRecent, Called, At, FitsCall
<1>3. ASSUME NEW c \in CallId, CallStep(c)
      PROVE  HeldIsRecent'
  BY <1>3, StepHeldIsRecent
<1>4. CASE InvokeAll
  <2>1. /\ \A c \in AllCall : call'[c].since = now /\ call'[c].at = "getting"
        /\ \A c \in CallId : c \notin AllCall => call'[c] = call[c]
        /\ now' = now
    BY <1>4, SlotOfAllCall DEF InvokeAll, NewCall
  <2> QED
    BY <1>1, <2>1 DEF HeldIsRecent, Called, At, FitsCall
<1>5. CASE AllResolve \/ AllReject \/ UNCHANGED vars
  BY <1>5 DEF AllResolve, AllReject, vars, HeldIsRecent, Called, At, FitsCall
<1>6. CASE Tick
  <2>1. now' = now + 1 /\ UNCHANGED call
    BY <1>6 DEF Tick
  <2>2. \A c \in CallId : Called(c) => call[c].since \in Nat
    BY <1>1 DEF Called, Call
  <2> QED
    BY <1>1, <2>1, <2>2 DEF HeldIsRecent, Called, At, FitsCall
<1> QED
  BY <1>2, <1>3, <1>4, <1>5, <1>6 DEF Next

\* Only resolveAllServices makes the calls named by a slot, and when it has
\* resolved none of them goes on.
LEMMA NextAll == IInv /\ [Next]_vars => CalledByName' /\ AnswersAreTheirs'
<1> SUFFICES ASSUME IInv, [Next]_vars PROVE CalledByName' /\ AnswersAreTheirs'
  OBVIOUS
<1> USE DEF IInv
<1>1. call \in [CallId -> Call \cup {NotCalled}]
  BY DEF TypeOK
<1>2. ASSUME NEW b \in Caller, NEW slot \in Slot, Invoke(b, slot)
      PROVE  CalledByName' /\ AnswersAreTheirs'
  <2>1. \A c \in AllCall : call'[c] = call[c]
    BY <1>1, <1>2, SlotOfAllCall DEF Invoke
  <2> QED
    BY <1>2, <2>1 DEF CalledByName, AnswersAreTheirs, Called, At, Invoke
<1>3. ASSUME NEW b \in CallId, CallStep(b)
      PROVE  CalledByName' /\ AnswersAreTheirs'
  <2>1. /\ \A d \in CallId : d # b => call'[d] = call[d]
        /\ call'[b].slot = call[b].slot /\ UNCHANGED <<all, answers>>
        /\ Called(b) /\ Pending(b)
    BY <1>3, CallStepKeeps, StepOfCall
  <2>2. CalledByName'
    BY <2>1, SlotOfAllCall DEF CalledByName, Called
  <2>3. AnswersAreTheirs'
    BY <2>1, SlotOfAllCall DEF AnswersAreTheirs, Pending, Settled, At, Called
  <2> QED
    BY <2>2, <2>3
<1>4. CASE InvokeAll
  <2>1. all' = "pending" /\ \A c \in AllCall : call'[c].slot = c
    BY <1>4, SlotOfAllCall DEF InvokeAll, NewCall
  <2> QED
    BY <2>1 DEF CalledByName, AnswersAreTheirs
<1>5. CASE AllReject \/ Tick \/ UNCHANGED vars
  BY <1>5 DEF AllReject, Tick, vars, CalledByName, AnswersAreTheirs, Called, At
<1>6. CASE AllResolve
  BY <1>6 DEF AllResolve, CalledByName, AnswersAreTheirs, Called, At
<1> QED
  BY <1>2, <1>3, <1>4, <1>5, <1>6 DEF Next

LEMMA NextIInv == IInv /\ [Next]_vars => IInv'
BY NextTypeOK, NextFiled, NextHeldIsRecent, NextAll DEF IInv

\* IInv is an invariant of every behaviour.
LEMMA Invariance == Spec => []IInv
<1>1. Init => IInv
  BY InitIInv
<1>2. IInv /\ [Next]_vars => IInv'
  BY NextIInv
<1> QED
  BY <1>1, <1>2, PTL DEF Spec
----
\* Every variable keeps its shape, and a call that stores, stores an answer.
THEOREM TypeCorrect == Spec => []TypeOK
<1>1. IInv => TypeOK
  BY DEF IInv
<1> QED
  BY <1>1, Invariance, PTL

\* Whatever other callers store and remove between its reads and writes, a call
\* resolves to an answer for its own slot, at most TTL old when it was made.
THEOREM AnswersAreRecent == Spec => []ResolvedIsRecent
<1>1. IInv => ResolvedIsRecent
  BY DEF IInv, HeldIsRecent, FitsCall, ResolvedIsRecent, At
<1> QED
  BY <1>1, Invariance, PTL

\* resolveAllServices resolves to what each of its calls resolved to: null, or
\* an answer of that service and host at most TTL old when it was called.
THEOREM AllAnswers == Spec => []AllAreOwnAndRecent
<1>1. IInv => AllAreOwnAndRecent
  BY SlotOfAllCall
  DEF IInv, HeldIsRecent, FitsCall, CalledByName, AnswersAreTheirs, AllAreOwnAndRecent, At
<1> QED
  BY <1>1, Invariance, PTL

\* No call of resolveAllServices has rejected, nor has resolveAllServices.
NoneRejected == all # "rejected" /\ \A c \in AllCall : ~At(c, "rejected")

LEMMA SoundKeepsNoneRejected ==
  IInv /\ NoneRejected /\ [Next]_vars /\ [Sound]_vars => NoneRejected'
<1> SUFFICES ASSUME IInv, NoneRejected, [Next]_vars, [Sound]_vars PROVE NoneRejected'
  OBVIOUS
<1> USE DEF IInv
<1>1. call \in [CallId -> Call \cup {NotCalled}]
  BY DEF TypeOK
<1>2. ASSUME NEW b \in Caller, NEW slot \in Slot, Invoke(b, slot)
      PROVE  NoneRejected'
  <2>1. \A c \in AllCall : call'[c] = call[c]
    BY <1>1, <1>2, SlotOfAllCall DEF Invoke
  <2> QED
    BY <1>2, <2>1 DEF NoneRejected, Called, At, Invoke
<1>3. ASSUME NEW b \in CallId, CallStep(b)
      PROVE  NoneRejected'
  <2>1. /\ \A d \in CallId : d # b => call'[d] = call[d]
        /\ UNCHANGED all
        /\ Pending(b) /\ call[b] \in Call
    BY <1>3, CallStepKeeps, StepOfCall
  <2>2. ASSUME b \in AllCall, At(b, "rejected")' PROVE FALSE
    <3>1. call'[b] # call[b]
      BY <2>1, <2>2 DEF NoneRejected, At, Called
    <3>2. ~StorageFails(b) /\ ~ReplyThrows(b)
      BY <2>2, <3>1 DEF Sound, vars
    <3>3. call'[b].at = "rejected"
      BY <2>2 DEF At
    <3> QED
      BY <1>1, <1>3, <2>1, <3>2, <3>3
      DEF CallStep, GetMiss, GetHit, GetExpired, Remove, FetchFails, FetchOk, ReplyUnusable,
          ReplyUsable, Store, Continue, ResolveTo, Call
  <2>3. ASSUME NEW c \in AllCall, c # b PROVE ~At(c, "rejected")'
    BY <2>1, <2>3, SlotOfAllCall DEF NoneRejected, At, Called
  <2> QED
    BY <2>1, <2>2, <2>3 DEF NoneRejected
<1>4. CASE InvokeAll
  <2>1. all' = "pending" /\ \A c \in AllCall : call'[c].at = "getting"
    BY <1>4, SlotOfAllCall DEF InvokeAll, NewCall
  <2> QED
    BY <2>1 DEF NoneRejected, At
<1>5. CASE AllResolve \/ Tick \/ UNCHANGED vars
  BY <1>5 DEF AllResolve, Tick, vars, NoneRejected, Called, At
<1>6. ~AllReject
  BY DEF AllReject, NoneRejected
<1> QED
  BY <1>2, <1>3, <1>4, <1>5, <1>6 DEF Next

\* Queries that fail (no reply, an error status, a body that is no JSON, no
\* answer in it) do not make resolveAllServices reject, however many do, in
\* whatever order and whatever other callers meet: as long as the storage works
\* for its calls and the JSON they read has the shape the code expects, it
\* never rejects.
THEOREM QueriesDoNotReject == Spec /\ [][Sound]_vars => [](all # "rejected")
<1>1. Init => NoneRejected
  BY SlotOfAllCall DEF Init, NoneRejected, At, Called
<1>2. NoneRejected => all # "rejected"
  BY DEF NoneRejected
<1> QED
  BY <1>1, <1>2, Invariance, SoundKeepsNoneRejected, PTL DEF Spec
====
