---- MODULE DnsFetcher ----
(***************************************************************************)
(* The DoH fetcher of the extension (03_Browser_Extension/dns_fetcher.js): *)
(* resolveService, resolveAllServices and resolveIdentity, called by any   *)
(* number of callers at once, over the persistent cache alone.  It has no  *)
(* in-memory state: every call reads the storage, may remove an expired    *)
(* entry, queries, and stores what it found.                               *)
(*                                                                         *)
(* An action is the code between two awaits.  A storage operation takes    *)
(* effect and its continuation runs in the same step: what another caller  *)
(* does between the two is also a step before or after it.                 *)
(***************************************************************************)
EXTENDS ExtensionStorage

CONSTANTS
  Caller,   \* identifiers of resolveService and resolveIdentity calls, each made once
  Host,     \* the domain resolveAllServices is called for
  EndTime,  \* bound: the clock stops there
  NotCalled \* a call not made yet

\* The calls Promise.all waits for, one for each SRV service in use; each is
\* named by its slot.
AllCall == {slot \in Slot : slot[1] = Host /\ slot[2] \in SrvServices}
CallId == Caller \cup AllCall

(***************************************************************************)
(* A call: what it awaits or how its promise settled, the slot it          *)
(* resolves, when it was called (history), and the entry it is storing or  *)
(* has resolved to (NoEntry is null).                                      *)
(***************************************************************************)
Call == [at : {"getting", "removing", "fetching", "reading", "storing",
               "resolved", "rejected"},
         slot : Slot, since : Nat, entry : StoredValue]

ASSUME CallAssumption ==
  EndTime \in Nat /\ NotCalled \notin Call /\ Caller \cap AllCall = {}

VARIABLES
  now,      \* Date.now()
  storage,  \* chrome.storage.local
  call,     \* the state of every call
  all,      \* resolveAllServices: "idle", "pending", "resolved", "rejected"
  answers   \* the last {http, https, ws} it resolved to, one value for each call

vars == <<now, storage, call, all, answers>>

Called(c) == call[c] # NotCalled
At(c, at) == Called(c) /\ call[c].at = at
Settled(c) == At(c, "resolved") \/ At(c, "rejected")
Pending(c) == Called(c) /\ ~Settled(c)
KeyOf(c) == StorageKeyOf(call[c].slot)

Init ==
  /\ now = 0
  /\ storage = NothingStored
  /\ call = [c \in CallId |-> NotCalled]
  /\ all = "idle"
  /\ answers = [c \in AllCall |-> NoEntry]
----
(***************************************************************************)
(* resolveService and resolveIdentity, call c.                             *)
(***************************************************************************)
NewCall(slot) ==
  [at |-> "getting", slot |-> slot, since |-> now, entry |-> NoEntry]

Invoke(c, slot) ==
  /\ ~Called(c)
  /\ call' = [call EXCEPT ![c] = NewCall(slot)]
  /\ UNCHANGED <<now, storage, all, answers>>

Continue(c, at) ==
  /\ call' = [call EXCEPT ![c].at = at]
  /\ UNCHANGED <<now, all, answers>>

ResolveTo(c, entry) ==
  /\ call' = [call EXCEPT ![c].at = "resolved", ![c].entry = entry]
  /\ UNCHANGED <<now, all, answers>>

\* getCached finds nothing, and the query is sent.
GetMiss(c) ==
  /\ At(c, "getting")
  /\ storage[KeyOf(c)] = NoEntry
  /\ Continue(c, "fetching")
  /\ UNCHANGED storage

\* Faulty variant: getCached does not look at the age of the entry.
GetHit_AnyAge(c) ==
  /\ At(c, "getting")
  /\ storage[KeyOf(c)] # NoEntry
  /\ ResolveTo(c, storage[KeyOf(c)])
  /\ UNCHANGED storage

GetHit(c) ==
  /\ At(c, "getting")
  /\ storage[KeyOf(c)] # NoEntry
  /\ ~Expired(storage[KeyOf(c)], now)
  /\ ResolveTo(c, storage[KeyOf(c)])
  /\ UNCHANGED storage

GetExpired(c) ==
  /\ At(c, "getting")
  /\ storage[KeyOf(c)] # NoEntry
  /\ Expired(storage[KeyOf(c)], now)
  /\ Continue(c, "removing")
  /\ UNCHANGED storage

\* storage.remove(key): it takes whatever the key holds by now.
Remove(c) ==
  /\ At(c, "removing")
  /\ storage' = [storage EXCEPT ![KeyOf(c)] = NoEntry]
  /\ Continue(c, "fetching")

\* No operation on the storage is inside a try: its failure is the call's.
StorageFails(c) ==
  /\ At(c, "getting") \/ At(c, "removing") \/ At(c, "storing")
  /\ Continue(c, "rejected")
  /\ UNCHANGED storage

\* Faulty variant: no try around fetch.
FetchFails_Uncaught(c) ==
  /\ At(c, "fetching")
  /\ Continue(c, "rejected")
  /\ UNCHANGED storage

\* fetch() rejects, or the response is not ok.
FetchFails(c) ==
  /\ At(c, "fetching")
  /\ ResolveTo(c, NoEntry)
  /\ UNCHANGED storage

\* Faulty variant: stores before the body is parsed.
FetchOk_Unread(c) ==
  /\ At(c, "fetching")
  /\ Continue(c, "storing")
  /\ UNCHANGED storage

FetchOk(c) ==
  /\ At(c, "fetching")
  /\ Continue(c, "reading")
  /\ UNCHANGED storage

\* The body is no JSON (response.json() alone is inside a try), or holds no
\* answer that can be used.
ReplyUnusable(c) ==
  /\ At(c, "reading")
  /\ ResolveTo(c, NoEntry)
  /\ UNCHANGED storage

\* What is read of the JSON is outside any try, for a service as for an
\* identity, and a reply that is not shaped as the code expects throws: null,
\* an Answer that is no array, a record that is null, SRV data that is no
\* string (split), TXT data that is no array (join).
ReplyThrows(c) ==
  /\ At(c, "reading")
  /\ Continue(c, "rejected")
  /\ UNCHANGED storage

\* The best SRV answer, or the first TXT answer that parses, is to be stored.
ReplyUsable(c) ==
  /\ At(c, "reading")
  /\ call' = [call EXCEPT ![c].at = "storing",
                 ![c].entry = [from |-> call[c].slot, timestamp |-> now]]
  /\ UNCHANGED <<now, storage, all, answers>>

Store(c) ==
  /\ At(c, "storing")
  /\ storage' = [storage EXCEPT ![KeyOf(c)] = call[c].entry]
  /\ Continue(c, "resolved")

CallStep(c) ==
  \/ GetMiss(c)
  \/ GetHit(c)
  \/ GetExpired(c)
  \/ Remove(c)
  \/ StorageFails(c)
  \/ FetchFails(c)
  \/ FetchOk(c)
  \/ ReplyUnusable(c)
  \/ ReplyThrows(c)
  \/ ReplyUsable(c)
  \/ Store(c)
----
(***************************************************************************)
(* resolveAllServices: Promise.all over one call for each service.         *)
(***************************************************************************)
InvokeAll ==
  /\ all # "pending"
  /\ \A c \in AllCall : ~Pending(c)
  /\ all' = "pending"
  /\ call' = [c \in CallId |-> IF c \in AllCall THEN NewCall(c) ELSE call[c]]
  /\ UNCHANGED <<now, storage, answers>>

\* Faulty variant: settles with the first service that does.
AllResolve_First ==
  /\ all = "pending"
  /\ \E c \in AllCall : At(c, "resolved")
  /\ all' = "resolved"
  /\ answers' = [c \in AllCall |-> call[c].entry]
  /\ UNCHANGED <<now, storage, call>>

AllResolve ==
  /\ all = "pending"
  /\ \A c \in AllCall : At(c, "resolved")
  /\ all' = "resolved"
  /\ answers' = [c \in AllCall |-> call[c].entry]
  /\ UNCHANGED <<now, storage, call>>

\* Faulty variant: a rejected service is left to the others.
AllReject_Ignored == FALSE /\ UNCHANGED vars

AllReject ==
  /\ all = "pending"
  /\ \E c \in AllCall : At(c, "rejected")
  /\ all' = "rejected"
  /\ UNCHANGED <<now, storage, call, answers>>

Tick ==
  /\ now < EndTime
  /\ now' = now + 1
  /\ UNCHANGED <<storage, call, all, answers>>

Next ==
  \/ \E c \in Caller, slot \in Slot : Invoke(c, slot)
  \/ \E c \in CallId : CallStep(c)
  \/ InvokeAll
  \/ AllResolve
  \/ AllReject
  \/ Tick

Spec == Init /\ [][Next]_vars

\* The browser settles every fetch and storage call, and JavaScript runs the
\* continuations.
Fairness ==
  /\ \A c \in CallId : WF_vars(CallStep(c))
  /\ WF_vars(AllResolve) /\ WF_vars(AllReject)

FairSpec == Spec /\ Fairness
----
(***************************************************************************)
(* Properties.                                                             *)
(***************************************************************************)

\* Every variable keeps its shape, and nothing but a parsed answer is stored.
TypeOK ==
  /\ now \in Nat
  /\ storage \in [StorageKey -> StoredValue]
  /\ call \in [CallId -> Call \cup {NotCalled}]
  /\ \A c \in CallId : At(c, "storing") => call[c].entry \in Entry
  /\ all \in {"idle", "pending", "resolved", "rejected"}
  /\ answers \in [AllCall -> StoredValue]

\* A call resolves to an answer for its own slot that was at most TTL old
\* when the call was made, whatever other callers store and remove meanwhile.
ResolvedIsRecent ==
  \A c \in CallId :
    At(c, "resolved") /\ call[c].entry # NoEntry =>
      /\ call[c].entry.from = call[c].slot
      /\ call[c].since - call[c].entry.timestamp <= TTL

\* What resolveAllServices resolved to is, for each service, what that
\* service's call resolved to: null, or an answer of that service and host at
\* most TTL old when resolveAllServices was called, even if other callers of
\* the same key stored and removed answers in between.
AllAreOwnAndRecent ==
  all = "resolved" =>
    \A c \in AllCall :
      /\ At(c, "resolved") /\ answers[c] = call[c].entry
      /\ answers[c] # NoEntry =>
           answers[c].from = c /\ call[c].since - answers[c].timestamp <= TTL

\* "@returns ...|null": queries that fail, for how long and for how many
\* services they may, do not make resolveAllServices reject.  Once the storage
\* works and every JSON reply has the shape the code expects, a caller that
\* asks again and again is answered again and again.
Sound == \A c \in AllCall : ~StorageFails(c) /\ ~ReplyThrows(c)

AnsweredOnceSound ==
  <>[][Sound]_vars => ([]<>(all = "pending") => []<>(all = "resolved"))

\* Every call settles, and resolveAllServices does when its calls have.
EveryCallSettles ==
  /\ \A c \in CallId : Pending(c) ~> Settled(c)
  /\ all = "pending" ~> all # "pending"

\* "Caches results in chrome.storage.local ... TTL: 1 hour": an entry within
\* its time to live is there for the next caller; it may be replaced by
\* another answer but is not removed.
FreshEntryIsKept ==
  [][\A sk \in StorageKey :
       storage[sk] # NoEntry /\ ~Expired(storage[sk], now)
         => storage'[sk] # NoEntry]_vars
====
