---- MODULE ExtensionStorage ----
(***************************************************************************)
(* The persistent cache of the browser extension, chrome.storage.local,    *)
(* as service_worker.js and dns_fetcher.js share it: its keys, its entries *)
(* and their time to live.                                                 *)
(***************************************************************************)
EXTENDS Integers, Sequences

CONSTANTS
  Segment,     \* the segments that "_" separates in host names and in keys
  Domain,      \* host names, each the sequence of its segments
  Kind,        \* the kinds of answer in use: SRV services, "identity"
  TTL,         \* CACHE_TTL, in ticks
  NoEntry      \* a storage key that holds nothing

SrvServices == {"http", "https", "ws"}

\* One slot of SRV_CACHE (`domain:service`) or of IDENTITY_CACHE (domain).
Slot == Domain \X Kind

(***************************************************************************)
(* Keys of chrome.storage.local: a prefix, then segments joined by "_".    *)
(* The domain may itself hold "_".                                         *)
(***************************************************************************)
StorageKeyOf(slot) ==
  IF slot[2] = "identity"
    THEN [prefix |-> "kirin_identity_", name |-> slot[1]]
    ELSE [prefix |-> "kirin_srv_", name |-> Append(slot[1], slot[2])]

StorageKey == {StorageKeyOf(slot) : slot \in Slot}

\* Faulty variant: takes the first segment for the domain.
SlotOf_FirstSegment(sk) ==
  IF sk.prefix = "kirin_identity_"
    THEN <<sk.name, "identity">>
    ELSE <<<<sk.name[1]>>, sk.name[Len(sk.name)]>>

\* The slot loadCache files a storage key under: the last segment of an SRV
\* key is the service, the others joined again are the domain.
SlotOf(sk) ==
  IF sk.prefix = "kirin_identity_"
    THEN <<sk.name, "identity">>
    ELSE <<SubSeq(sk.name, 1, Len(sk.name) - 1), sk.name[Len(sk.name)]>>

(***************************************************************************)
(* A stored or cached answer: the slot whose query produced it (all that   *)
(* the properties tell apart of {target, port}) and when it was stored.    *)
(* Where the worker keeps it in memory the timestamp is a history          *)
(* component: SRV_CACHE has none.                                          *)
(***************************************************************************)
Entry == [from : Slot, timestamp : Nat]

ASSUME DomainAssumption == \A d \in Domain : d \in Seq(Segment) /\ d # <<>>
ASSUME KindAssumption ==
  Kind \subseteq (SrvServices \cup {"identity"}) \cap Segment
ASSUME TtlAssumption == TTL \in Nat
ASSUME NoEntryAssumption == NoEntry \notin Entry

StoredValue == Entry \cup {NoEntry}

\* Past its time to live, by the test both readers make.
Expired(entry, t) == t - entry.timestamp > TTL

NothingStored == [sk \in StorageKey |-> NoEntry]
====
