---- MODULE SrvLibraries ----
(***************************************************************************)
(* resolveService of the libraries that leave the decoding of the answers  *)
(* to a DNS library, to JNDI or to dig, and of the C++ one, on the answer  *)
(* section that the C library scans.  They collect the records, sort them  *)
(* and take the first (Go: run a loop; Ruby: take the least).              *)
(*                                                                         *)
(* The C#, Dart and Lua libraries decode answers by hand: DnsWire.         *)
(***************************************************************************)
EXTENDS SrvScan

\* The SRV records that have a target, and those that are malformed.
Decoded == {k \in DOMAIN response : IsUsable(response[k]) /\ response[k].expands}
Broken ==
  {k \in DOMAIN response : response[k].form \in {"srv", "bare", "cut"}} \ Decoded

(***************************************************************************)
(* A profile: the sets of records the library may come to choose among,    *)
(* and whether the first of equal records is sure to be chosen.            *)
(*                                                                         *)
(* The C++ library keeps every record whose target it can expand, a bare   *)
(* one (rdlen < 6 is its test) as well.  What a DNS library does with a    *)
(* section that holds a malformed record is its own affair: an error, and  *)
(* so no record, or some of the others.  The JavaScript library calls      *)
(* dns.resolveSrv of the callback API without a callback; that throws,     *)
(* which it takes for "no SRV record", whatever the section.               *)
(***************************************************************************)
ByHand ==
  {{k \in DOMAIN response : response[k].form \in {"srv", "bare"} /\ response[k].expands}}
ByResolver == IF Broken = {} THEN {Decoded} ELSE SUBSET Decoded

JavaScript == [lists |-> {{}}, stable |-> TRUE]
Cpp == [lists |-> ByHand, stable |-> FALSE]            \* std::sort
Go == [lists |-> ByResolver, stable |-> FALSE]         \* LookupSRV shuffles
Python == [lists |-> ByResolver, stable |-> TRUE]
Rust == [lists |-> ByResolver, stable |-> TRUE]
Ruby == [lists |-> ByResolver, stable |-> TRUE]
Java == [lists |-> ByResolver, stable |-> TRUE]
Kotlin == [lists |-> ByResolver, stable |-> TRUE]
Php == [lists |-> ByResolver, stable |-> TRUE]
Swift == [lists |-> ByResolver, stable |-> FALSE]      \* sort promises no order of equals

\* The libraries that can resolve a service at all.
Libraries == {Cpp, Go, Python, Rust, Ruby, Java, Kotlin, Php, Swift}

\* Faulty variant: weights ascend as priorities do.
Sorts_WeightAscending(a, b) ==
  a.priority < b.priority \/ (a.priority = b.priority /\ a.weight < b.weight)

Sorts(a, b) == a.priority < b.priority \/ (a.priority = b.priority /\ a.weight > b.weight)

\* What may be returned: the place of a record, or 0 for null.
Picks(library) ==
  UNION {IF list = {} THEN {0}
         ELSE {k \in list : \A j \in list :
                 /\ ~Sorts(response[j], response[k])
                 /\ library.stable /\ j < k => Sorts(response[k], response[j])} :
           list \in library.lists}

\* "One consistent resolution model": where no record is malformed, whatever a
\* library returns is of the rank of the C library's choice, and the very one if
\* no two rank equal or the sort is stable; and no library returns null where
\* the C library finds a record, but for JavaScript's, which always does.
AllChooseAlike ==
  result \in {"KIRIN_OK", "KIRIN_ERR_DNS"} /\ Broken = {} =>
    /\ \A library \in Libraries \cup {JavaScript} : \A pick \in Picks(library) \ {0} :
         /\ result = "KIRIN_OK"
         /\ response[pick].priority = response[best_idx].priority
         /\ response[pick].weight = response[best_idx].weight
         /\ library.stable => pick = best_idx
    /\ \A library \in Libraries : 0 \in Picks(library) => result = "KIRIN_ERR_DNS"
====
