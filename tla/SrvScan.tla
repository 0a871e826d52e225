---- MODULE SrvScan ----
(***************************************************************************)
(* How the C library picks the SRV record to connect to: extract_srv       *)
(* (02_Libraries/c/kirin_dns.c) walks the answer section once, remembers   *)
(* the best record so far in three locals, and parses the target of the    *)
(* winner only.  The Go library runs the same loop (selectBestSrv), with   *)
(* the first record for a start.                                           *)
(***************************************************************************)
EXTENDS SrvRecords

CONSTANT Response  \* the answer sections a query may return

ASSUME ResponseAssumption == Response \subseteq Seq(Answer)

VARIABLES
  response,       \* the answer section
  i,              \* the next answer to look at
  best_idx,       \* the best so far, 0 for none (-1 in the code)
  best_priority,
  best_weight,
  result          \* "scanning", then KIRIN_OK, KIRIN_ERR_DNS or KIRIN_ERR_PARSE

best == <<best_idx, best_priority, best_weight>>
scanVars == <<response, i, best, result>>

ScanInit ==
  /\ response \in Response
  /\ i = 1
  /\ best_idx = 0
  /\ best_priority = 65535
  /\ best_weight = 0
  /\ result = "scanning"

\* ns_initparse rejects the message.
InitParseFails ==
  /\ result = "scanning" /\ i = 1
  /\ result' = "KIRIN_ERR_PARSE"
  /\ UNCHANGED <<response, i, best>>

\* Faulty variant: relies on the initial 0xFFFF and 0 instead of best_idx < 0.
Improves_FromBounds(a) ==
  \/ a.priority < best_priority
  \/ a.priority = best_priority /\ a.weight > best_weight

\* Faulty variant: a later record of equal rank replaces the best.
Improves_LastOfEqual(a) ==
  \/ best_idx = 0
  \/ a.priority < best_priority
  \/ a.priority = best_priority /\ a.weight >= best_weight

Improves(a) ==
  \/ best_idx = 0
  \/ a.priority < best_priority
  \/ a.priority = best_priority /\ a.weight > best_weight

Looking == result = "scanning" /\ i <= Len(response)

Skip ==
  /\ Looking
  /\ ~IsUsable(response[i]) \/ ~Improves(response[i])
  /\ i' = i + 1
  /\ UNCHANGED <<response, best, result>>

Take ==
  /\ Looking
  /\ IsUsable(response[i]) /\ Improves(response[i])
  /\ best_idx' = i
  /\ best_priority' = response[i].priority
  /\ best_weight' = response[i].weight
  /\ i' = i + 1
  /\ UNCHANGED <<response, result>>

\* After the loop the winner is parsed again, for its port and its target.
Finish ==
  /\ result = "scanning" /\ i = Len(response) + 1
  /\ result' = IF best_idx = 0 THEN "KIRIN_ERR_DNS"
               ELSE IF response[best_idx].expands THEN "KIRIN_OK"
               ELSE "KIRIN_ERR_PARSE"
  /\ UNCHANGED <<response, i, best>>

ScanNext == InitParseFails \/ Skip \/ Take \/ Finish

ScanSpec == ScanInit /\ [][ScanNext]_scanVars
----
(***************************************************************************)
(* Properties.                                                             *)
(***************************************************************************)

ScanTypeOK ==
  /\ response \in Seq(Answer)
  /\ i \in 1..(Len(response) + 1)
  /\ best_idx \in 0..(i - 1)
  /\ best_priority \in UInt16 /\ best_weight \in UInt16
  /\ result \in {"scanning", "KIRIN_OK", "KIRIN_ERR_DNS", "KIRIN_ERR_PARSE"}

\* "Picks the best record per RFC 2782": what extract_srv returns is the
\* choice over the whole answer section, at the limits of the 16-bit fields
\* too, and what other libraries get by a stable sort.
PicksTheChoice == result = "KIRIN_OK" => IsChoice(response, best_idx)

\* A response with a usable SRV record never counts as "no record found",
\* which would send the caller to the fallback port.
NoFalseFallback ==
  result = "KIRIN_ERR_DNS" => \A j \in DOMAIN response : ~IsUsable(response[j])

\* The scan keeps what its callers are promised: nothing is chosen before the
\* whole section has been seen, and then it is decided in one step.
Promise == INSTANCE SrvQuery WITH chosen <- IF result = "KIRIN_OK" THEN best_idx ELSE 0
ImplementsSrvQuery == Promise!Spec
====
