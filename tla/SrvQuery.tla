---- MODULE SrvQuery ----
(***************************************************************************)
(* What extract_srv promises its callers of one answer section, however it *)
(* looks through it: one step to the record to connect to, or to the error *)
(* that fits.  SrvScan implements it.                                      *)
(***************************************************************************)
EXTENDS SrvRecords

CONSTANT Response  \* the answer sections a query may return

VARIABLES
  response,  \* the answer section
  chosen,    \* the record to connect to, or 0
  result     \* "scanning", then KIRIN_OK, KIRIN_ERR_DNS or KIRIN_ERR_PARSE

vars == <<response, chosen, result>>

Init ==
  /\ response \in Response
  /\ chosen = 0
  /\ result = "scanning"

Choose ==
  /\ result = "scanning"
  /\ result' = "KIRIN_OK"
  /\ IsChoice(response, chosen')
  /\ response[chosen'].expands
  /\ UNCHANGED response

NoneFound ==
  /\ result = "scanning"
  /\ \A j \in DOMAIN response : ~IsUsable(response[j])
  /\ result' = "KIRIN_ERR_DNS"
  /\ UNCHANGED <<response, chosen>>

\* The message does not parse, or the choice has no target.
Malformed ==
  /\ result = "scanning"
  /\ result' = "KIRIN_ERR_PARSE"
  /\ UNCHANGED <<response, chosen>>

Next == Choose \/ NoneFound \/ Malformed

Spec == Init /\ [][Next]_vars
====
