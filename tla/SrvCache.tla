---- MODULE SrvCache ----
(***************************************************************************)
(* What the service worker's cache promises for each key, whatever its     *)
(* queries and the persistent cache do: a query begins only for a key      *)
(* nothing is known of, one query at a time, and a query that ends leaves  *)
(* either an answer or a key that the next request resolves anew.          *)
(***************************************************************************)
CONSTANT Slot

VARIABLES
  status,  \* what the next request for a slot finds
  busy     \* the slots a query is out for

Unknown   == "unknown"
Resolving == "resolving"
Known     == "known"

Init ==
  /\ status = [slot \in Slot |-> Unknown]
  /\ busy = {}

Begin(slot) ==
  /\ status[slot] = Unknown
  /\ slot \notin busy
  /\ status' = [status EXCEPT ![slot] = Resolving]
  /\ busy' = busy \cup {slot}

Answer(slot) ==
  /\ slot \in busy
  /\ status' = [status EXCEPT ![slot] = Known]
  /\ UNCHANGED busy

Finish(slot) ==
  /\ slot \in busy
  /\ status[slot] = Known
  /\ busy' = busy \ {slot}
  /\ UNCHANGED status

Fail(slot) ==
  /\ slot \in busy
  /\ status' = [status EXCEPT ![slot] = Unknown]
  /\ busy' = busy \ {slot}

\* Answers come from the persistent cache for some slots, busy or not.
Load(S) ==
  /\ status' = [slot \in Slot |-> IF slot \in S THEN Known ELSE status[slot]]
  /\ UNCHANGED busy

Restart ==
  /\ status' = [slot \in Slot |-> Unknown]
  /\ busy' = {}

Next ==
  \/ \E slot \in Slot : Begin(slot) \/ Answer(slot) \/ Finish(slot) \/ Fail(slot)
  \/ \E S \in SUBSET Slot : Load(S)
  \/ Restart

Spec == Init /\ [][Next]_<<status, busy>>
====
