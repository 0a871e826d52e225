---- MODULE MCFingerprint ----
(***************************************************************************)
(* The three components that a fingerprint passes through, side by side:   *)
(* the Base64URL codec, the blocks that SHA-256 compresses and the C++     *)
(* decoder's static table.  A behaviour runs one while the others rest.    *)
(***************************************************************************)
EXTENDS Base64Url, Sha256Blocks, RevTable

(***************************************************************************)
(* A register of twelve bits overflows at the third digit, where one of 32 *)
(* does at the sixth.  Keys longer than the buffer of two bytes.           *)
(***************************************************************************)
UpTo(n, symbols) == UNION {[1..x -> symbols] : x \in 0..n}
MCInputs == UpTo(4, {0, 1, 128, 254, 255})
MCPublished == UpTo(5, {0, 1, 42, 63, Pad, Foreign})

\* Messages of up to more than two blocks, so that every remainder and both
\* edges (55 and 56, 63 and 64 bytes) occur after a full block too.
MCLength == 0..130

(***************************************************************************)
(* Three threads; A is 0, the value that a static entry starts with; ~ is  *)
(* foreign.                                                                *)
(***************************************************************************)
MCCharacters == <<"A", "B", "~">>
MCAlphabet == <<"A", "B">>
MCIdentity ==
  { <<<<"A", "B">>, <<0, 1>>>>, <<<<"B">>, <<0>>>>, <<<<"B", "A">>, <<1, 0>>>>,
    <<<<"~">>, <<0>>>> }
----
VARIABLE part  \* the component that runs: "codec", "blocks" or "table"

MCVars == <<part, vars, blocksVars, tableVars>>

AtRest == bounded = TRUE /\ bytes = <<>> /\ phase = "encoding" /\ Init
BlocksAtRest == library = "C" /\ length = 0 /\ BlocksInit
TableAtRest ==
  inOrder = TRUE /\ identity = [t \in Thread |-> <<<<"~">>, <<0>>>>] /\ TableInit

MCInit ==
  \/ part = "codec" /\ BlocksAtRest /\ TableAtRest /\ Init
  \/ part = "blocks" /\ AtRest /\ TableAtRest /\ BlocksInit
  \/ part = "table" /\ AtRest /\ BlocksAtRest /\ TableInit

MCNext ==
  \/ part = "codec" /\ Next /\ UNCHANGED <<part, blocksVars, tableVars>>
  \/ part = "blocks" /\ BlocksNext /\ UNCHANGED <<part, vars, tableVars>>
  \/ part = "table" /\ TableNext /\ UNCHANGED <<part, vars, blocksVars>>

MCSpec == MCInit /\ [][MCNext]_MCVars
====
