---- MODULE RevTable ----
(***************************************************************************)
(* The decoding table of base64urlDecode in the C++ library                *)
(* (02_Libraries/cpp/kirin_dns.hpp): a static array that the first call    *)
(* fills and a static flag that says so, neither of them atomic nor        *)
(* guarded.  Threads call fingerprintChainOk, each on an identity of its   *)
(* own, and decode its public key through the one table.                   *)
(*                                                                         *)
(* The race is undefined behaviour.  Its outcomes here: stores are seen in *)
(* the order of the program, or the flag is seen set before the table is   *)
(* full.  SHA-256 stands for itself: equal fingerprints, equal keys.       *)
(***************************************************************************)
EXTENDS Integers, Sequences, Functions

CONSTANTS
  Thread,
  Characters,  \* all characters, in the order of the table
  Alphabet,    \* those of Base64URL, in the order of their values
  Identity     \* pairs of a public key's text and of the digits its fp was made of

\* No character occurs twice in the alphabet.
ASSUME AlphabetAssumption ==
  /\ Characters \in Seq(STRING) /\ Alphabet \in Seq(STRING) \ {<<>>}
  /\ Range(Alphabet) \subseteq Range(Characters)
  /\ \A i, j \in DOMAIN Alphabet : Alphabet[i] = Alphabet[j] => i = j
  /\ Identity \subseteq Seq(Range(Characters)) \X Seq(Nat)

VARIABLES
  inOrder,   \* whether the build keeps the order of the stores
  rev,       \* the table; statics start as zero
  init,      \* the flag
  pc,        \* per thread: "idle", "test", "clear", "fill", "decode", "true", "false"
  k,         \* per thread: the next entry of a loop, or the next character
  identity,  \* per thread: the identity under test
  got,       \* per thread: the digits read
  alone      \* history, per thread: nobody else has been filling the table meanwhile

tableVars == <<inOrder, rev, init, pc, k, identity, got, alone>>

Key(t) == identity[t][1]
Declared(t) == identity[t][2]
Filling(t) == pc[t] \in {"clear", "fill"}
Deciding(t) == pc[t] \in {"test", "clear", "fill", "decode"}

TableInit ==
  /\ inOrder \in BOOLEAN
  /\ rev = [c \in Range(Characters) |-> 0]
  /\ init = FALSE
  /\ pc = [t \in Thread |-> "idle"]
  /\ k = [t \in Thread |-> 1]
  /\ identity \in [Thread -> Identity]
  /\ got = [t \in Thread |-> <<>>]
  /\ alone = [t \in Thread |-> TRUE]

Go(t, place) == pc' = [pc EXCEPT ![t] = place] /\ k' = [k EXCEPT ![t] = 1]
Advance(t) == k' = [k EXCEPT ![t] = @ + 1] /\ UNCHANGED pc

Call(t) ==
  /\ pc[t] = "idle"
  /\ Go(t, "test")
  /\ alone' = [alone EXCEPT ![t] = \A u \in Thread : ~Filling(u)]
  /\ UNCHANGED <<inOrder, rev, init, identity, got>>

\* if (!init): whoever finds the table unfilled fills it, beside the others.
Test(t) ==
  /\ pc[t] = "test"
  /\ Go(t, IF init THEN "decode" ELSE "clear")
  /\ alone' = IF init THEN alone
              ELSE [u \in Thread |-> alone[u] /\ (u = t \/ ~Deciding(u))]
  /\ UNCHANGED <<inOrder, rev, init, identity, got>>

Clear(t) ==
  /\ pc[t] = "clear" /\ k[t] <= Len(Characters)
  /\ rev' = [rev EXCEPT ![Characters[k[t]]] = -1]
  /\ Advance(t)
  /\ UNCHANGED <<inOrder, init, identity, got, alone>>

\* Faulty variant: entries left out of the first loop, since statics are zero.
Cleared_Early(t) ==
  /\ pc[t] = "clear"
  /\ Go(t, "fill")
  /\ UNCHANGED <<inOrder, rev, init, identity, got, alone>>

Cleared(t) ==
  /\ pc[t] = "clear" /\ k[t] > Len(Characters)
  /\ Go(t, "fill")
  /\ UNCHANGED <<inOrder, rev, init, identity, got, alone>>

Fill(t) ==
  /\ pc[t] = "fill" /\ k[t] <= Len(Alphabet)
  /\ rev' = [rev EXCEPT ![Alphabet[k[t]]] = k[t] - 1]
  /\ Advance(t)
  /\ UNCHANGED <<inOrder, init, identity, got, alone>>

\* Faulty variant: the second loop leaves out the last character.
Filled_OneShort(t) ==
  /\ pc[t] = "fill" /\ k[t] >= Len(Alphabet)
  /\ init' = TRUE
  /\ Go(t, "decode")
  /\ UNCHANGED <<inOrder, rev, identity, got, alone>>

Filled(t) ==
  /\ pc[t] = "fill" /\ k[t] > Len(Alphabet)
  /\ init' = TRUE
  /\ Go(t, "decode")
  /\ UNCHANGED <<inOrder, rev, identity, got, alone>>

\* The store to the flag overtakes those to the table.
FlagOvertakes(t) ==
  /\ ~inOrder /\ Filling(t) /\ ~init
  /\ init' = TRUE
  /\ UNCHANGED <<inOrder, rev, pc, k, identity, got, alone>>

DecodeDigit(t) ==
  /\ pc[t] = "decode" /\ k[t] <= Len(Key(t))
  /\ LET d == rev[Key(t)[k[t]]] IN
     IF d < 0 THEN Go(t, "false") /\ UNCHANGED got
     ELSE got' = [got EXCEPT ![t] = Append(@, d)] /\ Advance(t)
  /\ UNCHANGED <<inOrder, rev, init, identity, alone>>

\* The fingerprint of what was read, or none of an empty key, is compared with
\* the declared one.
Decide(t) ==
  /\ pc[t] = "decode" /\ k[t] > Len(Key(t))
  /\ Go(t, IF got[t] # <<>> /\ got[t] = Declared(t) THEN "true" ELSE "false")
  /\ UNCHANGED <<inOrder, rev, init, identity, got, alone>>

TableNext ==
  \E t \in Thread :
    Call(t) \/ Test(t) \/ Clear(t) \/ Cleared(t) \/ Fill(t) \/ Filled(t)
      \/ FlagOvertakes(t) \/ DecodeDigit(t) \/ Decide(t)

TableSpec == TableInit /\ [][TableNext]_tableVars
----
(***************************************************************************)
(* Properties.                                                             *)
(***************************************************************************)

TableTypeOK ==
  /\ inOrder \in BOOLEAN /\ init \in BOOLEAN
  /\ rev \in [Range(Characters) -> -1..(Len(Alphabet) - 1)]
  /\ pc \in [Thread -> {"idle", "test", "clear", "fill", "decode", "true", "false"}]
  /\ k \in [Thread -> Nat \ {0}]
  /\ identity \in [Thread -> Identity]
  /\ got \in [Thread -> Seq(0..(Len(Alphabet) - 1))]
  /\ alone \in [Thread -> BOOLEAN]

\* The identity's key is Base64URL, not empty, and its fp is that of the key.
Matches(t) ==
  /\ Key(t) # <<>> /\ Len(Key(t)) = Len(Declared(t))
  /\ \A j \in DOMAIN Key(t) :
       Declared(t)[j] + 1 \in DOMAIN Alphabet /\ Alphabet[Declared(t)[j] + 1] = Key(t)[j]

\* A call beside which no other fills the table answers right, whatever state
\* earlier calls, racing or not, left the table in.
RightWhenAlone ==
  \A t \in Thread : alone[t] =>
    /\ pc[t] = "true" => Matches(t)
    /\ pc[t] = "false" => ~Matches(t)

\* While stores keep their order the race can only refuse: no identity passes
\* whose key does not have the declared fingerprint.
NeverAcceptsWrong ==
  inOrder => \A t \in Thread : pc[t] = "true" => Matches(t)

====
