---- MODULE MCDidDns ----
(***************************************************************************)
(* All libraries on record sets in which each field takes its well-formed  *)
(* values and the ones the conversions treat differently, in every order   *)
(* of the three records, with a record missing or doubled.                 *)
(***************************************************************************)
EXTENDS DidDnsLibraries

CONSTANTS KeyA, KeyB

MCLibrary == DOMAIN ProfileOf

Num(n) == [lead |-> n, first |-> n, tail |-> FALSE]
\* Past fifteen characters; 2 * (Max + 1) is where integers wrap around.
Long(n, first) == [lead |-> n, first |-> first, tail |-> FALSE]
Past32 == Num(2 * (Max32 + 1) + 1)
Past64(n) == Long(2 * (Max64 + 1) + n, 4)
Zeros == Long(1, 0)
Junk == [lead |-> NoDigits, first |-> NoDigits, tail |-> TRUE]
Trailed == [lead |-> 1, first |-> 1, tail |-> TRUE]
FpOf(k) == [of |-> k, extra |-> FALSE]

Decl ==
  [type |-> "decl", led |-> FALSE, v |-> Num(1), fp |-> FpOf(KeyA), iat |-> Num(1), exp |-> Num(2)]

\* Deviations of one field, and of two that act together.
Decls ==
  {Decl}
    \cup {[Decl EXCEPT !.v = t] : t \in {Num(2), Num(-1), Blank, Junk, Trailed, Zeros,
                                      Past32, Num(-(2 * Max32 + 1)), Past64(1)}}
    \cup {[Decl EXCEPT !.exp = t] :
           t \in {NoField, Num(1), Num(0), Num(-1), Blank, Junk, Trailed, Zeros,
            Past64(0), Past64(1), Num(Max64)}}
    \cup {[Decl EXCEPT !.iat = t] : t \in {NoField, Past64(0), Junk}}
    \cup {[Decl EXCEPT !.fp = f] : f \in {NoField, FpOf(KeyB), FpOf(NoBytes), [of |-> KeyA, extra |-> TRUE]}}
    \cup {[Decl EXCEPT !.led = TRUE, !.v = Num(v)] : v \in 1..2}

Pks ==
  {[type |-> "pk", kty |-> "ed25519", key |-> [bytes |-> KeyA, form |-> form]] :
      form \in {"clean", "padded", "noisy"}}
    \cup {[type |-> "pk", kty |-> kty, key |-> [bytes |-> KeyA, form |-> "clean"]] :
            kty \in {NoField, "", "other"}}
    \cup {[type |-> "pk", kty |-> NoField, key |-> [bytes |-> NoBytes, form |-> "clean"]]}

Plain(k) == [of |-> k, led |-> FALSE]
Led(k) == [of |-> k, led |-> TRUE]
Blacks ==
  {[type |-> "black", fps |-> fps] :
     fps \in {<< >>, <<Plain(KeyB)>>, <<Led(KeyA)>>, <<Plain(KeyB), Plain(KeyA)>>,
              <<Plain(KeyB), Led(KeyA)>>, <<Plain(KeyB), Plain(KeyB), Plain(KeyA)>>}}

InAnyOrder(d, k, b) ==
  {<<d, k, b>>, <<d, b, k>>, <<k, d, b>>, <<k, b, d>>, <<b, d, k>>, <<b, k, d>>}

MCAnswers ==
  UNION {InAnyOrder(d, k, b) : d \in Decls, k \in Pks, b \in Blacks}
    \cup {<<d, k>> : d \in Decls, k \in Pks}
    \cup {<<d>> : d \in Decls} \cup {<<k>> : k \in Pks}
    \cup {<<Decl, d, k>> : d \in Decls, k \in Pks}
    \cup {<<d, Decl, k>> : d \in Decls, k \in Pks}
====
