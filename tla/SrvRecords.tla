---- MODULE SrvRecords ----
(***************************************************************************)
(* SRV answers, and which of them a caller is to connect to.               *)
(***************************************************************************)
EXTENDS Integers, Sequences

UInt16 == 0..65535

(***************************************************************************)
(* One answer: its form, its priority and weight, and whether a name can   *)
(* be expanded from where its target is due.  The forms are                *)
(*   "srv"    an SRV record with its fixed fields and octets after them    *)
(*   "bare"   an SRV record that ends after them (rdlen 6): who expands    *)
(*            its target reads what follows the record in the message      *)
(*   "cut"    an SRV record that ends before that                          *)
(*   "other"  a record of another type                                     *)
(***************************************************************************)
Answer == [form : {"srv", "bare", "cut", "other"},
           priority : UInt16, weight : UInt16, expands : BOOLEAN]

\* The C and C# libraries pass over the others (rdlen < 7).
IsUsable(answer) == answer.form = "srv"

\* a ranks before b: lowest priority, then highest weight.
RanksBefore(a, b) ==
  a.priority < b.priority \/ (a.priority = b.priority /\ a.weight > b.weight)

\* k is the choice of RFC 2782 as the libraries read it: no usable answer
\* ranks before it, and it is the first of its rank.
IsChoice(section, k) ==
  /\ k \in DOMAIN section /\ IsUsable(section[k])
  /\ \A j \in DOMAIN section : IsUsable(section[j]) =>
       /\ ~RanksBefore(section[j], section[k])
       /\ j < k => RanksBefore(section[k], section[j])
====
