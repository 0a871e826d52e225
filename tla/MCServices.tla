---- MODULE MCServices ----
(***************************************************************************)
(* Sections with no record, one, two of different rank of which the better *)
(* one may have a target that does not expand, or none at all.             *)
(***************************************************************************)
EXTENDS Services

Good == [form |-> "srv", priority |-> 0, weight |-> 0, expands |-> TRUE]
Cut == [Good EXCEPT !.expands = FALSE]
Bare == [Good EXCEPT !.form = "bare"]
Worse == [Good EXCEPT !.priority = 1]

MCSection == {<<>>, <<Worse, Good>>, <<Bare, Worse>>, <<Cut, Bare, Worse>>}
====
