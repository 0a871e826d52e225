---- MODULE MCDnsFetcher ----
(***************************************************************************)
(* Instances of DnsFetcher for model checking.                             *)
(***************************************************************************)
EXTENDS DnsFetcher, TLC

MCHost == <<"alice">>
MCDomain == {MCHost}

CallerSymmetry == Permutations(Caller)
====
