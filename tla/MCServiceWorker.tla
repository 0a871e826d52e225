---- MODULE MCServiceWorker ----
(***************************************************************************)
(* An instance of ServiceWorker for model checking.                        *)
(***************************************************************************)
EXTENDS ServiceWorker

\* Two hosts, the second with a "_" in its name and the first as its prefix.
MCHosts == {<<"alice">>, <<"alice", "lan">>}
====
