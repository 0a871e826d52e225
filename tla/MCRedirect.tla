---- MODULE MCRedirect ----
(***************************************************************************)
(* All assignments of records to the hosts, circles among them.            *)
(***************************************************************************)
EXTENDS Redirect

MCZones == Zone
====
