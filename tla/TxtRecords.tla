---- MODULE TxtRecords ----
(***************************************************************************)
(* The readers of TXT records, side by side: the parsing of identity       *)
(* records in all libraries, the buffer the C library takes their texts    *)
(* from, and the C library's legacy ports.  They share no state.           *)
(***************************************************************************)
EXTENDS IdentityTxt, TxtBuffer, LegacyPorts

TxtSpec == Spec /\ BufferSpec /\ PortsSpec

\* The type invariants of the three, with what they say of the C library's two
\* passes over a reply: the second never writes past the buffer that the first
\* has sized, and leaves no byte of it as malloc did.
TypesOK == TypeOK /\ BufferTypeOK /\ PortsTypeOK
====
