---- MODULE MCTxtRecords ----
(***************************************************************************)
(* The readers of TXT records.  They share no state: a behaviour runs one  *)
(* of the three while the others rest, so that there are as many states as *)
(* the three have and no products of them.                                 *)
(***************************************************************************)
EXTENDS IdentityLibraries, TxtRecords

(***************************************************************************)
(* Identity records: replies of up to three.  Texts of up to three pairs,  *)
(* chosen so that names repeat, fields lack, and values are ones libraries *)
(* read differently.                                                       *)
(***************************************************************************)
MCWord ==
  Name \cup {"v", "quoted", "A", "B", "", "blanks", "long", "cut", "true", "false", "True"}

P(name, val) == [name |-> name, padded |-> FALSE, lead |-> FALSE, val |-> val]
Padded(pair) == [pair EXCEPT !.padded = TRUE]
Led(pair) == [pair EXCEPT !.lead = TRUE]

MCHeads == {P("id", "A"), Padded(P("id", "A")), Led(P("id", "A")), P("id", ""), P("v", "A")}
MCPairs ==
  {P("id", "B"), P("id", ""), P("key", "A"), P("key", ""), P("key", "blanks"), P("key", "long"),
   P("nick", "B"), P("nick", ""), P("ipfs", "true"), P("ipfs", "True"), P("ipfs", "B"), P("v", "A")}

MCTexts ==
  {<<h>> : h \in MCHeads} \cup {<<h, a>> : h \in MCHeads, a \in MCPairs}
  \cup {<<h, a, b>> : h \in MCHeads, a \in MCPairs, b \in MCPairs}

\* Texts that go before, each with a field that a later one may lack.
MCEarlier ==
  {<<P("v", "A")>>, <<P("id", "B"), P("nick", "A")>>, <<P("key", "B")>>,
   <<P("id", "B"), P("key", "B"), P("ipfs", "false")>>}

MCRecords ==
  {<<>>}
  \cup {<<<<t>>>> : t \in MCTexts}
  \cup {<<<<e>>, <<t>>>> : e \in MCEarlier, t \in MCTexts}
  \cup {<<<<t, e>>>> : e \in MCEarlier, t \in MCTexts}
  \cup {<<<<e>>, <<f>>, <<t>>>> : e, f \in MCEarlier, t \in {<<P("id", "A"), P("key", "A")>>}}

(***************************************************************************)
(* The buffer: two answers, of up to four bytes of RDATA each; 2 stands    *)
(* for the byte that identity texts begin with.                            *)
(***************************************************************************)
MCByte == 0..2
MCRData(n) == BoundedSeq(MCByte, n)
MCText(rdata) == [txt |-> TRUE, rdata |-> rdata]
MCOther == [txt |-> FALSE, rdata |-> <<1, 2>>]
MCResponse ==
  {<<>>}
  \cup {<<MCText(a), MCText(b)>> : a \in MCRData(4), b \in MCRData(4)}
  \cup {<<MCOther, MCText(a)>> : a \in MCRData(3)}
MCIdentityText == {t \in BoundedSeq(1..2, 3) : t # <<>> /\ t[1] = 2}

(***************************************************************************)
(* Legacy ports: replies of up to two texts; texts of up to two members,   *)
(* with numbers at the limits of a port and words that are names.          *)
(***************************************************************************)
Number(n, v) == [name |-> n, word |-> "", number |-> v]
InQuotes(n, w) == [name |-> n, word |-> w, number |-> 0]

MCMembers ==
  {Number(n, v) : n \in {"http", "wss"}, v \in {0, 1, 65535, 65536}}
  \cup {InQuotes("http", "wss"), InQuotes("x", "http")}

MCLegacyTexts == {[brace |-> TRUE, members |-> s] : s \in BoundedSeq(MCMembers, 2)}

MCForeign == [brace |-> FALSE, members |-> <<>>]

MCReply ==
  {<<>>, <<MCForeign, [brace |-> TRUE, members |-> <<Number("wss", 65535)>>]>>}
  \cup {<<t>> : t \in MCLegacyTexts}
----
VARIABLE part  \* the component that runs: "identity", "buffer" or "ports"

MCVars == <<part, vars, bufferVars, portsVars>>

AtRest == records = <<>> /\ library = "C" /\ Init
BufferAtRest == response = <<>> /\ BufferInit

MCInit ==
  \/ part = "identity" /\ BufferAtRest /\ PortsInit /\ Init
  \/ part = "buffer" /\ AtRest /\ PortsInit /\ BufferInit
  \/ part = "ports" /\ AtRest /\ BufferAtRest /\ PortsInit

MCNext ==
  \/ part = "identity" /\ Next /\ UNCHANGED <<part, bufferVars, portsVars>>
  \/ part = "buffer" /\ BufferNext /\ UNCHANGED <<part, vars, portsVars>>
  \/ part = "ports" /\ PortsNext /\ UNCHANGED <<part, vars, bufferVars>>

MCSpec == MCInit /\ [][MCNext]_MCVars
====
