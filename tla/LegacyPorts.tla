---- MODULE LegacyPorts ----
(***************************************************************************)
(* The legacy part of the C library: the ports in a v1 JSON TXT record,    *)
(* {"http":8080,"ws":9090}, read by a search for names (json_get_uint16),  *)
(* and the resolver state of libresolv, _res, that one call leaves to the  *)
(* next.  A text is its members and whether it begins with a brace; the    *)
(* value of a member is a number or, quoted, a word: "" is no word, and 0  *)
(* is what a word is as a number.                                          *)
(***************************************************************************)
EXTENDS Integers, Sequences, SequencesExt

CONSTANTS
  Reply,     \* TXT replies: for each answer, its first character-string; no
             \* text also stands for a query that fails
  System,    \* the server of the system's configuration
  Custom,    \* other servers
  MaxCalls   \* bounds the calls

Member == [name : STRING, word : STRING, number : Int]

ASSUME LegacyAssumption ==
  /\ System \notin Custom /\ MaxCalls \in Nat
  /\ Reply \subseteq Seq([brace : BOOLEAN, members : Seq(Member)])

Scheme == {"http", "https", "ws", "wss"}

\* KIRIN_HTTP_DEFAULT and so on, "standard IANA fallback ports".
Default == [http |-> 80, https |-> 443, ws |-> 80, wss |-> 443]

Unread == -1  \* what the caller's structure holds at first

VARIABLES
  server,   \* the one that _res names
  named,    \* the one that a caller named last, if its address was one
  ports,    \* the caller's structure
  asked,    \* the server that the last call asked, or "none"
  reply,    \* what it replied
  code,     \* what the last call returned
  calls

portsVars == <<server, named, ports, asked, reply, code, calls>>

PortsInit ==
  /\ server = System /\ named = System
  /\ ports = [n \in Scheme |-> Unread]
  /\ asked = "none" /\ reply = <<>> /\ code = "none" /\ calls = 0
----
(***************************************************************************)
(* json_get_uint16 and parse_adrp_txt.                                     *)
(***************************************************************************)

\* The quoted words of a text, each with the member that the next colon is of:
\* a word in the place of a value is followed by the colon of the next member.
Words(members) ==
  FlattenSeq([j \in DOMAIN members |->
    <<[word |-> members[j].name, of |-> j]>> \o
    IF members[j].word = "" THEN <<>> ELSE <<[word |-> members[j].word, of |-> j + 1]>>])

PortNumber == 1..65535

Port(val) == IF val \in PortNumber THEN val ELSE 0

\* Faulty variant: the closing quote is not looked for.
json_get_uint16_Prefix(members, name) ==
  LET w == SelectInSeq(Words(members),
             LAMBDA x : x.word = name \/ <<name, x.word>> \in {<<"http", "https">>, <<"ws", "wss">>})
      j == Words(members)[w].of
  IN  IF w = 0 \/ j > Len(members) THEN 0 ELSE Port(members[j].number)

\* The first word that is the name decides; 0 if no number is there.
json_get_uint16(members, name) ==
  LET w == SelectInSeq(Words(members), LAMBDA x : x.word = name)
      j == Words(members)[w].of
  IN  IF w = 0 \/ j > Len(members) THEN 0 ELSE Port(members[j].number)

\* The ports with those of the text in their places.
parse_adrp_txt(text, before) ==
  IF ~text.brace THEN before
  ELSE [n \in Scheme |-> IF json_get_uint16(text.members, n) > 0
                       THEN json_get_uint16(text.members, n) ELSE before[n]]

\* extract_txt_string takes the first text of the reply.
Read(texts, before) ==
  IF texts = <<>> THEN before ELSE parse_adrp_txt(Head(texts), before)
----
(***************************************************************************)
(* The calls.                                                              *)
(***************************************************************************)

\* "Start with fallback ports"
Start == Default

\* A call that queries a server.
Resolve(from) ==
  /\ calls < MaxCalls /\ calls' = calls + 1
  /\ asked' = from
  /\ reply' \in Reply
  /\ ports' = Read(reply', Start)
  /\ code' = "KIRIN_OK"

kirin_resolve == Resolve(server) /\ UNCHANGED <<server, named>>

kirin_resolve_with_server ==
  \E s \in Custom : server' = s /\ named' = s /\ Resolve(s)

\* Faulty variant: the address is looked at first.
BadServer_Early ==
  /\ calls < MaxCalls /\ calls' = calls + 1
  /\ named' = System
  /\ ports' = Start /\ asked' = "none" /\ reply' = <<>> /\ code' = "KIRIN_ERR_DNS"
  /\ UNCHANGED server

\* inet_aton rejects the address, when res_init is done.
BadServer ==
  /\ calls < MaxCalls /\ calls' = calls + 1
  /\ server' = System /\ named' = System
  /\ ports' = Start /\ asked' = "none" /\ reply' = <<>> /\ code' = "KIRIN_ERR_DNS"

\* Any v2 function that queries: it asks the same server.
ResolveV2 ==
  /\ calls < MaxCalls /\ calls' = calls + 1
  /\ asked' = server
  /\ code' = "v2"
  /\ UNCHANGED <<server, named, ports, reply>>

PortsNext == kirin_resolve \/ kirin_resolve_with_server \/ BadServer \/ ResolveV2

PortsSpec == PortsInit /\ [][PortsNext]_portsVars
----
(***************************************************************************)
(* Properties.                                                             *)
(***************************************************************************)

\* Whatever the text, what a caller gets are ports: never 0, never one that
\* has lost bits in a uint16_t.
PortsTypeOK ==
  /\ server \in Custom \cup {System} /\ asked \in Custom \cup {System, "none"}
  /\ code # "none" /\ code # "v2" => \A n \in Scheme : ports[n] \in PortNumber
  /\ code \in {"none", "KIRIN_OK", "KIRIN_ERR_DNS", "v2"}

\* A record as the v1 format has it: members with numbers, no name twice.
Proper(text) ==
  /\ text.brace
  /\ \A x, y \in DOMAIN text.members :
       /\ text.members[x].word = ""
       /\ x # y => text.members[x].name # text.members[y].name

\* No port is left over from an earlier call with the same structure: each is
\* the standard one, or a number in the text that this call has read.  Of a
\* proper record the port of each name is read, wherever it stands, and the
\* standard one where it has none or one out of range.
ReadsProper ==
  /\ code \in {"KIRIN_OK", "KIRIN_ERR_DNS"} =>
       \A n \in Scheme :
         \/ ports[n] = Default[n]
         \/ reply # <<>> /\ \E m \in Range(Head(reply).members) : m.number = ports[n]
  /\ code = "KIRIN_OK" /\ reply # <<>> /\ Proper(Head(reply)) =>
       \A n \in Scheme :
         LET given == {m.number : m \in {m \in Range(Head(reply).members) :
                                           m.name = n /\ m.number \in PortNumber}}
         IN  IF given = {} THEN ports[n] = Default[n] ELSE ports[n] \in given

\* Every query, of v2 too, goes to the server that was named last; naming one
\* with a bad address goes back to the system's, never on to the one before.
AsksLastNamed == asked \in {named, "none"}

====
