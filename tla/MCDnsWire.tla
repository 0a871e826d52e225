---- MODULE MCDnsWire ----
(***************************************************************************)
(* Replies of up to two answers, after an alias or not.  Numbers have a    *)
(* low or a high octet, names are whole, compressed or the root, and names *)
(* and texts are ASCII, UTF-8 or neither.                                  *)
(***************************************************************************)
EXTENDS DnsWire, TLC

Root == [labels |-> <<>>, compressed |-> FALSE]
Queried == [labels |-> <<>>, compressed |-> TRUE]
QueriedInFull == [labels |-> << <<120>> >>, compressed |-> FALSE]
Host == [labels |-> << <<116>> >>, compressed |-> FALSE]
\* A letter past ASCII: two octets in UTF-8, one in Latin-1.
HostInUtf8 == [labels |-> << <<195, 188>> >>, compressed |-> FALSE]
HostInLatin == [labels |-> << <<252>> >>, compressed |-> FALSE]
HostBelow == [labels |-> << <<116>> >>, compressed |-> TRUE]

Owners == {Queried, QueriedInFull, HostInLatin}

Services ==
  [type : {SRV}, owner : Owners, priority : {1, 256}, weight : {0, 200}, port : {8080},
   target : {Root, Host, HostBelow, HostInUtf8, HostInLatin}]

Texts ==
  [type : {TXT}, owner : Owners,
   strings : {<< <<100, 100>> >>, << <<105, 100>>, <<100>> >>, << <<107>>, <<100, 100>> >>,
              << <<195, 188>>, <<252>> >>, << <<252, 100>> >>}]

Alias == [type |-> CNAME, owner |-> Queried,
          target |-> [labels |-> << <<99>> >>, compressed |-> TRUE]]

UpToTwo(answers) ==
  {<<>>} \cup {<<a>> : a \in answers} \cup {<<a, b>> : a \in answers, b \in answers}

Aliased(sections) ==
  {before \o answers : before \in {<<>>, <<Alias>>}, answers \in sections}

MCSections == (SRV :> Aliased(UpToTwo(Services))) @@ (TXT :> Aliased(UpToTwo(Texts)))
MCUtf8 == Seq(0..127) \cup { <<195, 188>> }
MCWalk == {"csharp", "dart", "lua"} \X {SRV, TXT}
====
