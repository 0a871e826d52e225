---- MODULE DnsWire ----
(***************************************************************************)
(* The three libraries that read DNS answers off the wire themselves:      *)
(* C#, Dart and Lua.  One query over UDP, the walk of its parser over the  *)
(* octets of the reply, and what the caller gets.                          *)
(*                                                                         *)
(* Positions count from 0, as in C# and Dart; Lua's are one more.  Replies *)
(* are well-formed; they have one question and fit the datagram.  Names    *)
(* and texts are their octets, those of a text in UTF-8.                   *)
(***************************************************************************)
EXTENDS Integers, Sequences, SequencesExt

CONSTANTS
  Walk,       \* the parsers: pairs of a library and the type it asks for
  Sections,   \* for each type, the answer sections considered
  Utf8,       \* the strings of octets that are UTF-8
  Nothing,    \* null, or no records
  Threw,      \* the call throws
  NoReply     \* before the reply, or without one

CNAME == 5
TXT == 16
SRV == 33

ASSUME WalkAssumption == Walk \subseteq ({"csharp", "dart", "lua"} \X {SRV, TXT})

(***************************************************************************)
(* The answers of a reply, as their sender means them.  A compressed name  *)
(* ends in a pointer to the question's name, <<120>>.  Empty strings are   *)
(* left out, of which each parser makes something else; no text of an      *)
(* identity is empty.  So are strings with a byte order mark, which Dart   *)
(* drops.                                                                  *)
(***************************************************************************)
Octet == 0..255
MaxUInt16 == 65535
UInt16 == 0..MaxUInt16
Marked == {string \in Seq(Octet) : IsPrefix(<<239, 187, 191>>, string)}
Label == {label \in Seq(Octet) \ Marked : Len(label) \in 1..63}
Name == [labels : Seq(Label), compressed : BOOLEAN]
CharacterString == {string \in Seq(Octet) \ Marked : Len(string) \in 1..255}

ServiceAnswer ==
  [type : {SRV}, owner : Name, priority : UInt16, weight : UInt16, port : UInt16, target : Name]
TextAnswer == [type : {TXT}, owner : Name, strings : Seq(CharacterString) \ {<<>>}]
AliasAnswer == [type : {CNAME}, owner : Name, target : Name]

Whole(name) == name.labels \o (IF name.compressed THEN << <<120>> >> ELSE <<>>)

Octets(n) == <<n \div 256, n % 256>>

\* Each string after its length.
Counted(strings) == FlattenSeq([i \in DOMAIN strings |-> <<Len(strings[i])>> \o strings[i]])

NameOctets(name) == Counted(name.labels) \o (IF name.compressed THEN <<192, 12>> ELSE <<0>>)

Rdata(answer) ==
  CASE answer.type = SRV -> Octets(answer.priority) \o Octets(answer.weight)
                              \o Octets(answer.port) \o NameOctets(answer.target)
    [] answer.type = TXT -> Counted(answer.strings)
    [] OTHER -> NameOctets(answer.target)

\* The name of the question is a letter.
ASSUME Utf8Assumption == <<120>> \in Utf8
ASSUME MarkerAssumption ==
  /\ Nothing # Threw
  /\ {Nothing, Threw} \cap [target : Seq(Seq(Octet)), port : UInt16] = {}
\* Counts and lengths fit their fields.
ASSUME SectionsAssumption ==
  /\ Sections[SRV] \subseteq Seq(ServiceAnswer \cup AliasAnswer)
  /\ Sections[TXT] \subseteq Seq(TextAnswer \cup AliasAnswer)
  /\ \A answers \in Sections[SRV] \cup Sections[TXT] :
       /\ Len(answers) \in UInt16
       /\ \A i \in DOMAIN answers : Len(Rdata(answers[i])) \in UInt16

VARIABLES
  walk,     \* the parser at work
  section,  \* history: the answers in the reply
  msg,      \* the reply
  pos,      \* where the parser is
  left,     \* the answers it has yet to read
  found,    \* the records, or the texts, it has
  stage,    \* "asked", "walking", "walked" or "done"
  outcome   \* what the caller gets, when done

vars == <<walk, section, msg, pos, left, found, stage, outcome>>

Library == walk[1]
Asked == walk[2]
----
(***************************************************************************)
(* The reply, octet by octet.                                              *)
(***************************************************************************)
Encoded(answer) ==
  NameOctets(answer.owner) \o Octets(answer.type) \o <<0, 1, 0, 0, 0, 60>>
    \o Octets(Len(Rdata(answer))) \o Rdata(answer)

\* A header of 12 octets, and the question: a name of one label.
Opening(type, count) ==
  <<0, 1, 129, 128, 0, 1>> \o Octets(count) \o <<0, 0, 0, 0>>
    \o <<1, 120, 0>> \o Octets(type) \o <<0, 1>>

Message(type, answers) ==
  Opening(type, Len(answers)) \o FlattenSeq([i \in DOMAIN answers |-> Encoded(answers[i])])
----
(***************************************************************************)
(* Reading octets.                                                         *)
(***************************************************************************)
At(p) == msg[p + 1]

\* Faulty variant: the low octet is taken for a signed one.
Word_LowSigned(p) ==
  At(p) * 256 + (IF At(p + 1) > 127 THEN At(p + 1) - 256 ELSE At(p + 1))

Word(p) == At(p) * 256 + At(p + 1)
IsPointer(octet) == octet >= 192

\* _readName's and readName's second result; SkipName.
AfterName(p) ==
  LET after[q \in Nat] ==
        IF q >= Len(msg) THEN q
        ELSE IF At(q) = 0 THEN q + 1
        ELSE IF IsPointer(At(q)) THEN q + 2
        ELSE after[q + At(q) + 1]
  IN after[p]

\* _readName's and readName's first result, as labels.  ReadName of C# ends at
\* a pointer.  The octet after a pointer's first is there in every reply here.
MaxJumps == 10
NameAt(p) ==
  LET labels[at \in Nat \X (0..MaxJumps)] ==
        LET q == at[1]
            jumps == at[2]
        IN IF q >= Len(msg) THEN <<>>
           ELSE IF At(q) = 0 THEN <<>>
           ELSE IF IsPointer(At(q)) THEN
             IF Library = "csharp" \/ jumps = MaxJumps \/ q + 1 = Len(msg) THEN <<>>
             ELSE labels[<<(At(q) % 64) * 256 + At(q + 1), jumps + 1>>]
           ELSE <<SubSeq(msg, q + 2, q + 1 + At(q))>> \o labels[<<q + At(q) + 1, jumps>>]
  IN labels[<<p, 0>>]
----
(***************************************************************************)
(* An answer, as the parser sees it.                                       *)
(***************************************************************************)
\* Lua tests for one octet more than it reads.
Room(p) == p + (IF Library = "lua" THEN 11 ELSE 10) <= Len(msg)

Fixed == AfterName(pos)

\* Where the length of the data is read: ExtractTxtAnswers of C# is past type,
\* class and lifetime when it skips four octets for a lifetime.
LengthAt == Fixed + (IF walk = <<"csharp", TXT>> THEN 12 ELSE 8)
Data == LengthAt + 2
DataLength == Word(LengthAt)

\* Faulty variant: the next answer is sought past the first string of a text.
NextAt_PastFirstString ==
  IF Word(Fixed) = TXT THEN Data + 1 + At(Data) ELSE Data + DataLength

NextAt == Data + DataLength

\* Lua's parseDnsResponse takes the parser that the first answer calls for.
Seeks ==
  IF Library # "lua" THEN Asked
  ELSE IF section[1].type = SRV THEN SRV ELSE TXT

IsService ==
  /\ Seeks = SRV /\ Word(Fixed) = SRV
  /\ DataLength >= (IF Library = "csharp" THEN 7 ELSE 6)

\* C# takes names for ASCII: any other octet becomes a question mark.
Written(labels) ==
  IF Library # "csharp" THEN labels
  ELSE [i \in DOMAIN labels |->
          [j \in DOMAIN labels[i] |-> IF labels[i][j] > 127 THEN 63 ELSE labels[i][j]]]

Service ==
  [priority |-> Word(Data), weight |-> Word(Data + 2), port |-> Word(Data + 4),
   target |-> Written(NameAt(Data + 6))]

\* Faulty variant: the text is all that is left of the data.
TextLength_Whole == DataLength - 1

TextLength ==
  IF Library = "csharp" \/ At(Data) < DataLength - 1 THEN At(Data) ELSE DataLength - 1

IsText ==
  /\ Seeks = TXT /\ Word(Fixed) = TXT
  /\ DataLength > 1
  /\ Library = "csharp" => At(Data) > 0 /\ Data + 1 + At(Data) <= Len(msg)

\* C# has U+FFFD for what is not UTF-8, here in place of the whole text.
Replaced == <<239, 191, 189>>

Text ==
  LET octets == SubSeq(msg, Data + 2, Data + 1 + TextLength)
  IN IF Library = "csharp" /\ octets \notin Utf8 THEN Replaced ELSE octets
----
Init ==
  /\ walk \in Walk
  /\ section = NoReply /\ msg = <<>>
  /\ pos = 0 /\ left = 0 /\ found = <<>>
  /\ stage = "asked" /\ outcome = Nothing

Receive ==
  /\ stage = "asked"
  /\ \E answers \in Sections[Asked] :
       /\ section' = answers
       /\ msg' = Message(Asked, answers)
       /\ left' = Len(answers)
  /\ pos' = Len(Opening(Asked, 0))
  /\ stage' = "walking"
  /\ UNCHANGED <<walk, found, outcome>>

\* Three seconds pass: udp.Receive throws, the others return null.
TimesOut ==
  /\ stage = "asked"
  /\ stage' = "done"
  /\ outcome' = IF Library = "csharp" THEN Threw ELSE Nothing
  /\ UNCHANGED <<walk, section, msg, pos, left, found>>

\* The loop's tests, to the length of the data.
Reaches == left > 0 /\ Room(pos) /\ Room(Fixed)

\* C# alone tests that the data is all there.
Fits == Reaches /\ Data <= Len(msg) /\ (Library = "csharp" => NextAt <= Len(msg))

\* Dart's utf8.decode throws on what is not UTF-8.
Decodes(strings) == Library = "dart" => strings \in Seq(Utf8)

Advance ==
  /\ stage = "walking" /\ Fits /\ Decodes(NameAt(pos))
  /\ pos' = NextAt
  /\ left' = left - 1
  /\ UNCHANGED <<walk, section, msg, stage, outcome>>

TakeService ==
  /\ Advance /\ IsService /\ Decodes(NameAt(Data + 6))
  /\ found' = Append(found, Service)

TakeText ==
  /\ Advance /\ IsText /\ Decodes(<<Text>>)
  /\ found' = Append(found, Text)

PassOver == Advance /\ ~IsService /\ ~IsText /\ UNCHANGED found

\* The length of the data is past the end of the reply.
RunsOver ==
  /\ stage = "walking" /\ Reaches /\ Data > Len(msg)
  /\ stage' = "done" /\ outcome' = Threw
  /\ UNCHANGED <<walk, section, msg, pos, left, found>>

\* The owner, of an answer of any type, or the target or the text it takes.
\* No caller catches what utf8.decode throws.
FailToDecode ==
  /\ stage = "walking" /\ left > 0 /\ Room(pos)
  /\ \/ ~Decodes(NameAt(pos))
     \/ Fits /\ IsService /\ ~Decodes(NameAt(Data + 6))
     \/ Fits /\ IsText /\ ~Decodes(<<Text>>)
  /\ stage' = "done" /\ outcome' = Threw
  /\ UNCHANGED <<walk, section, msg, pos, left, found>>

Stop ==
  /\ stage = "walking" /\ ~Fits /\ ~(Reaches /\ Data > Len(msg))
  /\ left > 0 /\ Room(pos) => Decodes(NameAt(pos))
  /\ stage' = "walked"
  /\ UNCHANGED <<walk, section, msg, pos, left, found, outcome>>

\* Faulty variant: the lighter of two records of a priority comes first.
Sorts_LightFirst(a, b) ==
  a.priority < b.priority \/ (a.priority = b.priority /\ a.weight < b.weight)

Sorts(a, b) ==
  a.priority < b.priority \/ (a.priority = b.priority /\ a.weight > b.weight)

\* The first after the sort; the sorts of Lua and Dart are not stable.
ReturnService ==
  /\ stage = "walked" /\ Asked = SRV
  /\ \/ found = <<>> /\ outcome' = Nothing
     \/ \E i \in DOMAIN found :
          /\ \A j \in DOMAIN found : ~Sorts(found[j], found[i])
          /\ Library = "csharp" => \A j \in 1..(i - 1) : Sorts(found[i], found[j])
          /\ outcome' = [target |-> found[i].target, port |-> found[i].port]
  /\ stage' = "done"
  /\ UNCHANGED <<walk, section, msg, pos, left, found>>

ReturnTexts ==
  /\ stage = "walked" /\ Asked = TXT
  /\ outcome' = found
  /\ stage' = "done"
  /\ UNCHANGED <<walk, section, msg, pos, left, found>>

Next ==
  \/ Receive \/ TimesOut
  \/ TakeService \/ TakeText \/ PassOver \/ RunsOver \/ FailToDecode \/ Stop
  \/ ReturnService \/ ReturnTexts

Spec == Init /\ [][Next]_vars
----
(***************************************************************************)
(* Properties.                                                             *)
(***************************************************************************)

TypeOK ==
  /\ walk \in Walk
  /\ msg \in Seq(Octet)
  /\ pos \in Nat /\ left \in Nat
  /\ found \in IF Asked = SRV
              THEN Seq([priority : Nat, weight : Nat, port : Nat, target : Seq(Seq(Octet))])
              ELSE Seq(Seq(Octet))
  /\ stage \in {"asked", "walking", "walked", "done"}

\* The parser whose lengths are read in the wrong place.
Misplaced == walk = <<"csharp", TXT>>

\* Between two answers the parser is where the one ends and the other begins:
\* it neither reads into the data of an answer nor leaves one out.
Aligned ==
  stage = "walking" /\ ~Misplaced =>
    pos = Len(Message(Asked, SubSeq(section, 1, Len(section) - left)))

\* Lua reads no service where the reply begins with an alias.
Misdirected == Library = "lua" /\ section # <<>> /\ section[1].type # SRV

\* C# reads a target up to a pointer, and in ASCII.
Legible(answer) ==
  Library = "csharp" =>
    /\ ~answer.target.compressed
    /\ \A i \in DOMAIN answer.target.labels : answer.target.labels[i] \in Seq(0..127)

\* For one name or text that is not UTF-8, Dart gives up the whole reply.
Decodable(answer) ==
  /\ answer.owner.labels \in Seq(Utf8)
  /\ answer.type = SRV => answer.target.labels \in Seq(Utf8)
  /\ answer.type = TXT => Head(answer.strings) \in Utf8

GivesUp == Library = "dart" /\ \E i \in DOMAIN section : ~Decodable(section[i])

Better(a, b) == a.priority < b.priority \/ (a.priority = b.priority /\ a.weight > b.weight)

\* "RFC 2782: lowest priority, then highest weight": the caller gets target and
\* port of a record that no other is better than, and null only if there is none.
\* Dart throws if a name is not UTF-8, and only then.
ChoosesBest ==
  stage = "done" /\ Asked = SRV /\ section # NoReply /\ ~Misdirected =>
    LET services == {answer \in ToSet(section) : answer.type = SRV}
    IN IF GivesUp THEN outcome = Threw
       ELSE IF services = {} THEN outcome = Nothing
       ELSE /\ outcome \notin {Nothing, Threw}
            /\ \E best \in services :
                 /\ \A other \in services : ~Better(other, best)
                 /\ outcome.port = best.port
                 /\ Legible(best) => outcome.target = Whole(best.target)

\* The first string of every text record.
FirstStrings(answers) ==
  FlattenSeq([i \in DOMAIN answers |->
                IF answers[i].type = TXT THEN <<Head(answers[i].strings)>> ELSE <<>>])

\* The caller gets the first string of every text record, in their order; or
\* Dart throws, if a name or such a string is not UTF-8, and only then.
TextsAreRead ==
  stage = "done" /\ Asked = TXT /\ section # NoReply =>
    outcome = IF GivesUp THEN Threw ELSE FirstStrings(section)

\* So it is in every library but the one whose lengths are misplaced.
ReadsTexts == ~Misplaced => TextsAreRead
====
