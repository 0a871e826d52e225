---- MODULE IdentityTxt ----
(***************************************************************************)
(* Identity TXT records (id=<uuid>;key=<hex>;nick=<name>;ipfs=<bool>): the *)
(* text of a TXT reply a library takes for the identity, and what it reads *)
(* in it.  What the libraries do differently is in a profile each.         *)
(*                                                                         *)
(* A record is a sequence of character-strings, a character-string of      *)
(* pairs: texts are cut at ";" only.  All libraries trim names and values, *)
(* so a pair is told by its trimmed name, its value and what surrounds it. *)
(***************************************************************************)
EXTENDS Integers, Sequences, SequencesExt

CONSTANTS
  Word,     \* the names and values of pairs
  Records,  \* the TXT records a query may return, in the order of the reply
  Library,  \* names of the libraries
  Profile,  \* what each does, see below
  Unset     \* the value of a field that no pair has set

Name == {"id", "key", "nick", "ipfs"}

Pair == [name : Word, padded : BOOLEAN, lead : BOOLEAN, val : Word]
\* padded: a blank before "="; lead: a blank before the name

(***************************************************************************)
(* A profile:                                                              *)
(*   texts     "strings": a character-string is a text of its own; "first" *)
(*             reads the first of a record only; "joined" joins them all,  *)
(*             "quoted" with the quotes that dig puts between them; "none" *)
(*             never gets the reply                                        *)
(*   trims     blanks before the first pair of a text are passed over      *)
(*   anyPair   a text need not begin with "id="; one known pair will do    *)
(*   empty     what a pair without a value is: "skipped", "counts", or     *)
(*             "lost" where it unsets id and key                           *)
(*   blanks    a value of blanks only is kept as it is, or trimmed to ""   *)
(*   on        the values of ipfs that mean yes                            *)
(*   strict    a value of ipfs other than true and false is skipped        *)
(*   room      values longer than a fixed buffer are cut                   *)
(***************************************************************************)
Profiles ==
  [texts : {"strings", "first", "joined", "quoted", "none"}, trims : BOOLEAN, anyPair : BOOLEAN,
   empty : {"skipped", "counts", "lost"}, blanks : BOOLEAN, on : SUBSET Word,
   strict : BOOLEAN, room : BOOLEAN]

\* What is cut at ";" has a pair, a TXT record has a character-string.
TxtTexts == Seq(Pair) \ {<<>>}
TxtRecord == Seq(TxtTexts) \ {<<>>}

ASSUME RecordsAssumption ==
  /\ Records \subseteq Seq(TxtRecord)
  /\ Profile \in [Library -> Profiles]
  /\ \A l \in Library : "true" \in Profile[l].on /\ "false" \notin Profile[l].on
  /\ {"quoted", "", "cut", "A", "B", "true", "false"} \subseteq Word /\ Unset \notin Word

VARIABLES
  library,
  records,
  k,         \* the next text to try
  identity,  \* the structure the last parse has filled
  result     \* "trying", "found" or "none"

vars == <<library, records, k, identity, result>>

Blank == [n \in Name |-> Unset]

Init ==
  /\ library \in Library
  /\ records \in Records
  /\ k = 1
  /\ identity = Blank
  /\ result = "trying"

Does == Profile[library]

\* A string that follows another begins, for Swift, with a quote.
Quoted(r) ==
  [s \in DOMAIN records[r] |->
     IF s = 1 THEN records[r][s] ELSE [records[r][s] EXCEPT ![1].name = "quoted"]]

\* The texts of the reply that the library gets to see.
Texts ==
  CASE Does.texts = "strings" -> FlattenSeq(records)
    [] Does.texts = "first"   -> [r \in DOMAIN records |-> records[r][1]]
    [] Does.texts = "joined"  -> [r \in DOMAIN records |-> FlattenSeq(records[r])]
    [] Does.texts = "quoted"  -> [r \in DOMAIN records |-> FlattenSeq(Quoted(r))]
    [] Does.texts = "none"    -> <<>>

\* txt starts with "id=".
StartsWithId(text) ==
  /\ text # <<>>
  /\ text[1].name = "id" /\ ~text[1].padded
  /\ Does.trims \/ ~text[1].lead

Value(pair) ==
  IF pair.val = "blanks" /\ ~Does.blanks THEN ""
  ELSE IF Does.room /\ pair.val = "long" THEN "cut" ELSE pair.val

\* The pair has a value to set its field to.
Sets(pair) ==
  /\ Value(pair) # "" \/ Does.empty # "skipped"
  /\ Does.strict /\ pair.name = "ipfs" => pair.val \in {"true", "false"}

\* Faulty variant: the first pair of a name wins.
Field_First(text, name) ==
  LET at == SelectInSeq(text, LAMBDA pair : pair.name = name /\ Sets(pair))
  IN  IF at = 0 THEN Unset ELSE Value(text[at])

\* The last pair of a name wins.
Field(text, name) ==
  LET at == SelectLastInSeq(text, LAMBDA pair : pair.name = name /\ Sets(pair))
  IN  IF at = 0 THEN Unset ELSE Value(text[at])

\* Faulty variant: the structure is not cleared.
Parse_NoReset(text) ==
  [n \in Name |-> IF Field(text, n) = Unset THEN identity[n] ELSE Field(text, n)]

\* The structure after its texts have been gone through.
Parse(text) == [n \in Name |-> Field(text, n)]

Present(val) == val # Unset /\ (val = "" => Does.empty = "counts")

\* Faulty variant: nick is required.
Takes_Nick(text) ==
  IF Does.anyPair THEN \E n \in Name : Present(Field(text, n))
  ELSE StartsWithId(text) /\ \A n \in {"id", "key", "nick"} : Present(Field(text, n))

\* The text is an identity record, as this library has it.
Takes(text) ==
  IF Does.anyPair THEN \E n \in Name : Present(Field(text, n))
  ELSE StartsWithId(text) /\ \A n \in {"id", "key"} : Present(Field(text, n))

\* Tries the next text.  One that does not start with "id=" leaves the
\* structure alone, one that lacks the key leaves it half filled.
Try ==
  /\ result = "trying" /\ k <= Len(Texts)
  /\ LET text == Texts[k] IN
     /\ identity' = IF Does.anyPair \/ StartsWithId(text) THEN Parse(text) ELSE identity
     /\ result' = IF Takes(text) THEN "found" ELSE "trying"
     /\ k' = IF Takes(text) THEN k ELSE k + 1
  /\ UNCHANGED <<library, records>>

GiveUp ==
  /\ result = "trying" /\ k > Len(Texts)
  /\ result' = "none"
  /\ UNCHANGED <<library, records, k, identity>>

Next == Try \/ GiveUp

Spec == Init /\ [][Next]_vars
----
(***************************************************************************)
(* Properties.                                                             *)
(***************************************************************************)

\* The walk stays in the texts, and stops at one only if there is one.
TypeOK ==
  /\ library \in Library
  /\ result \in {"trying", "found", "none"}
  /\ k \in 1..(Len(Texts) + 1)
  /\ result = "found" => k <= Len(Texts)
  /\ identity \in [Name -> Word \cup {Unset}]

\* The pair is the last of its name.
LastOfName(text, j) == \A n \in (j + 1)..Len(text) : text[n].name # text[j].name

\* The values of a field that every library keeps as they are.
Plain(name) == IF name = "ipfs" THEN {"true", "false"} ELSE {"A", "B"}

\* What every library takes for an identity record.
WellFormed(text) ==
  /\ text[1].name = "id" /\ ~text[1].padded /\ ~text[1].lead
  /\ \A j \in DOMAIN text : text[j].val \in Plain(text[j].name)
  /\ \E j \in DOMAIN text : text[j].name = "key"

\* The text names no field of an identity, as an SPF or a did:dns text.
Foreign(text) == \A j \in DOMAIN text : text[j].name \notin Name

\* The identity is one record's: no field of it is left over from a text that
\* was tried before, and no field is missed that the record has.
OneRecords ==
  result = "found" =>
    \A n \in Name :
      LET vals == {pair.val : pair \in {pair \in Range(Texts[k]) : pair.name = n}} IN
        /\ identity[n] = Unset => vals \cap Plain(n) = {}
        /\ identity[n] \in Plain(n) => identity[n] \in vals

\* No library passes over a well-formed identity record that it is shown, for a
\* later one or for none: whatever stands before it in the reply, it is the
\* answer or what stands before it is.
NonePassedOver ==
  \A j \in 1..(k - 1) : ~WellFormed(Texts[j])

\* Where the texts of the reply are well-formed identity records and foreign
\* texts, of one character-string each, every library that is shown them
\* resolves the same: the first identity record, by the last pair of each name.
\* The one that is shown none, JavaScript, resolves to none.
AllReadAlike ==
  LET texts == [r \in DOMAIN records |-> records[r][1]]
      first == SelectInSeq(texts, WellFormed)
  IN
  /\ result # "trying"
  /\ \A r \in DOMAIN records :
       Len(records[r]) = 1 /\ (WellFormed(texts[r]) \/ Foreign(texts[r]))
  => IF first = 0 \/ Does.texts = "none" THEN result = "none"
     ELSE /\ result = "found"
          /\ \A j \in DOMAIN texts[first] :
               LET pair == texts[first][j] IN
               pair.name \in Name /\ LastOfName(texts[first], j) =>
                 IF pair.name = "ipfs" THEN identity["ipfs"] \in Does.on <=> pair.val = "true"
                 ELSE identity[pair.name] = pair.val

====
