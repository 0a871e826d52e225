---- MODULE DidDns ----
(***************************************************************************)
(* did:dns identities as the fourteen libraries under 02_Libraries read    *)
(* them: a domain's TXT records are classified into a declaration, a       *)
(* public key and a blacklist, an identity is assembled from the first of  *)
(* each, and the holder asks it again and again whether it is valid.       *)
(*                                                                         *)
(* All libraries follow one scheme, stated here along the Go library.      *)
(* They differ in how they convert its fields; a library's Profile says    *)
(* how (module DidDnsLibraries).                                           *)
(*                                                                         *)
(* A fingerprint is identified with the key bytes it is the truncated hash *)
(* of: no two keys of the model share one.                                 *)
(***************************************************************************)
EXTENDS Integers, Sequences

CONSTANTS
  Library,
  Profile,        \* library -> how it converts
  Answers,        \* the TXT record sets a domain may publish
  Key,            \* public key bytes
  NoBytes,        \* the empty byte string
  Room,           \* whole fingerprints a fixed blacklist buffer holds
  Max32, Max64,   \* the largest numbers of signed 32-bit and 64-bit integers
  EndTime,        \* bound: the clock stops there
  NoDigits,       \* a text that does not begin with a number
  NoField,        \* the record has no such field
  NoExpiry,       \* expiresAt = null
  Throws,         \* the conversion throws an exception
  Null,           \* no identity
  Unresolved      \* not parsed yet

(***************************************************************************)
(* Texts and records.  A number text is the decimal number it begins with, *)
(* the one that its first fifteen characters begin with, and whether more  *)
(* follows; fields are texts, never converted values.                      *)
(***************************************************************************)
Digits == Int \cup {NoDigits}
NumText == [lead : Digits, first : Digits, tail : BOOLEAN]
Blank == [lead |-> NoDigits, first |-> NoDigits, tail |-> FALSE]

Fp == [of : Key, extra : BOOLEAN]        \* extra: characters after the 16
KeyText == [bytes : Key, form : {"clean", "padded", "noisy"}]
Token == [of : Key, led : BOOLEAN]       \* led: a blank precedes it

Declaration ==
  [type : {"decl"}, led : BOOLEAN, v : NumText, fp : Fp \cup {NoField},
   iat : NumText \cup {NoField}, exp : NumText \cup {NoField}]
PublicKey ==
  [type : {"pk"}, kty : {"ed25519", "other", ""} \cup {NoField}, key : KeyText]
Blacklist == [type : {"black"}, fps : Seq(Token)]
Record == Declaration \cup PublicKey \cup Blacklist

(***************************************************************************)
(* Profiles.  A reader takes the number a text begins with (prefix) or     *)
(* only a text that is a number as a whole; it knows a minus sign or not;  *)
(* blank and junk are what it makes of the other texts, absent what the    *)
(* library assumes where there is no field.                                *)
(*                                                                         *)
(* It keeps the first fifteen characters of a text only (cut) or all.  A   *)
(* number that its conversion does not take is junk, or the nearest it     *)
(* takes (capped); one that its variable does not hold wraps around.       *)
(***************************************************************************)
Number == Int \cup {NoExpiry, Throws}
Width == {"any", "int32", "uint32", "int64", "stoul"}
Reader ==
  [prefix : BOOLEAN, signed : BOOLEAN, blank : Number, junk : Number, absent : Number,
   cut : BOOLEAN, takes : Width, capped : BOOLEAN, holds : Width]
Decoding == SUBSET {"bytes", "error", "throws"}

ProfileType ==
  [version : Reader, time : Reader,
   keepsLead : BOOLEAN,     \* blanks before a record move its fields
   blankKty : BOOLEAN,      \* an empty kty is the default one
   padded : Decoding, noisy : Decoding,
   hashesEmpty : BOOLEAN,   \* the fingerprint of no bytes counts
   trimsTokens : BOOLEAN,
   fixedBuffers : BOOLEAN]  \* fingerprints and blacklists are cut off

IdentityType ==
  [version : Int, fingerprint : Fp \cup {NoField}, issuedAt : {NoExpiry} \cup Int,
   expiresAt : {NoExpiry} \cup Int, keyType : {"ed25519", "other", ""},
   publicKey : KeyText, blacklist : SUBSET Key]

ASSUME MarkerAssumption ==
  /\ NoDigits \notin Int /\ NoExpiry \notin Int /\ Throws \notin Int
  /\ NoExpiry # Throws
  /\ {Null, Throws, Unresolved} \cap IdentityType = {}
  /\ Null # Unresolved /\ Throws # Unresolved
  /\ NoField \notin NumText \cup Fp \cup {"ed25519", "other", ""}
ASSUME SizeAssumption ==
  /\ Room \in Nat /\ EndTime \in Nat
  /\ Max32 \in Nat /\ Max64 \in Nat /\ 0 < Max32 /\ Max32 < Max64 /\ EndTime < Max64
ASSUME KeyAssumption == NoBytes \in Key
ASSUME AnswersAssumption == Answers \subseteq Seq(Record)
ASSUME ProfileAssumption ==
  /\ Profile \in [Library -> ProfileType]
  /\ \A l \in Library : Profile[l].version.absent = 1
  /\ \A l \in Library : Profile[l].version.blank # NoExpiry /\ Profile[l].version.junk # NoExpiry
  /\ \A l \in Library : /\ Profile[l].time.absent \in {0, NoExpiry}
                        /\ {Profile[l].time.blank, Profile[l].time.junk}
                             \subseteq {Profile[l].time.absent, Throws}
                        /\ {Profile[l].time.takes, Profile[l].time.holds} \subseteq {"any", "int64"}

VARIABLES
  lib,     \* the library at work
  answer,  \* the TXT records of the domain, in the order they arrived
  held,    \* Unresolved, then Null, Throws or the identity
  now      \* seconds

vars == <<lib, answer, held, now>>
----
(***************************************************************************)
(* parseDidDnsIdentity.                                                    *)
(***************************************************************************)
Of(type, records) == {i \in DOMAIN records : records[i].type = type}

\* Faulty variant: what precedes the declaration is not looked at.
First_AfterDeclaration(type, records) ==
  {i \in Of(type, records) :
     /\ \A j \in Of(type, records) : i <= j
     /\ \E j \in 1..i : records[j].type = "decl"}

\* Where the record of a type is that counts, if there is one.
First(type, records) == {i \in Of(type, records) : \A j \in Of(type, records) : i <= j}

Raw(type, records) == records[CHOOSE i \in First(type, records) : TRUE]

\* The numbers a conversion takes or a variable holds.  stoul takes a minus sign
\* before what an unsigned long holds.
Values(width) ==
  CASE width = "int32"  -> -(Max32 + 1)..Max32
    [] width = "uint32" -> 0..(2 * Max32 + 1)
    [] width = "int64"  -> -(Max64 + 1)..Max64
    [] width = "stoul"  -> -(2 * Max64 + 1)..(2 * Max64 + 1)
    [] width = "any"    -> Int

Wrapped(width, n) ==
  CASE width = "uint32" -> n % (2 * (Max32 + 1))
    [] width = "int64"  -> ((n + Max64 + 1) % (2 * (Max64 + 1))) - (Max64 + 1)
    [] OTHER            -> n

\* The number a reader finds in a text.
Found(reader, text) == IF reader.cut THEN text.first ELSE text.lead

Readable(reader, text) ==
  /\ Found(reader, text) # NoDigits
  /\ reader.prefix \/ ~text.tail
  /\ reader.signed \/ Found(reader, text) >= 0
  /\ reader.capped \/ Found(reader, text) \in Values(reader.takes)

Capped(n) == IF n > Max64 THEN Max64 ELSE IF n < -(Max64 + 1) THEN -(Max64 + 1) ELSE n

Converted(reader, n) == IF reader.capped THEN Capped(n) ELSE Wrapped(reader.holds, n)

Read(reader, text) ==
  IF text = NoField THEN reader.absent
  ELSE IF Readable(reader, text) THEN Converted(reader, Found(reader, text))
  ELSE IF text = Blank THEN reader.blank ELSE reader.junk

VersionText(p, decl) == IF p.keepsLead /\ decl.led THEN NoField ELSE decl.v

Fingerprint(p, decl) ==
  IF decl.fp # NoField /\ p.fixedBuffers THEN [decl.fp EXCEPT !.extra = FALSE] ELSE decl.fp

KeyType(p, pk) ==
  IF pk.kty = NoField \/ (pk.kty = "" /\ p.blankKty) THEN "ed25519" ELSE pk.kty

\* The fingerprints the blacklist record revokes.  The blanks around the whole
\* list are trimmed everywhere, those around the others in some libraries.
Revoked(p, records) ==
  IF First("black", records) = {} THEN {}
  ELSE LET fps == Raw("black", records).fps IN
       {fps[i].of : i \in {i \in DOMAIN fps :
          /\ p.trimsTokens \/ ~fps[i].led \/ i = 1
          /\ p.fixedBuffers => i <= Room}}

Identity(p, records) ==
  LET decl == Raw("decl", records)
      pk == Raw("pk", records)
  IN [version |-> Read(p.version, VersionText(p, decl)),
      fingerprint |-> Fingerprint(p, decl),
      issuedAt |-> Read(p.time, decl.iat),
      expiresAt |-> Read(p.time, decl.exp),
      keyType |-> KeyType(p, pk),
      publicKey |-> pk.key,
      blacklist |-> Revoked(p, records)]

Parsed(p, records) ==
  IF First("decl", records) = {} \/ First("pk", records) = {} THEN Null
  ELSE LET id == Identity(p, records) IN
       IF Throws \in {id.version, id.issuedAt, id.expiresAt} THEN Throws ELSE id
----
(***************************************************************************)
(* isValid.  Where an outcome depends on the bytes of a text that the      *)
(* model does not keep, every outcome is possible.                         *)
(***************************************************************************)
Decodings(p, key) ==
  CASE key.form = "clean" -> {"bytes"}
    [] key.form = "padded" -> p.padded
    [] OTHER -> p.noisy

\* Faulty variant: any fingerprint passes that the key record can be decoded for.
Matches_AnyFingerprint(p, id) ==
  /\ id.fingerprint # NoField
  /\ id.publicKey.bytes # NoBytes \/ p.hashesEmpty

Matches(p, id) ==
  /\ id.fingerprint # NoField
  /\ id.fingerprint = [of |-> id.publicKey.bytes, extra |-> FALSE]
  /\ id.publicKey.bytes # NoBytes \/ p.hashesEmpty

\* The ways FingerprintChainOk ends.
FingerprintChainOk(p, id) ==
  IF id.fingerprint = NoField THEN {"broken"}
  ELSE {IF d = "throws" THEN "throws"
        ELSE IF d = "bytes" /\ Matches(p, id) THEN "ok" ELSE "broken" :
          d \in Decodings(p, id.publicKey)}

IsRevoked(id) == id.fingerprint.of \in id.blacklist

\* Faulty variant: an identity is expired in the second of its expiry only.
IsExpired_Then(p, id, t) == id.expiresAt # p.time.absent /\ t = id.expiresAt

\* Faulty variant: the second of the expiry still counts.
IsExpired_After(p, id, t) == id.expiresAt # p.time.absent /\ t > id.expiresAt

IsExpired(p, id, t) == id.expiresAt # p.time.absent /\ t >= id.expiresAt

\* The ways IsValid ends; the chain is computed only if the two tests before
\* it pass, and only a chain that holds is tested further.
IsValid(p, id, t) ==
  IF id.version # 1 \/ id.keyType # "ed25519" THEN {"invalid"}
  ELSE {IF chain = "throws" THEN "throws"
        ELSE IF chain = "ok" /\ ~IsRevoked(id) /\ ~IsExpired(p, id, t) THEN "valid"
        ELSE "invalid" : chain \in FingerprintChainOk(p, id)}

\* Parsing and asking at once.
Outcome(p, records, t) ==
  LET id == Parsed(p, records) IN
  IF id \in {Null, Throws} THEN {id} ELSE IsValid(p, id, t)
----
Init ==
  /\ lib \in Library
  /\ answer \in Answers
  /\ held = Unresolved
  /\ now = 0

Parse ==
  /\ held = Unresolved
  /\ held' = Parsed(Profile[lib], answer)
  /\ UNCHANGED <<lib, answer, now>>

Tick ==
  /\ now < EndTime
  /\ now' = now + 1
  /\ UNCHANGED <<lib, answer, held>>

Next == Parse \/ Tick

Spec == Init /\ [][Next]_vars
----
(***************************************************************************)
(* Properties.                                                             *)
(***************************************************************************)

TypeOK ==
  /\ lib \in Library
  /\ answer \in Seq(Record)
  /\ held \in {Unresolved, Null, Throws} \/ held \in IdentityType
  /\ now \in 0..EndTime

Assembled == held \notin {Unresolved, Null, Throws}
MayBeValid == Assembled /\ "valid" \in IsValid(Profile[lib], held, now)

\* A number alone, of fifteen characters at most.
IsPlain(text) ==
  text # NoField /\ text.lead # NoDigits /\ text.first = text.lead /\ ~text.tail
OnePerType(records) ==
  \A i, j \in DOMAIN records : records[i].type = records[j].type => i = j

\* "fail-closed": whichever library says "valid", the answer holds a
\* declaration and an ed25519 key record with the declared fingerprint, a
\* plainly written expiry is still ahead, and a blacklist that stands alone
\* and fits the buffer does not plainly name the fingerprint.
FailClosed ==
  MayBeValid =>
    \E d \in Of("decl", answer), k \in Of("pk", answer) :
      LET decl == answer[d] IN
      /\ decl.fp # NoField /\ decl.fp.of = answer[k].key.bytes
      /\ answer[k].kty # "other"
      /\ IsPlain(decl.exp) /\ decl.exp.lead > 0 => now < decl.exp.lead
      /\ \A b \in Of("black", answer) : OnePerType(answer) =>
           \A i \in DOMAIN answer[b].fps :
             i <= Room /\ ~answer[b].fps[i].led => answer[b].fps[i].of # decl.fp.of

\* A record set as the standard has it: one record of a type, its numbers
\* written as numbers, its key and fingerprints as Base64URL without padding.
\* Its version fits a signed 32-bit integer, its times the clocks: the integers
\* of all libraries hold them. The standard bounds neither.
WellFormed(records) ==
  /\ OnePerType(records) /\ Of("decl", records) # {} /\ Of("pk", records) # {}
  /\ \A i \in Of("decl", records) : LET d == records[i] IN
       /\ ~d.led /\ IsPlain(d.v) /\ d.v.lead \in 0..Max32
       /\ d.fp # NoField /\ ~d.fp.extra
       /\ \A text \in {d.iat, d.exp} : text = NoField \/ (IsPlain(text) /\ text.lead \in 1..Max64)
  /\ \A i \in Of("pk", records) :
       /\ records[i].kty # ""
       /\ records[i].key.form = "clean" /\ records[i].key.bytes # NoBytes
  /\ \A i \in Of("black", records) : LET fps == records[i].fps IN
       Len(fps) <= Room /\ \A j \in DOMAIN fps : ~fps[j].led

\* What the standard says of such a record set at time t, but for the freshness
\* of iat, which no library's IsValid tests; a missing exp or kty, which it
\* requires, restricts nothing.
Conforms(records, t) ==
  \E d \in Of("decl", records), k \in Of("pk", records) :
    LET decl == records[d] IN
    /\ decl.v.lead = 1
    /\ records[k].kty \in {"ed25519", NoField}
    /\ decl.fp.of = records[k].key.bytes
    /\ \A b \in Of("black", records) : \A i \in DOMAIN records[b].fps :
         records[b].fps[i].of # decl.fp.of
    /\ decl.exp = NoField \/ t < decl.exp.lead

\* On well-formed record sets every library, whatever its conversions, gives
\* the standard's verdict, and so all of them give the same. Past the widths of
\* their integers they do not: v=4294967297 is version 1 to six of them.
ConformsOnWellFormed ==
  held # Unresolved /\ WellFormed(answer) =>
    /\ Assembled
    /\ IsValid(Profile[lib], held, now) =
         IF Conforms(answer, now) THEN {"valid"} ELSE {"invalid"}

\* "Records MAY appear in any order": with one record of a type the identity
\* does not depend on it.
OrderIndependent ==
  held # Unresolved /\ OnePerType(answer) =>
    \A order \in [DOMAIN answer -> DOMAIN answer] :
      (\A i, j \in DOMAIN answer : order[i] = order[j] => i = j) =>
        held = Parsed(Profile[lib], [i \in DOMAIN answer |-> answer[order[i]]])

\* An identity that has become invalid in the holder's hands stays so.
InvalidIsFinal == [][held # Unresolved /\ MayBeValid' => MayBeValid]_vars

\* "15 languages exposing one consistent resolution model": any two libraries
\* judge the same records alike.
Agree ==
  \A l1, l2 \in Library :
    Outcome(Profile[l1], answer, now) = Outcome(Profile[l2], answer, now)
====
