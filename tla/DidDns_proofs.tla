---- MODULE DidDns_proofs ----
(***************************************************************************)
(* Proofs about did:dns identities, for every set of libraries whose       *)
(* conversions are profiles, and every set of answers.                     *)
(***************************************************************************)
EXTENDS DidDns, FiniteSetTheorems, TLAPS

\* What is held is what the parser makes of the answer.
HeldIsParsed == held # Unresolved => held = Parsed(Profile[lib], answer)
IInv == TypeOK /\ HeldIsParsed

\* The record that counts is one of the answer, of the type asked for.
LEMMA RawIsRecord ==
  ASSUME NEW records \in Seq(Record), NEW type, First(type, records) # {}
  PROVE  /\ (CHOOSE i \in First(type, records) : TRUE) \in Of(type, records)
         /\ \E i \in DOMAIN records :
              Raw(type, records) = records[i] /\ records[i].type = type /\ records[i] \in Record
<1> DEFINE c == CHOOSE i \in First(type, records) : TRUE
<1>1. c \in First(type, records)
  OBVIOUS
<1>2. c \in DOMAIN records /\ records[c].type = type
  BY <1>1 DEF First, Of
<1>3. records[c] \in Record
  BY <1>2
<1> QED
  BY <1>1, <1>2, <1>3 DEF Raw, First

LEMMA RawTypes ==
  ASSUME NEW records \in Seq(Record)
  PROVE  /\ First("decl", records) # {} => Raw("decl", records) \in Declaration
         /\ First("pk", records) # {} => Raw("pk", records) \in PublicKey
         /\ First("black", records) # {} => Raw("black", records) \in Blacklist
<1>1. \A r \in Record : /\ r.type = "decl" => r \in Declaration
                        /\ r.type = "pk" => r \in PublicKey
                        /\ r.type = "black" => r \in Blacklist
  BY DEF Record, Declaration, PublicKey, Blacklist
<1> QED
  BY <1>1, RawIsRecord

\* A profile of the assumption, with the parts the proofs use.
LEMMA ProfileFacts ==
  ASSUME NEW l \in Library
  PROVE  /\ Profile[l] \in ProfileType
         /\ Profile[l].version \in Reader /\ Profile[l].time \in Reader
         /\ Profile[l].version.absent = 1
         /\ Profile[l].version.blank # NoExpiry /\ Profile[l].version.junk # NoExpiry
         /\ Profile[l].time.absent \in {0, NoExpiry}
         /\ {Profile[l].time.blank, Profile[l].time.junk} \subseteq {Profile[l].time.absent, Throws}
         /\ {Profile[l].time.takes, Profile[l].time.holds} \subseteq {"any", "int64"}
  BY ProfileAssumption DEF ProfileType

\* What a remainder is, and of which numbers it is the number itself.
LEMMA Remainder ==
  ASSUME NEW n \in Int, NEW m \in Nat, m > 0
  PROVE  /\ n % m \in Int
         /\ 0 <= n /\ n < m => n % m = n
  OBVIOUS

LEMMA WrappedType ==
  ASSUME NEW width, NEW n \in Int
  PROVE  Wrapped(width, n) \in Int
<1>1. Max32 \in Nat /\ Max64 \in Nat
  BY SizeAssumption
<1>2. n % (2 * (Max32 + 1)) \in Int /\ (n + Max64 + 1) % (2 * (Max64 + 1)) \in Int
  BY <1>1, Remainder
<1> QED
  BY <1>1, <1>2 DEF Wrapped

\* The numbers that every width holds stay what they are.
LEMMA WrappedSmall ==
  ASSUME NEW width, NEW n \in 0..Max64, width \in {"any", "int64"} \/ n <= Max32
  PROVE  Wrapped(width, n) = n
<1>1. Max32 \in Nat /\ Max64 \in Nat /\ n \in Int /\ 0 <= n /\ n <= Max64
  BY SizeAssumption
<1>2. CASE width = "uint32"
  BY <1>1, <1>2, Remainder DEF Wrapped
<1>3. CASE width = "int64"
  <2>1. (n + Max64 + 1) % (2 * (Max64 + 1)) = n + Max64 + 1
    BY <1>1, Remainder
  <2> QED
    BY <1>1, <1>3, <2>1 DEF Wrapped
<1>4. CASE width \notin {"uint32", "int64"}
  BY <1>4 DEF Wrapped
<1> QED
  BY <1>2, <1>3, <1>4

\* A reader yields a number, or what it makes of other texts.
LEMMA ReadType ==
  ASSUME NEW reader \in Reader, NEW text \in NumText \cup {NoField}
  PROVE  Read(reader, text) \in Int \cup {reader.absent, reader.blank, reader.junk}
<1>1. CASE text = NoField \/ ~Readable(reader, text)
  BY <1>1 DEF Read
<1>2. CASE text # NoField /\ Readable(reader, text)
  <2>1. PICK n \in Int : n = Found(reader, text)
    BY <1>2 DEF Found, Readable, NumText, Digits
  <2>2. Read(reader, text) = Converted(reader, n)
    BY <1>2, <2>1 DEF Read
  <2>3. Capped(n) \in Int
    BY SizeAssumption DEF Capped
  <2> QED
    BY <2>2, <2>3, WrappedType DEF Converted
<1> QED
  BY <1>1, <1>2

LEMMA RevokedType ==
  ASSUME NEW p, NEW records \in Seq(Record)
  PROVE  Revoked(p, records) \in SUBSET Key
<1>1. CASE First("black", records) = {}
  BY <1>1 DEF Revoked
<1>2. CASE First("black", records) # {}
  <2> DEFINE fps == Raw("black", records).fps
  <2>1. fps \in Seq(Token)
    BY <1>2, RawTypes DEF Blacklist
  <2>2. \A i \in DOMAIN fps : fps[i].of \in Key
    <3> HIDE DEF fps
    <3>1. \A i \in DOMAIN fps : fps[i] \in Token
      BY <2>1
    <3> QED
      BY <3>1 DEF Token
  <2> QED
    BY <1>2, <2>2 DEF Revoked
<1> QED
  BY <1>1, <1>2

LEMMA IdentityHasType ==
  ASSUME NEW l \in Library, NEW records \in Seq(Record),
         First("decl", records) # {}, First("pk", records) # {},
         LET id == Identity(Profile[l], records)
         IN Throws \notin {id.version, id.issuedAt, id.expiresAt}
  PROVE  Identity(Profile[l], records) \in IdentityType
<1> DEFINE p == Profile[l]
           id == Identity(p, records)
           decl == Raw("decl", records)
           pk == Raw("pk", records)
<1> USE ProfileFacts
<1>1. decl \in Declaration /\ pk \in PublicKey
  BY RawTypes
<1>2. /\ decl.v \in NumText /\ decl.iat \in NumText \cup {NoField}
      /\ decl.exp \in NumText \cup {NoField} /\ decl.fp \in Fp \cup {NoField}
      /\ pk.key \in KeyText
  BY <1>1 DEF Declaration, PublicKey
<1> HIDE DEF decl, pk
<1>3. id.version \in Int
  <2>1. VersionText(p, decl) \in NumText \cup {NoField}
    BY <1>2 DEF VersionText
  <2>2. id.version = Read(p.version, VersionText(p, decl))
    BY DEF Identity, decl
  <2>3. {p.version.absent, p.version.blank, p.version.junk} \subseteq Int \cup {Throws}
    BY DEF Reader, Number
  <2> QED
    BY <2>1, <2>2, <2>3, ReadType
<1>4. id.issuedAt \in {NoExpiry} \cup Int /\ id.expiresAt \in {NoExpiry} \cup Int
  <2>1. id.issuedAt = Read(p.time, decl.iat) /\ id.expiresAt = Read(p.time, decl.exp)
    BY DEF Identity, decl
  <2>2. {p.time.absent, p.time.blank, p.time.junk} \subseteq Int \cup {NoExpiry, Throws}
    BY DEF Reader, Number
  <2> QED
    BY <1>2, <2>1, <2>2, ReadType
<1>5. id.fingerprint \in Fp \cup {NoField}
  <2>1. id.fingerprint = Fingerprint(p, decl)
    BY DEF Identity, decl
  <2> QED
    BY <1>2, <2>1 DEF Fingerprint, Fp
<1>6. id.keyType \in {"ed25519", "other", ""} /\ id.publicKey \in KeyText
  <2>1. id.keyType = KeyType(p, pk) /\ id.publicKey = pk.key
    BY DEF Identity, pk
  <2>2. pk.kty \in {"ed25519", "other", ""} \cup {NoField}
    BY <1>1 DEF PublicKey
  <2> QED
    BY <1>2, <2>1, <2>2 DEF KeyType
<1>7. id.blacklist \in SUBSET Key
  BY RevokedType DEF Identity
<1> QED
  BY <1>3, <1>4, <1>5, <1>6, <1>7 DEF Identity, IdentityType

LEMMA ParsedType ==
  ASSUME NEW l \in Library, NEW records \in Seq(Record)
  PROVE  Parsed(Profile[l], records) \in {Null, Throws} \cup IdentityType
  BY IdentityHasType DEF Parsed

THEOREM Inductive == Spec => []IInv
<1>1. Init => IInv
  BY AnswersAssumption, SizeAssumption DEF Init, IInv, TypeOK, HeldIsParsed
<1>2. IInv /\ [Next]_vars => IInv'
  <2> SUFFICES ASSUME IInv, [Next]_vars PROVE IInv'
    OBVIOUS
  <2>1. CASE Parse
    <3>1. Parsed(Profile[lib], answer) \in {Null, Throws} \cup IdentityType
      BY ParsedType DEF IInv, TypeOK
    <3> QED
      BY <2>1, <3>1 DEF IInv, TypeOK, HeldIsParsed, Parse
  <2>2. CASE Tick
    BY <2>2, SizeAssumption DEF IInv, TypeOK, HeldIsParsed, Tick
  <2>3. CASE UNCHANGED vars
    BY <2>3 DEF IInv, TypeOK, HeldIsParsed, vars
  <2> QED
    BY <2>1, <2>2, <2>3 DEF Next
<1> QED
  BY <1>1, <1>2, PTL DEF Spec

\* What is held has its type, for all profiles and answers.
THEOREM TypeCorrect == Spec => []TypeOK
  BY Inductive, PTL DEF IInv
----
(***************************************************************************)
(* What a verdict means.                                                   *)
(***************************************************************************)
LEMMA ValidMeans ==
  ASSUME NEW p, NEW id, NEW t
  PROVE  "valid" \in IsValid(p, id, t) <=>
           /\ id.version = 1 /\ id.keyType = "ed25519"
           /\ Matches(p, id) /\ "bytes" \in Decodings(p, id.publicKey)
           /\ ~IsRevoked(id) /\ ~IsExpired(p, id, t)
<1>1. "ok" \in FingerprintChainOk(p, id) <=>
        Matches(p, id) /\ "bytes" \in Decodings(p, id.publicKey)
  BY DEF FingerprintChainOk, Matches
<1> QED
  BY <1>1 DEF IsValid

\* An identity that is held was assembled from the records that count.
LEMMA HeldIdentity ==
  ASSUME IInv, Assembled
  PROVE  /\ lib \in Library /\ answer \in Seq(Record) /\ held \in IdentityType
         /\ held = Identity(Profile[lib], answer)
         /\ First("decl", answer) # {} /\ First("pk", answer) # {}
  BY DEF IInv, TypeOK, HeldIsParsed, Assembled, Parsed

\* A number that is plainly written is read as it is, where no integer of the
\* reader is too narrow for it.
LEMMA ReadPlain ==
  ASSUME NEW reader \in Reader, NEW text \in NumText, IsPlain(text), text.lead \in 0..Max64,
         {reader.takes, reader.holds} \subseteq {"any", "int64"} \/ text.lead <= Max32
  PROVE  Read(reader, text) = text.lead
<1> DEFINE n == text.lead
<1>1. Max32 \in Nat /\ Max64 \in Nat /\ Max32 < Max64
  BY SizeAssumption
<1>2. n \in Int /\ 0 <= n /\ n <= Max64 /\ n # NoDigits
  <2>1. n \in 0..Max64 /\ n # NoDigits
    BY DEF IsPlain
  <2> HIDE DEF n
  <2> QED
    BY <1>1, <2>1
<1>3. Found(reader, text) = n /\ ~text.tail /\ text # NoField
  BY DEF Found, IsPlain
<1>4. {reader.takes, reader.holds} \subseteq {"any", "int64"} \/ n <= Max32
  OBVIOUS
<1>5. reader.takes \in Width
  BY DEF Reader
<1> HIDE DEF n
<1>6. n \in Values(reader.takes)
  BY <1>1, <1>2, <1>4, <1>5 DEF Values, Width
<1>7. Readable(reader, text)
  BY <1>2, <1>3, <1>6 DEF Readable
<1>8. Read(reader, text) = Converted(reader, n)
  BY <1>3, <1>7 DEF Read
<1>9. Capped(n) = n
  BY <1>1, <1>2 DEF Capped
<1>10. Wrapped(reader.holds, n) = n
  BY <1>1, <1>2, <1>4, WrappedSmall
<1> QED
  BY <1>8, <1>9, <1>10 DEF Converted, n

\* The fields of an identity, one by one.
LEMMA IdentityFields ==
  ASSUME NEW p, NEW records
  PROVE  LET id == Identity(p, records)
             decl == Raw("decl", records)
             pk == Raw("pk", records)
         IN /\ id.version = Read(p.version, VersionText(p, decl))
            /\ id.fingerprint = Fingerprint(p, decl)
            /\ id.expiresAt = Read(p.time, decl.exp)
            /\ id.issuedAt = Read(p.time, decl.iat)
            /\ id.keyType = KeyType(p, pk)
            /\ id.publicKey = pk.key
            /\ id.blacklist = Revoked(p, records)
  BY DEF Identity

\* The expiry of an identity is a number or the library's "none".
LEMMA ExpiryType ==
  ASSUME IInv, Assembled
  PROVE  held.expiresAt \in Int \cup {Profile[lib].time.absent}
<1> DEFINE p == Profile[lib]
           exp == Raw("decl", answer).exp
<1>1. exp \in NumText \cup {NoField}
  BY HeldIdentity, RawTypes DEF Declaration
<1>2. held.expiresAt = Read(p.time, exp)
  BY HeldIdentity, IdentityFields
<1>3. p.time \in Reader /\ {p.time.blank, p.time.junk} \subseteq {p.time.absent, Throws}
  BY HeldIdentity, ProfileFacts
<1>4. held.expiresAt # Throws
  BY HeldIdentity, MarkerAssumption DEF IdentityType
<1> HIDE DEF p, exp
<1>5. held.expiresAt \in Int \cup {p.time.absent, p.time.blank, p.time.junk}
  BY <1>1, <1>2, <1>3, ReadType
<1>6. held.expiresAt \in Int \cup {p.time.absent}
  BY <1>3, <1>4, <1>5
<1> QED
  BY <1>6 DEF p

\* A token that is plainly written and fits the buffer revokes.
LEMMA RevokedByToken ==
  ASSUME NEW p, NEW records \in Seq(Record), OnePerType(records),
         NEW b \in Of("black", records), NEW i \in DOMAIN records[b].fps,
         i <= Room, ~records[b].fps[i].led
  PROVE  records[b].fps[i].of \in Revoked(p, records)
<1>1. First("black", records) = {b}
  BY DEF OnePerType, First, Of
<1>2. Raw("black", records) = records[b]
  BY <1>1 DEF Raw
<1> QED
  BY <1>1, <1>2 DEF Revoked

\* Fail-closed, for every library whose conversions are a profile: a verdict
\* "valid" is backed by the records, at the time it is given.
THEOREM FailClosedHolds == Spec => []FailClosed
<1>1. IInv => FailClosed
  <2> SUFFICES ASSUME IInv, MayBeValid PROVE FailClosed
    BY DEF FailClosed
  <2> DEFINE p == Profile[lib]
             decl == Raw("decl", answer)
             pk == Raw("pk", answer)
  <2>1. /\ lib \in Library /\ answer \in Seq(Record) /\ held \in IdentityType
        /\ held = Identity(p, answer)
        /\ First("decl", answer) # {} /\ First("pk", answer) # {}
    BY HeldIdentity DEF MayBeValid
  <2>2. PICK d \in Of("decl", answer) : decl = answer[d]
    BY <2>1, RawIsRecord DEF Of
  <2>3. PICK k \in Of("pk", answer) : pk = answer[k]
    BY <2>1, RawIsRecord DEF Of
  <2>4. decl \in Declaration /\ pk \in PublicKey
    BY <2>1, RawTypes
  <2>5. /\ held.keyType = "ed25519" /\ Matches(p, held)
        /\ ~IsRevoked(held) /\ ~IsExpired(p, held, now)
    BY ValidMeans DEF MayBeValid
  <2>6. decl.fp # NoField /\ decl.fp.of = pk.key.bytes /\ held.fingerprint.of = decl.fp.of
    <3>1. held.fingerprint = Fingerprint(p, decl) /\ held.publicKey = pk.key
      BY <2>1, IdentityFields
    <3>2. decl.fp \in Fp \cup {NoField}
      BY <2>4 DEF Declaration
    <3> HIDE DEF decl, pk, p
    <3> QED
      BY <2>5, <3>1, <3>2 DEF Matches, Fingerprint, Fp
  <2>7. pk.kty # "other"
    <3>1. held.keyType = KeyType(p, pk)
      BY <2>1, IdentityFields
    <3> HIDE DEF decl, pk, p
    <3> QED
      BY <2>5, <3>1, MarkerAssumption DEF KeyType
  <2>8. IsPlain(decl.exp) /\ decl.exp.lead > 0 => now < decl.exp.lead
    <3> SUFFICES ASSUME IsPlain(decl.exp), decl.exp.lead > 0 PROVE now < decl.exp.lead
      OBVIOUS
    <3>1. decl.exp \in NumText /\ decl.exp.lead \in Int
      BY <2>4, MarkerAssumption DEF Declaration, IsPlain, NumText, Digits
    <3>4. now \in Int /\ now < Max64 /\ Max64 \in Int
      BY SizeAssumption DEF IInv, TypeOK
    <3>6. SUFFICES ASSUME decl.exp.lead <= Max64 PROVE now < decl.exp.lead
      <4> HIDE DEF decl
      <4> QED
        BY <3>1, <3>4
    <3>2. held.expiresAt = decl.exp.lead
      <4>1. held.expiresAt = Read(p.time, decl.exp) /\ p.time \in Reader
            /\ {p.time.takes, p.time.holds} \subseteq {"any", "int64"}
        BY <2>1, IdentityFields, ProfileFacts
      <4>2. decl.exp.lead \in 0..Max64
        BY <3>1, <3>4, <3>6
      <4> HIDE DEF decl, p
      <4> QED
        BY <3>1, <4>1, <4>2, ReadPlain
    <3>3. p.time.absent \in {0, NoExpiry}
      BY <2>1, ProfileFacts
    <3> HIDE DEF decl, p
    <3>5. held.expiresAt # p.time.absent
      <4>1. decl.exp.lead # 0
        BY <3>1
      <4>2. decl.exp.lead # NoExpiry
        <5>1. NoExpiry \notin Int
          BY MarkerAssumption
        <5> QED
          BY <3>1, <5>1
      <4> QED
        BY <3>2, <3>3, <4>1, <4>2
    <3> QED
      BY <2>5, <3>1, <3>2, <3>4, <3>5 DEF IsExpired
  <2>9. \A b \in Of("black", answer) : OnePerType(answer) =>
          \A i \in DOMAIN answer[b].fps :
            i <= Room /\ ~answer[b].fps[i].led => answer[b].fps[i].of # decl.fp.of
    <3>1. held.blacklist = Revoked(p, answer)
      BY <2>1, IdentityFields
    <3> HIDE DEF decl, p
    <3> QED
      BY <2>1, <2>5, <2>6, <3>1, RevokedByToken DEF IsRevoked
  <2> HIDE DEF decl, pk, p
  <2> QED
    BY <2>2, <2>3, <2>6, <2>7, <2>8, <2>9 DEF FailClosed
<1> QED
  BY <1>1, Inductive, PTL

\* An identity does not become valid again, for any profile and answer.
THEOREM InvalidIsFinalHolds == Spec => InvalidIsFinal
<1>1. IInv /\ IInv' /\ [Next]_vars => [held # Unresolved /\ MayBeValid' => MayBeValid]_vars
  <2> SUFFICES ASSUME IInv, IInv', Next, held # Unresolved, MayBeValid' PROVE MayBeValid
    OBVIOUS
  <2>1. Tick
    BY DEF Next, Parse
  <2>2. held' = held /\ lib' = lib /\ now' = now + 1 /\ now \in Int
    BY <2>1, SizeAssumption DEF Tick, IInv, TypeOK
  <2>3. Assembled /\ held \in IdentityType /\ lib \in Library
    BY <2>2, HeldIdentity DEF MayBeValid, Assembled
  <2>4. ~IsExpired(Profile[lib], held, now + 1)
    BY <2>2, ValidMeans DEF MayBeValid
  <2>5. ~IsExpired(Profile[lib], held, now)
    <3>1. held.expiresAt \in Int \cup {Profile[lib].time.absent}
      BY <2>3, ExpiryType
    <3> QED
      BY <2>2, <2>4, <3>1 DEF IsExpired
  <2> QED
    BY <2>2, <2>3, <2>5, ValidMeans DEF MayBeValid
<1> QED
  BY <1>1, Inductive, PTL DEF Spec, InvalidIsFinal
----
(***************************************************************************)
(* Well-formed record sets.                                                *)
(***************************************************************************)
\* With one record of a type, that is the one that counts.
LEMMA OnlyRecord ==
  ASSUME NEW records \in Seq(Record), OnePerType(records), NEW type, NEW i \in Of(type, records)
  PROVE  First(type, records) = {i} /\ Raw(type, records) = records[i]
<1>1. i \in Nat
  BY DEF Of
<1>2. \A j \in Of(type, records) : j = i
  BY DEF OnePerType, Of
<1>3. First(type, records) = {i}
  <2>1. Of(type, records) = {i}
    BY <1>2
  <2>2. i <= i
    BY <1>1
  <2> QED
    BY <2>1, <2>2, Zenon DEF First
<1> QED
  BY <1>3 DEF Raw

\* The records of a well-formed set, and what each library reads in them.
LEMMA WellFormedReads ==
  ASSUME NEW l \in Library, NEW records \in Seq(Record), WellFormed(records)
  PROVE  LET p == Profile[l]
             decl == Raw("decl", records)
             pk == Raw("pk", records)
             id == Identity(p, records)
         IN /\ Of("decl", records) # {} /\ Of("pk", records) # {}
            /\ \A i \in Of("decl", records) : records[i] = decl
            /\ \A i \in Of("pk", records) : records[i] = pk
            /\ Parsed(p, records) = id /\ id \in IdentityType
            /\ id.version = decl.v.lead
            /\ id.fingerprint = decl.fp /\ decl.fp \in Fp /\ decl.fp.extra = FALSE
            /\ id.expiresAt = IF decl.exp = NoField THEN p.time.absent ELSE decl.exp.lead
            /\ decl.exp = NoField \/ (decl.exp.lead \in Int /\ decl.exp.lead > 0)
            /\ id.keyType = IF pk.kty = NoField THEN "ed25519" ELSE pk.kty
            /\ id.publicKey = pk.key /\ pk.key.form = "clean"
            /\ pk.key.bytes # NoBytes
<1> DEFINE p == Profile[l]
           decl == Raw("decl", records)
           pk == Raw("pk", records)
           id == Identity(p, records)
<1>1. OnePerType(records) /\ Of("decl", records) # {} /\ Of("pk", records) # {}
  BY DEF WellFormed
<1>2. PICK d \in Of("decl", records) : TRUE
  BY <1>1
<1>3. PICK k \in Of("pk", records) : TRUE
  BY <1>1
<1>4. First("decl", records) = {d} /\ decl = records[d]
  BY <1>1, OnlyRecord
<1>5. First("pk", records) = {k} /\ pk = records[k]
  BY <1>1, OnlyRecord
<1>6. decl \in Declaration /\ pk \in PublicKey
  BY <1>4, <1>5, RawTypes
<1>7. /\ ~decl.led /\ IsPlain(decl.v) /\ decl.v.lead \in 0..Max32
      /\ decl.fp # NoField /\ ~decl.fp.extra
      /\ decl.iat = NoField \/ (IsPlain(decl.iat) /\ decl.iat.lead \in 1..Max64)
      /\ decl.exp = NoField \/ (IsPlain(decl.exp) /\ decl.exp.lead \in 1..Max64)
  BY <1>4 DEF WellFormed
<1>8. pk.kty # "" /\ pk.key.form = "clean" /\ pk.key.bytes # NoBytes
  BY <1>5 DEF WellFormed
<1>9. /\ id.version = Read(p.version, VersionText(p, decl))
      /\ id.fingerprint = Fingerprint(p, decl)
      /\ id.expiresAt = Read(p.time, decl.exp) /\ id.issuedAt = Read(p.time, decl.iat)
      /\ id.keyType = KeyType(p, pk) /\ id.publicKey = pk.key
  BY IdentityFields
<1>10. /\ p.version \in Reader /\ p.time \in Reader
       /\ p.time.absent \in {0, NoExpiry}
       /\ {p.time.takes, p.time.holds} \subseteq {"any", "int64"}
  BY ProfileFacts
<1>11. Parsed(p, records) = IF Throws \in {id.version, id.issuedAt, id.expiresAt}
                            THEN Throws ELSE id
  BY <1>4, <1>5 DEF Parsed
<1>12. /\ decl.v \in NumText
       /\ decl.iat \in NumText \cup {NoField} /\ decl.exp \in NumText \cup {NoField}
       /\ decl.fp \in Fp
  BY <1>6, <1>7 DEF Declaration
<1>13. \A i \in Of("decl", records) : records[i] = decl
  BY <1>1, <1>2, <1>4 DEF OnePerType, Of
<1>14. \A i \in Of("pk", records) : records[i] = pk
  BY <1>1, <1>3, <1>5 DEF OnePerType, Of
<1> HIDE DEF p, decl, pk, id
<1>15. \A text \in NumText : IsPlain(text) => text.lead \in Int
  BY DEF NumText, Digits, IsPlain
<1>16. id.version = decl.v.lead /\ id.version \in Int
  <2>1. id.version = Read(p.version, decl.v)
    BY <1>7, <1>9 DEF VersionText
  <2>2. decl.v.lead \in 0..Max64 /\ decl.v.lead <= Max32
    BY <1>7, SizeAssumption
  <2> QED
    BY <1>7, <1>10, <1>12, <1>15, <2>1, <2>2, ReadPlain
<1>17. \A text \in NumText \cup {NoField} :
         text = NoField \/ (IsPlain(text) /\ text.lead \in 1..Max64) =>
           /\ Read(p.time, text) = IF text = NoField THEN p.time.absent ELSE text.lead
           /\ Read(p.time, text) # Throws
  <2> SUFFICES ASSUME NEW text \in NumText \cup {NoField},
                      text = NoField \/ (IsPlain(text) /\ text.lead \in 1..Max64)
               PROVE  /\ Read(p.time, text) = IF text = NoField THEN p.time.absent ELSE text.lead
                      /\ Read(p.time, text) # Throws
    OBVIOUS
  <2>1. Throws \notin Int
    BY MarkerAssumption
  <2>4. p.time.absent # Throws
    <3>1. Throws # 0
      BY <2>1
    <3>2. Throws # NoExpiry
      BY MarkerAssumption
    <3> QED
      BY <1>10, <3>1, <3>2
  <2>2. CASE text = NoField
    BY <2>2, <2>4 DEF Read
  <2>3. CASE text # NoField
    <3>1. text \in NumText /\ IsPlain(text) /\ text.lead \in 0..Max64 /\ text.lead \in Int
      BY <1>15, <2>3, SizeAssumption
    <3>2. Read(p.time, text) = text.lead
      BY <1>10, <3>1, ReadPlain
    <3> QED
      BY <2>1, <2>3, <3>1, <3>2
  <2> QED
    BY <2>2, <2>3
<1>18. /\ id.expiresAt = IF decl.exp = NoField THEN p.time.absent ELSE decl.exp.lead
       /\ id.expiresAt # Throws /\ id.issuedAt # Throws
  BY <1>7, <1>9, <1>12, <1>17
<1>19. Parsed(p, records) = id
  BY <1>11, <1>16, <1>18, MarkerAssumption
<1>20. id \in IdentityType
  <2>1. First("decl", records) # {} /\ First("pk", records) # {}
    BY <1>4, <1>5
  <2>2. Throws \notin {id.version, id.issuedAt, id.expiresAt}
    BY <1>16, <1>18, MarkerAssumption
  <2> QED
    BY <2>1, <2>2, IdentityHasType DEF id, p
<1>21. id.fingerprint = decl.fp /\ decl.fp.extra = FALSE
  BY <1>7, <1>9, <1>12 DEF Fingerprint, Fp
<1>22. id.keyType = IF pk.kty = NoField THEN "ed25519" ELSE pk.kty
  BY <1>8, <1>9, MarkerAssumption DEF KeyType
<1>23. decl.exp = NoField \/ (decl.exp.lead \in Int /\ decl.exp.lead > 0)
  BY <1>7, SizeAssumption
<1> QED
  BY <1>1, <1>8, <1>9, <1>12, <1>13, <1>14, <1>16, <1>18, <1>19, <1>20, <1>21, <1>22, <1>23
     DEF p, decl, pk, id

\* A blacklist of a well-formed set revokes what it lists.
LEMMA WellFormedRevokes ==
  ASSUME NEW p, NEW records \in Seq(Record), WellFormed(records), NEW fp
  PROVE  fp \in Revoked(p, records) <=>
           \E b \in Of("black", records) : \E i \in DOMAIN records[b].fps :
             records[b].fps[i].of = fp
<1>1. OnePerType(records)
  BY DEF WellFormed
<1>2. CASE Of("black", records) = {}
  BY <1>2 DEF Revoked, First
<1>3. CASE Of("black", records) # {}
  <2>1. PICK b \in Of("black", records) : TRUE
    BY <1>3
  <2>2. First("black", records) = {b} /\ Raw("black", records) = records[b]
    BY <1>1, OnlyRecord
  <2>3. \A c \in Of("black", records) : c = b
    BY <1>1 DEF OnePerType, Of
  <2> DEFINE fps == records[b].fps
  <2>4. Len(fps) <= Room /\ \A j \in DOMAIN fps : ~fps[j].led
    BY DEF WellFormed
  <2>5. fps \in Seq(Token)
    BY <2>2, RawTypes DEF Blacklist
  <2>6. \A j \in DOMAIN fps : j <= Room
    <3> HIDE DEF fps
    <3> QED
      BY <2>4, <2>5, SizeAssumption
  <2>7. Revoked(p, records) = {fps[i].of : i \in DOMAIN fps}
    BY <2>2, <2>4, <2>6 DEF Revoked
  <2> QED
    BY <2>3, <2>7
<1> QED
  BY <1>2, <1>3

\* Every library gives the standard's verdict on well-formed record sets: the
\* conversions in which they differ make no difference there.
THEOREM ConformsOnWellFormedHolds == Spec => []ConformsOnWellFormed
<1>1. IInv => ConformsOnWellFormed
  <2> SUFFICES ASSUME IInv, held # Unresolved, WellFormed(answer)
               PROVE  /\ Assembled
                      /\ IsValid(Profile[lib], held, now) =
                           IF Conforms(answer, now) THEN {"valid"} ELSE {"invalid"}
    BY DEF ConformsOnWellFormed
  <2> DEFINE p == Profile[lib]
             decl == Raw("decl", answer)
             pk == Raw("pk", answer)
  <2>1. lib \in Library /\ answer \in Seq(Record) /\ now \in Int
        /\ held = Parsed(p, answer)
    BY SizeAssumption DEF IInv, TypeOK, HeldIsParsed
  <2>2. /\ Of("decl", answer) # {} /\ Of("pk", answer) # {}
        /\ \A i \in Of("decl", answer) : answer[i] = decl
        /\ \A i \in Of("pk", answer) : answer[i] = pk
        /\ held = Identity(p, answer) /\ held \in IdentityType
        /\ held.version = decl.v.lead
        /\ held.fingerprint = decl.fp /\ decl.fp \in Fp /\ decl.fp.extra = FALSE
        /\ held.expiresAt = IF decl.exp = NoField THEN p.time.absent ELSE decl.exp.lead
        /\ decl.exp = NoField \/ (decl.exp.lead \in Int /\ decl.exp.lead > 0)
        /\ held.keyType = IF pk.kty = NoField THEN "ed25519" ELSE pk.kty
        /\ held.publicKey = pk.key /\ pk.key.form = "clean"
        /\ pk.key.bytes # NoBytes
    BY <2>1, WellFormedReads
  <2>3. Assembled
    BY <2>2, MarkerAssumption DEF Assembled
  <2>4. held.blacklist = Revoked(p, answer)
    BY <2>2, IdentityFields
  <2>5. p.time.absent \in {0, NoExpiry}
    BY <2>1, ProfileFacts
  <2> DEFINE Listed == \E b \in Of("black", answer) : \E i \in DOMAIN answer[b].fps :
                         answer[b].fps[i].of = decl.fp.of
  <2>6. IsRevoked(held) <=> Listed
    BY <2>1, <2>2, <2>4, WellFormedRevokes DEF IsRevoked
  <2>7. Conforms(answer, now) <=>
          /\ decl.v.lead = 1 /\ pk.kty \in {"ed25519", NoField}
          /\ decl.fp.of = pk.key.bytes /\ ~Listed
          /\ decl.exp = NoField \/ now < decl.exp.lead
    BY <2>2 DEF Conforms
  <2> HIDE DEF p, decl, pk, Listed
  <2>8. IsExpired(p, held, now) <=> ~(decl.exp = NoField \/ now < decl.exp.lead)
    <3>1. CASE decl.exp = NoField
      BY <2>2, <3>1 DEF IsExpired
    <3>2. CASE decl.exp # NoField
      <4>1. held.expiresAt = decl.exp.lead /\ decl.exp.lead \in Int /\ decl.exp.lead > 0
        BY <2>2, <3>2
      <4>2. held.expiresAt # p.time.absent
        <5>1. held.expiresAt # 0
          BY <4>1
        <5>2. NoExpiry \notin Int
          BY MarkerAssumption
        <5> QED
          BY <2>5, <4>1, <5>1, <5>2
      <4> QED
        BY <2>1, <3>2, <4>1, <4>2 DEF IsExpired
    <3> QED
      BY <3>1, <3>2
  <2>9. Matches(p, held) <=> decl.fp.of = pk.key.bytes
    <3>1. held.fingerprint # NoField
      BY <2>2, MarkerAssumption
    <3>2. decl.fp = [of |-> pk.key.bytes, extra |-> FALSE] <=> decl.fp.of = pk.key.bytes
      <4> DEFINE fp == decl.fp
                 bytes == pk.key.bytes
      <4>1. fp \in Fp /\ fp.extra = FALSE
        BY <2>2
      <4> HIDE DEF fp, bytes
      <4>2. fp = [of |-> fp.of, extra |-> FALSE]
        BY <4>1, SMTT(30) DEF Fp
      <4>3. [of |-> bytes, extra |-> FALSE].of = bytes
        OBVIOUS
      <4>4. fp = [of |-> bytes, extra |-> FALSE] <=> fp.of = bytes
        BY <4>2, <4>3, Zenon
      <4> QED
        BY <4>4 DEF fp, bytes
    <3> QED
      BY <2>2, <3>1, <3>2, Zenon DEF Matches
  <2>10. FingerprintChainOk(p, held) = IF Matches(p, held) THEN {"ok"} ELSE {"broken"}
    <3>1. held.fingerprint # NoField
      BY <2>2, MarkerAssumption
    <3>2. Decodings(p, held.publicKey) = {"bytes"}
      BY <2>2 DEF Decodings
    <3> QED
      BY <3>1, <3>2 DEF FingerprintChainOk
  <2>11. held.keyType = "ed25519" <=> pk.kty \in {"ed25519", NoField}
    BY <2>2
  <2>12. IsValid(p, held, now) =
           IF /\ held.version = 1 /\ held.keyType = "ed25519" /\ Matches(p, held)
              /\ ~IsRevoked(held) /\ ~IsExpired(p, held, now)
           THEN {"valid"} ELSE {"invalid"}
    BY <2>10 DEF IsValid
  <2>13. IsValid(p, held, now) = IF Conforms(answer, now) THEN {"valid"} ELSE {"invalid"}
    BY <2>2, <2>6, <2>7, <2>8, <2>9, <2>11, <2>12
  <2> QED
    BY <2>3, <2>13 DEF p
<1> QED
  BY <1>1, Inductive, PTL
----
(***************************************************************************)
(* The order of the records.                                               *)
(***************************************************************************)
\* What numbers a record set anew, without a repetition, leaves none out.
LEMMA Renumbering ==
  ASSUME NEW D, IsFiniteSet(D), NEW order \in [D -> D],
         \A i, j \in D : order[i] = order[j] => i = j
  PROVE  \A j \in D : \E i \in D : order[i] = j
<1>1. order \in Injection(D, D)
  BY DEF Injection, IsInjective
<1>2. order \in Surjection(D, D)
  BY <1>1, FS_Injection
<1> QED
  BY <1>2 DEF Surjection

LEMMA SeqDomain ==
  ASSUME NEW S, NEW s \in Seq(S)
  PROVE  DOMAIN s = 1..Len(s) /\ Len(s) \in Nat
  OBVIOUS

\* With one record of a type, the record that counts is found in any order.
LEMMA RawReordered ==
  ASSUME NEW records \in Seq(Record), OnePerType(records), NEW type,
         NEW order \in [DOMAIN records -> DOMAIN records],
         \A i, j \in DOMAIN records : order[i] = order[j] => i = j
  PROVE  LET other == [i \in DOMAIN records |-> records[order[i]]]
         IN /\ First(type, records) = {} <=> First(type, other) = {}
            /\ First(type, records) # {} => Raw(type, other) = Raw(type, records)
<1> DEFINE other == [i \in DOMAIN records |-> records[order[i]]]
<1>1. DOMAIN records = 1..Len(records) /\ Len(records) \in Nat
  BY SeqDomain
<1>2. \A j \in DOMAIN records : \E i \in DOMAIN records : order[i] = j
  <2>1. IsFiniteSet(DOMAIN records)
    BY <1>1, FS_Interval
  <2> QED
    BY <2>1, Renumbering, Zenon
<1>3. DOMAIN other = DOMAIN records /\ \A i \in DOMAIN records : other[i] = records[order[i]]
  OBVIOUS
<1> HIDE DEF other
<1>4. \A i, j \in DOMAIN other : other[i].type = other[j].type => i = j
  BY <1>3 DEF OnePerType
<1>5. First(type, records) = Of(type, records)
  BY <1>1 DEF First, Of, OnePerType
<1>6. First(type, other) = Of(type, other)
  BY <1>1, <1>3, <1>4 DEF First, Of
<1>7. ASSUME NEW i \in Of(type, other)
      PROVE  order[i] \in Of(type, records)
  BY <1>3, <1>7 DEF Of
<1>8. ASSUME NEW j \in Of(type, records)
      PROVE  \E i \in Of(type, other) : order[i] = j
  BY <1>2, <1>3, <1>8 DEF Of
<1>9. First(type, records) = {} <=> First(type, other) = {}
  BY <1>5, <1>6, <1>7, <1>8
<1>10. ASSUME First(type, records) # {}
       PROVE  Raw(type, other) = Raw(type, records)
  <2>1. PICK i \in Of(type, other) : order[i] \in Of(type, records)
    BY <1>5, <1>7, <1>8, <1>10
  <2>2. Of(type, other) = {i}
    BY <2>1, <1>4 DEF Of
  <2>3. Of(type, records) = {order[i]}
    BY <2>1 DEF Of, OnePerType
  <2>4. i \in DOMAIN records
    BY <2>1, <1>3 DEF Of
  <2> QED
    BY <1>3, <1>5, <1>6, <2>2, <2>3, <2>4 DEF Raw
<1> QED
  BY <1>9, <1>10 DEF other

\* The parser makes the same of the same records in another order.
LEMMA ParsedReordered ==
  ASSUME NEW p, NEW records \in Seq(Record), OnePerType(records),
         NEW order \in [DOMAIN records -> DOMAIN records],
         \A i, j \in DOMAIN records : order[i] = order[j] => i = j
  PROVE  Parsed(p, [i \in DOMAIN records |-> records[order[i]]]) = Parsed(p, records)
<1> DEFINE other == [i \in DOMAIN records |-> records[order[i]]]
<1>1. \A type : /\ First(type, records) = {} <=> First(type, other) = {}
                /\ First(type, records) # {} => Raw(type, other) = Raw(type, records)
  BY RawReordered
<1> HIDE DEF other
<1>2. Revoked(p, other) = Revoked(p, records)
  BY <1>1 DEF Revoked
<1>3. CASE First("decl", records) = {} \/ First("pk", records) = {}
  BY <1>1, <1>3 DEF Parsed, other
<1>4. CASE First("decl", records) # {} /\ First("pk", records) # {}
  <2>1. Raw("decl", other) = Raw("decl", records) /\ Raw("pk", other) = Raw("pk", records)
    BY <1>1, <1>4
  <2>2. Identity(p, other) = Identity(p, records)
    BY <1>2, <2>1, Zenon DEF Identity
  <2>3. First("decl", other) # {} /\ First("pk", other) # {}
    BY <1>1, <1>4
  <2> QED
    BY <1>4, <2>2, <2>3, Zenon DEF Parsed, other
<1> QED
  BY <1>3, <1>4

\* Every library reads the same identity from the records of a domain in
\* whatever order DNS returns them, as long as there is one of a type.
THEOREM OrderIndependentHolds == Spec => []OrderIndependent
<1>1. IInv => OrderIndependent
  <2> SUFFICES ASSUME IInv, held # Unresolved, OnePerType(answer),
                      NEW order \in [DOMAIN answer -> DOMAIN answer],
                      \A i, j \in DOMAIN answer : order[i] = order[j] => i = j
               PROVE  held = Parsed(Profile[lib], [i \in DOMAIN answer |-> answer[order[i]]])
    BY DEF OrderIndependent
  <2>1. answer \in Seq(Record) /\ held = Parsed(Profile[lib], answer)
    BY DEF IInv, TypeOK, HeldIsParsed
  <2> QED
    BY <2>1, ParsedReordered
<1> QED
  BY <1>1, Inductive, PTL
====
