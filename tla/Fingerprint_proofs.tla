---- MODULE Fingerprint_proofs ----
(***************************************************************************)
(* Theorems about the three components that a fingerprint passes through.  *)
(*                                                                         *)
(* Base64Url: for every text, every byte string and every register of      *)
(* twelve bits or more, the decoder gives the bytes that the digits stand  *)
(* for, and the encoder's digits stand for its bytes.                      *)
(*                                                                         *)
(* Sha256Blocks: for messages of every length, both libraries compress the *)
(* blocks of FIPS 180-4.                                                   *)
(*                                                                         *)
(* RevTable: for any number of threads and any identities, while stores    *)
(* keep their order, the race for the table never makes a wrong key pass;  *)
(* and a call that nobody races with says what it should, in any build.    *)
(***************************************************************************)
EXTENDS Base64Url, Sha256Blocks, RevTable, SequenceTheorems, TLAPS

----
(***************************************************************************)
(* Arithmetic of the register.                                             *)
(***************************************************************************)

\* The low bits survive the overflow.
LEMMA LowBits ==
  ASSUME NEW x \in Nat
  PROVE  /\ x % Modulus \in 0..(Modulus - 1)
         /\ (x % Modulus) % 4096 = x % 4096
<1>1. Modulus \in Nat \ {0} /\ Modulus % 4096 = 0
  BY WidthAssumption
<1> DEFINE c == Modulus \div 4096
           q == x \div Modulus
           r == x % Modulus
<1>2. c \in Nat /\ Modulus = 4096 * c
  BY <1>1
<1>3. q \in Nat /\ r \in 0..(Modulus - 1) /\ x = Modulus * q + r
  BY <1>1
<1>4. PICK w \in Nat : w = c * q
  BY <1>2, <1>3
<1>5. x = 4096 * w + r
  BY <1>2, <1>3, <1>4
<1> HIDE DEF c, q
<1>6. r % 4096 = x % 4096
  BY <1>1, <1>3, <1>4, <1>5
<1> QED
  BY <1>3, <1>6

LEMMA ShiftInDigit ==
  ASSUME NEW v \in Nat, NEW x \in Digit
  PROVE  /\ ShiftIn(v, 6, x) \in 0..(Modulus - 1)
         /\ ShiftIn(v, 6, x) % 4096 = (v % 64) * 64 + x
<1>1. ShiftIn(v, 6, x) = (v * 64 + x) % Modulus
  BY DEF ShiftIn, PowerOfTwo
<1>2. v * 64 + x \in Nat
  BY DEF Digit
<1>3. (v * 64 + x) % 4096 = (v % 64) * 64 + x
  BY DEF Digit
<1> QED
  BY <1>1, <1>2, <1>3, LowBits

LEMMA ShiftInByte ==
  ASSUME NEW v \in Nat, NEW x \in Byte
  PROVE  /\ ShiftIn(v, 8, x) \in 0..(Modulus - 1)
         /\ ShiftIn(v, 8, x) % 4096 = (v % 16) * 256 + x
<1>1. ShiftIn(v, 8, x) = (v * 256 + x) % Modulus
  BY DEF ShiftIn, PowerOfTwo
<1>2. v * 256 + x \in Nat
  BY DEF Byte
<1>3. (v * 256 + x) % 4096 = (v % 16) * 256 + x
  BY DEF Byte
<1> QED
  BY <1>1, <1>2, <1>3, LowBits

LEMMA ShiftRights ==
  ASSUME NEW v \in Nat
  PROVE  /\ ShiftRight(v, 0) = v
         /\ ShiftRight(v, 2) = v \div 4
         /\ ShiftRight(v, 4) = v \div 16
         /\ ShiftRight(v, 6) = v \div 64
BY DEF ShiftRight, PowerOfTwo

LEMMA LowByte ==
  ASSUME NEW v \in Nat
  PROVE  v % 256 \in Byte /\ (v \div 4) % 256 \in Byte /\ (v \div 16) % 256 \in Byte
<1>1. v \div 4 \in Nat /\ v \div 16 \in Nat
  OBVIOUS
<1>2. \A w \in Nat : w % 256 \in Byte
  BY DEF Byte
<1> QED
  BY <1>1, <1>2

----
(***************************************************************************)
(* Type correctness.                                                       *)
(***************************************************************************)

\* What goes out is digits while encoding; valb tells the two loops apart.
TypeInv ==
  /\ TypeOK
  /\ phase = "encoding" => out \in Seq(Digit) /\ valb # -8
  /\ phase # "encoding" => valb \in {-8, -6, -4, -2}

\* What one step of the decoder does, by the number of digits pending.
LEMMA Taken ==
  ASSUME TypeInv, TakeDigit
  PROVE  /\ text[p] \in Digit /\ phase = "decoding" /\ p <= Len(text)
         /\ val' \in 0..(Modulus - 1) /\ val' \in Nat
         /\ val' % 4096 = (val % 64) * 64 + text[p]
         /\ \/ valb = -8 /\ valb' = -2 /\ out' = out
            \/ valb = -2 /\ valb' = -4 /\ out' = Append(out, (val' \div 16) % 256)
            \/ valb = -4 /\ valb' = -6 /\ out' = Append(out, (val' \div 4) % 256)
            \/ valb = -6 /\ valb' = -8 /\ out' = Append(out, val' % 256)
<1>1. text[p] \in Digit /\ phase = "decoding" /\ p <= Len(text)
  BY DEF TakeDigit, Reading
<1>2. valb \in {-8, -6, -4, -2}
  BY <1>1 DEF TypeInv
<1>3. val \in Nat /\ Modulus \in Nat
  BY WidthAssumption DEF TypeInv, TypeOK
<1>4. val' = ShiftIn(val, 6, text[p])
  BY DEF TakeDigit
<1>5. val' \in 0..(Modulus - 1) /\ val' % 4096 = (val % 64) * 64 + text[p]
  BY <1>1, <1>3, <1>4, ShiftInDigit
<1>6. val' \in Nat
  BY <1>3, <1>5
<1>7. IF valb + 6 < 0
      THEN valb' = valb + 6 /\ out' = out
      ELSE out' = Append(out, ShiftRight(val', valb + 6) % 256) /\ valb' = valb - 2
  BY <1>4 DEF TakeDigit
<1>8. CASE valb = -8
  BY <1>1, <1>5, <1>6, <1>7, <1>8
<1>9. CASE valb = -2
  <2>1. ShiftRight(val', 4) = val' \div 16
    BY <1>6, ShiftRights
  <2> QED
    BY <1>1, <1>5, <1>6, <1>7, <1>9, <2>1
<1>10. CASE valb = -4
  <2>1. ShiftRight(val', 2) = val' \div 4
    BY <1>6, ShiftRights
  <2> QED
    BY <1>1, <1>5, <1>6, <1>7, <1>10, <2>1
<1>11. CASE valb = -6
  <2>1. ShiftRight(val', 0) = val'
    BY <1>6, ShiftRights
  <2> QED
    BY <1>1, <1>5, <1>6, <1>7, <1>11, <2>1
<1> QED
  BY <1>2, <1>8, <1>9, <1>10, <1>11

LEMMA TypeInvHolds == Spec => []TypeInv
<1>1. Init => TypeInv
  <2> SUFFICES ASSUME Init PROVE TypeInv
    OBVIOUS
  <2>1. bytes \in Seq(Byte) /\ text \in Seq(Digit \cup {Pad, Foreign})
    <3>1. CASE bytes \in Inputs /\ text = <<>>
      BY <3>1, InputsAssumption
    <3>2. CASE text \in Published /\ bytes = <<>>
      BY <3>2, PublishedAssumption
    <3> QED
      BY <3>1, <3>2 DEF Init
  <2>2. Modulus - 1 \in Nat
    BY WidthAssumption
  <2> QED
    BY <2>1, <2>2 DEF Init, TypeInv, TypeOK
<1>2. TypeInv /\ [Next]_vars => TypeInv'
  <2> SUFFICES ASSUME TypeInv, [Next]_vars PROVE TypeInv'
    OBVIOUS
  <2>a. Modulus \in Nat \ {0} /\ val \in Nat
    BY WidthAssumption DEF TypeInv, TypeOK
  <2>1. CASE AbsorbByte
    <3>1. bytes[p] \in Byte
      BY <2>1 DEF AbsorbByte, TypeInv, TypeOK
    <3>2. ShiftIn(val, 8, bytes[p]) \in 0..(Modulus - 1)
      BY <3>1, <2>a, ShiftInByte
    <3> QED
      BY <2>1, <3>2 DEF AbsorbByte, TypeInv, TypeOK
  <2>2. CASE EmitDigit
    <3>1. valb \in {0, 2, 4, 6}
      BY <2>2 DEF EmitDigit, TypeInv, TypeOK
    <3>2. ShiftRight(val, valb) \in Nat
      BY <3>1, <2>a, ShiftRights
    <3>3. ShiftRight(val, valb) % 64 \in Digit
      BY <3>2 DEF Digit
    <3>4. out' \in Seq(Digit) /\ out' \in Seq(Byte)
      <4>1. out \in Seq(Digit) /\ out \in Seq(Byte)
        BY <2>2 DEF EmitDigit, TypeInv, TypeOK
      <4>2. Digit \subseteq Byte
        BY DEF Digit, Byte
      <4> QED
        BY <2>2, <3>3, <4>1, <4>2 DEF EmitDigit
    <3> QED
      BY <2>2, <3>1, <3>4 DEF EmitDigit, TypeInv, TypeOK
  <2>3. CASE EndEncoding
    <3>1. ShiftIn(val, 8, 0) \in Nat
      BY ShiftInByte, <2>a DEF Byte
    <3>2. valb > -6 => LastDigit \in Digit
      <4> SUFFICES ASSUME valb > -6 PROVE LastDigit \in Digit
        OBVIOUS
      <4>1. valb + 8 \in {4, 6}
        BY <2>3 DEF EndEncoding, TypeInv, TypeOK
      <4>2. ShiftRight(ShiftIn(val, 8, 0), valb + 8) \in Nat
        BY <3>1, <4>1, ShiftRights
      <4> QED
        BY <4>2 DEF LastDigit, Digit
    <3>3. text' \in Seq(Digit \cup {Pad, Foreign})
      BY <2>3, <3>2 DEF EndEncoding, TypeInv
    <3>4. val' \in 0..(Modulus - 1) /\ out' \in Seq(Byte)
      BY <2>3, <2>a DEF EndEncoding, StartDecoding
    <3> QED
      BY <2>3, <3>3, <3>4 DEF EndEncoding, StartDecoding, TypeInv, TypeOK
  <2> USE DEF TypeInv, TypeOK
  <2>4. CASE SkipPad
    BY <2>4 DEF SkipPad, Reading
  <2>5. CASE TakeDigit
    <3> HIDE DEF TypeInv, TypeOK
    <3>1. text[p] \in Digit /\ val' \in 0..(Modulus - 1) /\ val' \in Nat
      BY <2>5, Taken
    <3>2. digits' \in Seq(Digit)
      BY <2>5, <3>1 DEF TakeDigit, TypeInv, TypeOK
    <3>3. out' \in Seq(Byte)
      <4>1. out \in Seq(Byte)
        BY DEF TypeInv, TypeOK
      <4>2. \A b \in Byte : Append(out, b) \in Seq(Byte)
        BY <4>1
      <4>3. /\ (val' \div 16) % 256 \in Byte /\ (val' \div 4) % 256 \in Byte
            /\ val' % 256 \in Byte
        BY <3>1, LowByte
      <4>4. /\ Append(out, (val' \div 16) % 256) \in Seq(Byte)
            /\ Append(out, (val' \div 4) % 256) \in Seq(Byte)
            /\ Append(out, val' % 256) \in Seq(Byte)
        BY <4>2, <4>3
      <4>5. \/ out' = out
            \/ out' = Append(out, (val' \div 16) % 256)
            \/ out' = Append(out, (val' \div 4) % 256)
            \/ out' = Append(out, val' % 256)
        BY <2>5, Taken
      <4> QED
        BY <4>1, <4>4, <4>5
    <3>4. valb' \in {-8, -6, -4, -2} /\ phase = "decoding"
      BY <2>5, Taken
    <3> QED
      BY <2>5, <3>1, <3>2, <3>3, <3>4 DEF TakeDigit, TypeInv, TypeOK
  <2>6. CASE Fail
    BY <2>6 DEF Fail, Reading
  <2>7. CASE EndDecoding
    BY <2>7 DEF EndDecoding
  <2>8. CASE UNCHANGED vars
    BY <2>8 DEF vars
  <2> QED
    BY <2>1, <2>2, <2>3, <2>4, <2>5, <2>6, <2>7, <2>8 DEF Next
<1> QED
  BY <1>1, <1>2, PTL DEF Spec

\* The register, the bit count and the output stay in their ranges.
THEOREM TypeCorrect == Spec => []TypeOK
<1>1. TypeInv => TypeOK
  BY DEF TypeInv
<1> QED
  BY <1>1, TypeInvHolds, PTL

----
(***************************************************************************)
(* The bytes of the decoder.                                               *)
(***************************************************************************)

\* A byte is made of digits that are there.
LEMMA ByteIndices ==
  ASSUME NEW n \in Nat, NEW nth \in Nat \ {0}, nth <= (3 * n) \div 4
  PROVE  LET first == 4 * ((nth - 1) \div 3) + 1
             place == (nth - 1) % 3
         IN /\ first \in 1..n /\ first + 1 \in 1..n
            /\ place = 1 => first + 2 \in 1..n
            /\ place \notin {0, 1} => first + 2 \in 1..n /\ first + 3 \in 1..n
<1> DEFINE q == (nth - 1) \div 3
           r == (nth - 1) % 3
<1>1. q \in Nat /\ r \in 0..2 /\ nth = 3 * q + r + 1
  OBVIOUS
<1>2. 4 * nth <= 3 * n
  OBVIOUS
<1> HIDE DEF q, r
<1>3. 4 * q + 2 <= n /\ (r = 1 => 4 * q + 3 <= n) /\ (r = 2 => 4 * q + 4 <= n)
  BY <1>1, <1>2
<1>4. /\ 4 * q + 1 \in 1..n /\ 4 * q + 1 + 1 \in 1..n
      /\ r = 1 => 4 * q + 1 + 2 \in 1..n
      /\ r \notin {0, 1} => 4 * q + 1 + 2 \in 1..n /\ 4 * q + 1 + 3 \in 1..n
  BY <1>1, <1>3
<1> QED
  BY <1>4 DEF q, r

\* Further digits change no byte that is complete.
LEMMA ByteKept ==
  ASSUME NEW ds \in Seq(Digit), NEW d \in Digit,
         NEW nth \in Nat \ {0}, nth <= (3 * Len(ds)) \div 4
  PROVE  ByteOf(Append(ds, d), nth) = ByteOf(ds, nth)
<1>1. \A j \in 1..Len(ds) : Append(ds, d)[j] = ds[j]
  OBVIOUS
<1>2. Len(ds) \in Nat
  OBVIOUS
<1> QED
  BY <1>1, <1>2, ByteIndices DEF ByteOf

\* The register w has taken the digit x after those of v.
TakenIn(v, w, x) == w % 4096 = (v % 64) * 64 + x

\* What it then gives out and keeps, if the digit before is d.
ShiftedOn(v, w, x, d) ==
  /\ w % 64 = x
  /\ v % 64 = d => w % 16 = x % 16 /\ (w \div 16) % 256 = d * 4 + x \div 16
  /\ v % 16 = d % 16 => w % 4 = x % 4 /\ (w \div 4) % 256 = (d % 16) * 16 + x \div 4
  /\ v % 4 = d % 4 => w % 256 = (d % 4) * 64 + x

LEMMA Bits ==
  ASSUME NEW v \in Nat, NEW w \in Nat, NEW x \in Digit, NEW d \in Digit,
         TakenIn(v, w, x)
  PROVE  ShiftedOn(v, w, x, d)
<1>1. x \in 0..63 /\ d \in 0..63 /\ w % 4096 = (v % 64) * 64 + x
  BY DEF Digit, TakenIn
<1> DEFINE c == w \div 4096
           r == (v % 64) * 64 + x
<1>2. c \in Nat /\ r \in 0..4095 /\ w = 4096 * c + r
  BY <1>1
<1>3. w % 64 = x
  BY <1>1
<1>4. ASSUME v % 64 = d PROVE w % 16 = x % 16 /\ (w \div 16) % 256 = d * 4 + x \div 16
  BY <1>1, <1>4
<1>5. ASSUME v % 16 = d % 16
      PROVE  w % 4 = x % 4 /\ (w \div 4) % 256 = (d % 16) * 16 + x \div 4
  BY <1>1, <1>5
<1>6. ASSUME v % 4 = d % 4 PROVE w % 256 = (d % 4) * 64 + x
  BY <1>1, <1>6
<1> QED
  BY <1>3, <1>4, <1>5, <1>6 DEF ShiftedOn

\* Where the next byte stands that n digits, and one more, complete.
LEMMA Counts ==
  ASSUME NEW n \in Nat
  PROVE  LET nth == (3 * n) \div 4
             m == (3 * (n + 1)) \div 4
         IN /\ n % 4 = 0 => (n + 1) % 4 = 1 /\ m = nth
            /\ n % 4 = 1 => (n + 1) % 4 = 2 /\ m = nth + 1 /\ nth % 3 = 0 /\ 4 * (nth \div 3) + 1 = n
            /\ n % 4 = 2 => (n + 1) % 4 = 3 /\ m = nth + 1 /\ nth % 3 = 1 /\ 4 * (nth \div 3) + 2 = n
            /\ n % 4 = 3 => (n + 1) % 4 = 0 /\ m = nth + 1 /\ nth % 3 = 2 /\ 4 * (nth \div 3) + 3 = n
<1> DEFINE q == n \div 4
           r == n % 4
<1>1. q \in Nat /\ r \in 0..3 /\ n = 4 * q + r
  OBVIOUS
<1> HIDE DEF q, r
<1>2. CASE r = 0
  <2>1. (3 * n) \div 4 = 3 * q /\ (3 * (n + 1)) \div 4 = 3 * q /\ (n + 1) % 4 = 1
    BY <1>1, <1>2
  <2> QED
    BY <1>2, <2>1 DEF r
<1>3. CASE r = 1
  <2>1. /\ (3 * n) \div 4 = 3 * q /\ (3 * (n + 1)) \div 4 = 3 * q + 1 /\ (n + 1) % 4 = 2
        /\ (3 * q) % 3 = 0 /\ 4 * ((3 * q) \div 3) + 1 = n
    BY <1>1, <1>3
  <2> QED
    BY <1>3, <2>1 DEF r
<1>4. CASE r = 2
  <2>1. /\ (3 * n) \div 4 = 3 * q + 1 /\ (3 * (n + 1)) \div 4 = 3 * q + 2
        /\ (n + 1) % 4 = 3
        /\ (3 * q + 1) % 3 = 1 /\ 4 * ((3 * q + 1) \div 3) + 2 = n
    BY <1>1, <1>4
  <2> QED
    BY <1>1, <1>4, <2>1 DEF r
<1>5. CASE r = 3
  <2>1. /\ (3 * n) \div 4 = 3 * q + 2 /\ (3 * (n + 1)) \div 4 = 3 * q + 3
        /\ (n + 1) % 4 = 0
        /\ (3 * q + 2) % 3 = 2 /\ 4 * ((3 * q + 2) \div 3) + 3 = n
    BY <1>1, <1>5
  <2> QED
    BY <1>1, <1>5, <2>1 DEF r
<1> QED
  BY <1>1, <1>2, <1>3, <1>4, <1>5

\* What the register holds back, by the number of digits read.
Pending ==
  LET n == Len(digits) IN
  \/ n % 4 = 0 /\ valb = -8
  \/ n % 4 = 1 /\ valb = -2 /\ val % 64 = digits[n]
  \/ n % 4 = 2 /\ valb = -4 /\ val % 16 = digits[n] % 16
  \/ n % 4 = 3 /\ valb = -6 /\ val % 4 = digits[n] % 4

Decoding ==
  /\ Len(out) = (3 * Len(digits)) \div 4
  /\ \A nth \in 1..Len(out) : out[nth] = ByteOf(digits, nth)
  /\ Pending

DecodeInv == IF phase = "encoding" THEN digits = <<>> ELSE Decoding

\* The bytes so far stay right when one is appended that is right.
LEMMA Decoded ==
  ASSUME TypeInv, DecodeInv, TakeDigit,
         Len(out) + 1 = (3 * Len(digits')) \div 4,
         NEW b, out' = Append(out, b),
         b = ByteOf(digits', Len(out) + 1)
  PROVE  /\ Len(out') = (3 * Len(digits')) \div 4
         /\ \A nth \in 1..Len(out') : out'[nth] = ByteOf(digits', nth)
<1>1. /\ digits \in Seq(Digit) /\ out \in Seq(Byte) /\ text[p] \in Digit
      /\ digits' = Append(digits, text[p])
  BY Taken DEF TypeInv, TypeOK, TakeDigit
<1>2. Len(out') = Len(out) + 1 /\ Len(out) \in Nat
  BY <1>1
<1>3. ASSUME NEW nth \in 1..Len(out) PROVE out'[nth] = ByteOf(digits', nth)
  <2>1. phase # "encoding"
    BY Taken
  <2>2. out[nth] = ByteOf(digits, nth) /\ nth <= (3 * Len(digits)) \div 4 /\ nth \in Nat \ {0}
    BY <1>2, <2>1 DEF DecodeInv, Decoding
  <2>3. ByteOf(digits', nth) = ByteOf(digits, nth)
    BY <1>1, <2>2, ByteKept
  <2>4. out'[nth] = out[nth]
    BY <1>1
  <2> QED
    BY <2>2, <2>3, <2>4
<1>4. out'[Len(out) + 1] = b
  BY <1>1
<1> QED
  BY <1>2, <1>3, <1>4

LEMMA DecodeInvTaken ==
  ASSUME TypeInv, DecodeInv, TakeDigit
  PROVE  Decoding'
<1> DEFINE n == Len(digits)
           t == text[p]
<1>1. /\ digits \in Seq(Digit) /\ t \in Digit /\ val \in Nat /\ val' \in Nat
      /\ out \in Seq(Byte) /\ digits' = Append(digits, t)
  BY Taken, WidthAssumption DEF TypeInv, TypeOK, TakeDigit
<1>2. /\ n \in Nat /\ Len(digits') = n + 1 /\ digits'[n + 1] = t
      /\ \A j \in 1..n : digits'[j] = digits[j] /\ digits[j] \in Digit
  BY <1>1
<1>3. Decoding
  BY Taken DEF DecodeInv
<1>4. val' % 4096 = (val % 64) * 64 + t
  BY Taken
<1> HIDE DEF t
<1>b. \A d \in Digit : ShiftedOn(val, val', t, d)
  <2>1. TakenIn(val, val', t)
    BY <1>4 DEF TakenIn
  <2> QED
    BY <1>1, <2>1, Bits
<1>5. CASE valb = -8
  <2>1. n % 4 = 0 /\ valb' = -2 /\ out' = out
    BY <1>3, <1>5, Taken DEF Decoding, Pending
  <2>2. val' % 64 = t
    BY <1>1, <1>b DEF ShiftedOn
  <2>3. (n + 1) % 4 = 1 /\ (3 * (n + 1)) \div 4 = (3 * n) \div 4
    BY <1>2, <2>1, Counts
  <2>4. Pending'
    BY <1>2, <2>1, <2>2, <2>3 DEF Pending
  <2>5. ASSUME NEW nth \in 1..Len(out) PROVE ByteOf(digits', nth) = ByteOf(digits, nth)
    <3>1. nth \in Nat \ {0} /\ nth <= (3 * n) \div 4
      BY <1>1, <1>3 DEF Decoding
    <3> QED
      BY <1>1, <3>1, ByteKept
  <2> QED
    BY <1>2, <1>3, <2>1, <2>3, <2>4, <2>5 DEF Decoding
<1>6. CASE valb = -2
  <2>1. /\ n % 4 = 1 /\ valb' = -4 /\ out' = Append(out, (val' \div 16) % 256)
        /\ val % 64 = digits[n]
    BY <1>3, <1>6, Taken DEF Decoding, Pending
  <2>2. (n + 1) % 4 = 2 /\ (3 * (n + 1)) \div 4 = (3 * n) \div 4 + 1
    BY <1>2, <2>1, Counts
  <2>3. n \in 1..n /\ digits[n] \in Digit
    BY <1>2, <2>1
  <2>4. val' % 16 = t % 16 /\ (val' \div 16) % 256 = digits[n] * 4 + t \div 16
    BY <1>b, <2>1, <2>3 DEF ShiftedOn
  <2>5. (val' \div 16) % 256 = ByteOf(digits', Len(out) + 1)
    <3>1. Len(out) = (3 * n) \div 4 /\ Len(out) \in Nat
      BY <1>1, <1>3 DEF Decoding
    <3>2. Len(out) % 3 = 0 /\ 4 * (Len(out) \div 3) + 1 = n
      BY <1>2, <2>1, <3>1, Counts
    <3>3. ByteOf(digits', Len(out) + 1) = digits'[n] * 4 + digits'[n + 1] \div 16
      BY <3>1, <3>2 DEF ByteOf
    <3> QED
      BY <1>2, <2>3, <2>4, <3>3
  <2>6. Pending'
    BY <1>2, <2>1, <2>2, <2>4 DEF Pending
  <2>7. Len(out) + 1 = (3 * Len(digits')) \div 4
    BY <1>2, <1>3, <2>2 DEF Decoding
  <2> QED
    BY <2>1, <2>5, <2>6, <2>7, Decoded DEF Decoding
<1>7. CASE valb = -4
  <2>1. /\ n % 4 = 2 /\ valb' = -6 /\ out' = Append(out, (val' \div 4) % 256)
        /\ val % 16 = digits[n] % 16
    BY <1>3, <1>7, Taken DEF Decoding, Pending
  <2>2. (n + 1) % 4 = 3 /\ (3 * (n + 1)) \div 4 = (3 * n) \div 4 + 1
    BY <1>2, <2>1, Counts
  <2>3. n \in 1..n /\ digits[n] \in Digit
    BY <1>2, <2>1
  <2>4. val' % 4 = t % 4 /\ (val' \div 4) % 256 = (digits[n] % 16) * 16 + t \div 4
    BY <1>b, <2>1, <2>3 DEF ShiftedOn
  <2>5. (val' \div 4) % 256 = ByteOf(digits', Len(out) + 1)
    <3>1. Len(out) = (3 * n) \div 4 /\ Len(out) \in Nat
      BY <1>1, <1>3 DEF Decoding
    <3>2. Len(out) % 3 = 1 /\ 4 * (Len(out) \div 3) + 2 = n
      BY <1>2, <2>1, <3>1, Counts
    <3>3. ByteOf(digits', Len(out) + 1) = (digits'[n] % 16) * 16 + digits'[n + 1] \div 4
      BY <3>1, <3>2 DEF ByteOf
    <3> QED
      BY <1>2, <2>3, <2>4, <3>3
  <2>6. Pending'
    BY <1>2, <2>1, <2>2, <2>4 DEF Pending
  <2>7. Len(out) + 1 = (3 * Len(digits')) \div 4
    BY <1>2, <1>3, <2>2 DEF Decoding
  <2> QED
    BY <2>1, <2>5, <2>6, <2>7, Decoded DEF Decoding
<1>8. CASE valb = -6
  <2>1. /\ n % 4 = 3 /\ valb' = -8 /\ out' = Append(out, val' % 256)
        /\ val % 4 = digits[n] % 4
    BY <1>3, <1>8, Taken DEF Decoding, Pending
  <2>2. (n + 1) % 4 = 0 /\ (3 * (n + 1)) \div 4 = (3 * n) \div 4 + 1
    BY <1>2, <2>1, Counts
  <2>3. n \in 1..n /\ digits[n] \in Digit
    BY <1>2, <2>1
  <2>4. val' % 256 = (digits[n] % 4) * 64 + t
    BY <1>b, <2>1, <2>3 DEF ShiftedOn
  <2>5. val' % 256 = ByteOf(digits', Len(out) + 1)
    <3>1. Len(out) = (3 * n) \div 4 /\ Len(out) \in Nat
      BY <1>1, <1>3 DEF Decoding
    <3>2. Len(out) % 3 = 2 /\ 4 * (Len(out) \div 3) + 3 = n
      BY <1>2, <2>1, <3>1, Counts
    <3>3. ByteOf(digits', Len(out) + 1) = (digits'[n] % 4) * 64 + digits'[n + 1]
      BY <3>1, <3>2 DEF ByteOf
    <3> QED
      BY <1>2, <2>3, <2>4, <3>3
  <2>6. Pending'
    BY <1>2, <2>1, <2>2 DEF Pending
  <2>7. Len(out) + 1 = (3 * Len(digits')) \div 4
    BY <1>2, <1>3, <2>2 DEF Decoding
  <2> QED
    BY <2>1, <2>5, <2>6, <2>7, Decoded DEF Decoding
<1> QED
  BY <1>5, <1>6, <1>7, <1>8, Taken

LEMMA DecodeInvHolds == Spec => []DecodeInv
<1>1. Init => DecodeInv
  BY DEF Init, DecodeInv, Decoding, Pending
<1>2. TypeInv /\ DecodeInv /\ [Next]_vars => DecodeInv'
  <2> SUFFICES ASSUME TypeInv, DecodeInv, [Next]_vars PROVE DecodeInv'
    OBVIOUS
  <2>1. CASE AbsorbByte
    BY <2>1 DEF AbsorbByte, DecodeInv
  <2>2. CASE EmitDigit
    BY <2>2 DEF EmitDigit, DecodeInv
  <2>3. CASE EndEncoding
    <3>1. digits = <<>>
      BY <2>3 DEF EndEncoding, DecodeInv
    <3> QED
      BY <2>3, <3>1 DEF EndEncoding, StartDecoding, DecodeInv, Decoding, Pending
  <2>4. CASE TakeDigit
    <3>1. phase' = "decoding"
      BY <2>4 DEF TakeDigit, Reading
    <3> QED
      BY <2>4, <3>1, DecodeInvTaken DEF DecodeInv
  <2>5. CASE SkipPad \/ Fail \/ EndDecoding \/ UNCHANGED vars
    BY <2>5 DEF SkipPad, Fail, EndDecoding, Reading, vars, DecodeInv, Decoding, Pending
  <2> QED
    BY <2>1, <2>2, <2>3, <2>4, <2>5 DEF Next
<1> QED
  BY <1>1, <1>2, TypeInvHolds, PTL DEF Spec

\* For every text and every width of the register, the decoder gives exactly
\* the bytes that the digits stand for.
THEOREM DecodesDigitsHolds == Spec => []DecodesDigits
<1>1. TypeInv /\ DecodeInv => DecodesDigits
  BY DEF TypeInv, TypeOK, DecodeInv, Decoding, DecodesDigits
<1> QED
  BY <1>1, TypeInvHolds, DecodeInvHolds, PTL

----
(***************************************************************************)
(* The digits of the encoder.                                              *)
(***************************************************************************)

\* RFC 4648: digit j of the bytes bs, filled up with zeros at their end.
ByteAt(bs, i) == IF i \in 1..Len(bs) THEN bs[i] ELSE 0

DigitOf(bs, j) ==
  LET first == 3 * ((j - 1) \div 4) + 1
      place == (j - 1) % 4
  IN IF place = 0 THEN ByteAt(bs, first) \div 4
     ELSE IF place = 1 THEN (ByteAt(bs, first) % 4) * 16 + ByteAt(bs, first + 1) \div 16
     ELSE IF place = 2 THEN (ByteAt(bs, first + 1) % 16) * 4 + ByteAt(bs, first + 2) \div 64
     ELSE ByteAt(bs, first + 2) % 64

\* What the register v holds of the bytes a and b, absorbed last, with vb.
Holds(vb, v, a, b) ==
  /\ vb = 2 => v % 256 = b
  /\ vb = -4 => v % 4 = b % 4
  /\ vb = 4 => v % 1024 = (a % 4) * 256 + b
  /\ vb = -2 => v % 16 = b % 16
  /\ vb = 6 => v % 4096 = (a % 16) * 256 + b
  /\ vb = 0 => v % 64 = b % 64

\* The digit that is next to go out of it.
Group(vb, a, b) ==
  IF vb = 2 THEN b \div 4
  ELSE IF vb = 4 THEN (a % 4) * 16 + b \div 16
  ELSE IF vb = 6 THEN (a % 16) * 4 + b \div 64
  ELSE b % 64

\* The register w has absorbed the byte c after what v held.
Absorbed(v, w, c) == w % 4096 = (v % 16) * 256 + c

LEMMA AbsorbHolds ==
  ASSUME NEW v \in Nat, NEW w \in Nat, NEW a \in Byte, NEW b \in Byte, NEW c \in Byte,
         NEW vb \in {-6, -4, -2}, Holds(vb, v, a, b), Absorbed(v, w, c)
  PROVE  Holds(vb + 8, w, b, c)
<1> USE DEF Holds, Absorbed, Byte
<1>1. CASE vb = -6
  BY <1>1
<1>2. CASE vb = -4
  BY <1>2
<1>3. CASE vb = -2
  BY <1>3
<1> QED
  BY <1>1, <1>2, <1>3

LEMMA EmitHolds ==
  ASSUME NEW v \in Nat, NEW a \in Byte, NEW b \in Byte,
         NEW vb \in {0, 2, 4, 6}, Holds(vb, v, a, b)
  PROVE  /\ Holds(vb - 6, v, a, b)
         /\ ShiftRight(v, vb) % 64 = Group(vb, a, b)
<1> USE DEF Holds, Group, Byte
<1>1. CASE vb = 0
  <2>1. ShiftRight(v, vb) = v
    BY <1>1, ShiftRights
  <2> QED
    BY <1>1, <2>1
<1>2. CASE vb = 2
  <2>1. ShiftRight(v, vb) = v \div 4
    BY <1>2, ShiftRights
  <2>2. (v \div 4) % 64 = b \div 4 /\ v % 4 = b % 4
    BY <1>2
  <2> QED
    BY <1>2, <2>1, <2>2
<1>3. CASE vb = 4
  <2>1. ShiftRight(v, vb) = v \div 16
    BY <1>3, ShiftRights
  <2>2. (v \div 16) % 64 = (a % 4) * 16 + b \div 16 /\ v % 16 = b % 16
    BY <1>3
  <2> QED
    BY <1>3, <2>1, <2>2
<1>4. CASE vb = 6
  <2>1. ShiftRight(v, vb) = v \div 64
    BY <1>4, ShiftRights
  <2>2. (v \div 64) % 64 = (a % 16) * 4 + b \div 64 /\ v % 64 = b % 64
    BY <1>4
  <2> QED
    BY <1>4, <2>1, <2>2
<1> QED
  BY <1>1, <1>2, <1>3, <1>4

\* len digits are out and vb + 6 bits are held of b bytes.
Balance(len, vb, b) == 6 * len + vb + 6 = 8 * b

LEMMA NextDigit ==
  ASSUME NEW bs \in Seq(Byte), NEW b \in 0..Len(bs), NEW len \in Nat,
         NEW vb \in {0, 2, 4, 6}, Balance(len, vb, b)
  PROVE  DigitOf(bs, len + 1) = Group(vb, ByteAt(bs, b - 1), ByteAt(bs, b))
<1> DEFINE q == len \div 4
           r == len % 4
<1>1. q \in Nat /\ r \in 0..3 /\ len = 4 * q + r
  OBVIOUS
<1>2. (len + 1) - 1 = len
  OBVIOUS
<1>3. DigitOf(bs, len + 1) =
        IF r = 0 THEN ByteAt(bs, 3 * q + 1) \div 4
        ELSE IF r = 1 THEN (ByteAt(bs, 3 * q + 1) % 4) * 16 + ByteAt(bs, 3 * q + 1 + 1) \div 16
        ELSE IF r = 2 THEN (ByteAt(bs, 3 * q + 1 + 1) % 16) * 4 + ByteAt(bs, 3 * q + 1 + 2) \div 64
        ELSE ByteAt(bs, 3 * q + 1 + 2) % 64
  BY <1>2 DEF DigitOf
<1> HIDE DEF q, r
<1>4. CASE vb = 2
  <2>1. r = 0 /\ b = 3 * q + 1
    BY <1>1, <1>4 DEF Balance
  <2> QED
    BY <1>3, <1>4, <2>1 DEF Group
<1>5. CASE vb = 4
  <2>1. r = 1 /\ b = 3 * q + 1 + 1 /\ b - 1 = 3 * q + 1
    BY <1>1, <1>5 DEF Balance
  <2> QED
    BY <1>3, <1>5, <2>1 DEF Group
<1>6. CASE vb = 6
  <2>1. r = 2 /\ b = 3 * q + 1 + 2 /\ b - 1 = 3 * q + 1 + 1
    BY <1>1, <1>6 DEF Balance
  <2> QED
    BY <1>3, <1>6, <2>1 DEF Group
<1>7. CASE vb = 0
  <2>1. r = 3 /\ b = 3 * q + 1 + 2
    BY <1>1, <1>7 DEF Balance
  <2> QED
    BY <1>3, <1>7, <2>1 DEF Group
<1> QED
  BY <1>4, <1>5, <1>6, <1>7

LEMMA ByteAtType ==
  ASSUME NEW bs \in Seq(Byte), NEW i \in Int
  PROVE  ByteAt(bs, i) \in Byte
<1>1. CASE i \in 1..Len(bs)
  BY <1>1 DEF ByteAt
<1>2. CASE i \notin 1..Len(bs)
  BY <1>2 DEF ByteAt, Byte
<1> QED
  BY <1>1, <1>2

\* The four digits of three bytes.
LEMMA DigitsOfGroup ==
  ASSUME NEW bs \in Seq(Byte), NEW q \in Nat
  PROVE  LET b1 == ByteAt(bs, 3 * q + 1)
             b2 == ByteAt(bs, 3 * q + 1 + 1)
             b3 == ByteAt(bs, 3 * q + 1 + 2)
         IN /\ DigitOf(bs, 4 * q + 1) = b1 \div 4
            /\ DigitOf(bs, 4 * q + 1 + 1) = (b1 % 4) * 16 + b2 \div 16
            /\ DigitOf(bs, 4 * q + 1 + 2) = (b2 % 16) * 4 + b3 \div 64
            /\ DigitOf(bs, 4 * q + 1 + 3) = b3 % 64
<1>1. ((4 * q + 1) - 1) \div 4 = q /\ ((4 * q + 1) - 1) % 4 = 0
  OBVIOUS
<1>2. ((4 * q + 1 + 1) - 1) \div 4 = q /\ ((4 * q + 1 + 1) - 1) % 4 = 1
  OBVIOUS
<1>3. ((4 * q + 1 + 2) - 1) \div 4 = q /\ ((4 * q + 1 + 2) - 1) % 4 = 2
  OBVIOUS
<1>4. ((4 * q + 1 + 3) - 1) \div 4 = q /\ ((4 * q + 1 + 3) - 1) % 4 = 3
  OBVIOUS
<1>5. DigitOf(bs, 4 * q + 1) = ByteAt(bs, 3 * q + 1) \div 4
  BY <1>1 DEF DigitOf
<1>6. DigitOf(bs, 4 * q + 1 + 1)
        = (ByteAt(bs, 3 * q + 1) % 4) * 16 + ByteAt(bs, 3 * q + 1 + 1) \div 16
  BY <1>2 DEF DigitOf
<1>7. DigitOf(bs, 4 * q + 1 + 2)
        = (ByteAt(bs, 3 * q + 1 + 1) % 16) * 4 + ByteAt(bs, 3 * q + 1 + 2) \div 64
  BY <1>3 DEF DigitOf
<1>8. DigitOf(bs, 4 * q + 1 + 3) = ByteAt(bs, 3 * q + 1 + 2) % 64
  BY <1>4 DEF DigitOf
<1> QED
  BY <1>5, <1>6, <1>7, <1>8

\* The encoder's last digit, filled up, is the digit of the bytes' end.
LEMMA EndDigit ==
  ASSUME NEW bs \in Seq(Byte), NEW len \in Nat, NEW vb \in {-4, -2},
         Balance(len, vb, Len(bs)), NEW v \in Nat, NEW a \in Byte,
         Holds(vb, v, a, ByteAt(bs, Len(bs)))
  PROVE  /\ ShiftRight(ShiftIn(v, 8, 0), vb + 8) % 64 = DigitOf(bs, len + 1)
         /\ len + 1 = (4 * Len(bs) + 2) \div 3
<1> DEFINE q == len \div 4
           r == len % 4
           L == Len(bs)
           w == ShiftIn(v, 8, 0)
           b == ByteAt(bs, L)
<1>1. q \in Nat /\ r \in 0..3 /\ len = 4 * q + r
  OBVIOUS
<1>4. w \in Nat /\ w % 4096 = (v % 16) * 256
  <2>1. w \in 0..(Modulus - 1) /\ w % 4096 = (v % 16) * 256 + 0
    BY ShiftInByte DEF Byte
  <2> QED
    BY <2>1, WidthAssumption
<1>5. L \in Nat /\ b \in 0..255
  BY ByteAtType DEF Byte
<1> HIDE DEF q, r, w, L, b
<1>6. CASE vb = -4
  <2>1. r = 1 /\ L = 3 * q + 1 /\ len + 1 = (4 * L + 2) \div 3
    BY <1>1, <1>5, <1>6 DEF Balance, L
  <2>2. ByteAt(bs, 3 * q + 1 + 1) = 0
    BY <1>1, <2>1 DEF ByteAt, L
  <2>3. DigitOf(bs, len + 1) = (b % 4) * 16
    <3>1. len + 1 = 4 * q + 1 + 1
      BY <1>1, <2>1
    <3>2. DigitOf(bs, len + 1)
            = (ByteAt(bs, 3 * q + 1) % 4) * 16 + ByteAt(bs, 3 * q + 1 + 1) \div 16
      BY <1>1, <3>1, DigitsOfGroup
    <3>3. DigitOf(bs, len + 1) = (b % 4) * 16 + 0 \div 16
      BY <2>1, <2>2, <3>2 DEF b
    <3> QED
      BY <1>5, <3>3
  <2>4. ShiftRight(w, vb + 8) = w \div 16
    BY <1>4, <1>6, ShiftRights
  <2>5. v % 4 = b % 4
    BY <1>6 DEF Holds, L, b
  <2>6. (w \div 16) % 64 = (v % 4) * 16
    BY <1>4
  <2> QED
    BY <2>1, <2>3, <2>4, <2>5, <2>6 DEF w, L
<1>7. CASE vb = -2
  <2>1. r = 2 /\ L = 3 * q + 1 + 1 /\ len + 1 = (4 * L + 2) \div 3
    BY <1>1, <1>5, <1>7 DEF Balance, L
  <2>2. ByteAt(bs, 3 * q + 1 + 2) = 0
    BY <1>1, <2>1 DEF ByteAt, L
  <2>3. DigitOf(bs, len + 1) = (b % 16) * 4
    <3>1. len + 1 = 4 * q + 1 + 2
      BY <1>1, <2>1
    <3>2. DigitOf(bs, len + 1)
            = (ByteAt(bs, 3 * q + 1 + 1) % 16) * 4 + ByteAt(bs, 3 * q + 1 + 2) \div 64
      BY <1>1, <3>1, DigitsOfGroup
    <3>3. DigitOf(bs, len + 1) = (b % 16) * 4 + 0 \div 64
      BY <2>1, <2>2, <3>2 DEF b
    <3> QED
      BY <1>5, <3>3
  <2>4. ShiftRight(w, vb + 8) = w \div 64
    BY <1>4, <1>7, ShiftRights
  <2>5. v % 16 = b % 16
    BY <1>7 DEF Holds, L, b
  <2>6. (w \div 64) % 64 = (v % 16) * 4
    BY <1>4
  <2> QED
    BY <2>1, <2>3, <2>4, <2>5, <2>6 DEF w, L
<1> QED
  BY <1>6, <1>7

\* The digits ds are those of the bytes bs.
Encodes(ds, bs) ==
  /\ ds \in Seq(Digit)
  /\ Len(ds) = (4 * Len(bs) + 2) \div 3
  /\ \A j \in 1..Len(ds) : ds[j] = DigitOf(bs, j)

LEMMA BytesBack ==
  ASSUME NEW bs \in Seq(Byte), NEW ds, Encodes(ds, bs)
  PROVE  /\ (3 * Len(ds)) \div 4 = Len(bs)
         /\ \A nth \in 1..Len(bs) : ByteOf(ds, nth) = bs[nth]
<1>1. Len(bs) \in Nat /\ Len(ds) \in Nat
  BY DEF Encodes
<1>2. (3 * Len(ds)) \div 4 = Len(bs)
  <2> DEFINE q == Len(bs) \div 3
             r == Len(bs) % 3
  <2>1. q \in Nat /\ r \in 0..2 /\ Len(bs) = 3 * q + r
    BY <1>1
  <2> HIDE DEF q, r
  <2>2. CASE r = 0
    BY <2>1, <2>2 DEF Encodes
  <2>3. CASE r = 1
    BY <2>1, <2>3 DEF Encodes
  <2>4. CASE r = 2
    BY <2>1, <2>4 DEF Encodes
  <2> QED
    BY <2>1, <2>2, <2>3, <2>4
<1>3. ASSUME NEW nth \in 1..Len(bs) PROVE ByteOf(ds, nth) = bs[nth]
  <2> DEFINE q == (nth - 1) \div 3
             r == (nth - 1) % 3
  <2>1. q \in Nat /\ r \in 0..2 /\ nth = 3 * q + r + 1
    BY <1>1
  <2>2. /\ 4 * q + 1 \in 1..Len(ds) /\ 4 * q + 1 + 1 \in 1..Len(ds)
        /\ r = 1 => 4 * q + 1 + 2 \in 1..Len(ds)
        /\ r \notin {0, 1} => 4 * q + 1 + 2 \in 1..Len(ds) /\ 4 * q + 1 + 3 \in 1..Len(ds)
    BY <1>1, <1>2, ByteIndices
  <2>3. ByteOf(ds, nth) =
          IF r = 0 THEN ds[4 * q + 1] * 4 + ds[4 * q + 1 + 1] \div 16
          ELSE IF r = 1 THEN (ds[4 * q + 1 + 1] % 16) * 16 + ds[4 * q + 1 + 2] \div 4
          ELSE (ds[4 * q + 1 + 2] % 4) * 64 + ds[4 * q + 1 + 3]
    BY DEF ByteOf
  <2> HIDE DEF q, r
  <2> DEFINE b1 == ByteAt(bs, 3 * q + 1)
             b2 == ByteAt(bs, 3 * q + 1 + 1)
             b3 == ByteAt(bs, 3 * q + 1 + 2)
  <2>4. b1 \in 0..255 /\ b2 \in 0..255 /\ b3 \in 0..255
    BY <2>1, ByteAtType DEF Byte
  <2>5. /\ ds[4 * q + 1] = b1 \div 4
        /\ ds[4 * q + 1 + 1] = (b1 % 4) * 16 + b2 \div 16
    BY <2>1, <2>2, DigitsOfGroup DEF Encodes
  <2>6. r # 0 => ds[4 * q + 1 + 2] = (b2 % 16) * 4 + b3 \div 64
    BY <2>1, <2>2, DigitsOfGroup DEF Encodes
  <2>7. r \notin {0, 1} => ds[4 * q + 1 + 3] = b3 % 64
    BY <2>1, <2>2, DigitsOfGroup DEF Encodes
  <2> HIDE DEF b1, b2, b3
  <2>8. CASE r = 0
    <3>1. ByteOf(ds, nth) = b1
      BY <2>3, <2>4, <2>5, <2>8
    <3> QED
      BY <2>1, <2>8, <3>1 DEF b1, ByteAt
  <2>9. CASE r = 1
    <3>1. ByteOf(ds, nth) = b2
      <4>1. ((b1 % 4) * 16 + b2 \div 16) % 16 = b2 \div 16
        BY <2>4
      <4>2. ((b2 % 16) * 4 + b3 \div 64) \div 4 = b2 % 16
        BY <2>4
      <4>3. PICK high, low : high = b2 \div 16 /\ low = b2 % 16
        OBVIOUS
      <4>4. high * 16 + low = b2
        BY <2>4, <4>3
      <4> QED
        BY <2>3, <2>5, <2>6, <2>9, <4>1, <4>2, <4>3, <4>4
    <3> QED
      BY <2>1, <2>9, <3>1 DEF b2, ByteAt
  <2>10. CASE r = 2
    <3>1. ByteOf(ds, nth) = b3
      <4>1. ((b2 % 16) * 4 + b3 \div 64) % 4 = b3 \div 64
        BY <2>4
      <4>2. PICK high, low : high = b3 \div 64 /\ low = b3 % 64
        OBVIOUS
      <4>3. high * 64 + low = b3
        BY <2>4, <4>2
      <4> QED
        BY <2>3, <2>6, <2>7, <2>10, <4>1, <4>2, <4>3
    <3> QED
      BY <2>1, <2>10, <3>1 DEF b3, ByteAt
  <2> QED
    BY <2>1, <2>8, <2>9, <2>10
<1> QED
  BY <1>2, <1>3

\* p - 1 bytes have been absorbed, and their digits are out or held.
Encoding ==
  /\ p - 1 <= Len(bytes)
  /\ Balance(Len(out), valb, p - 1)
  /\ Holds(valb, val, ByteAt(bytes, p - 2), ByteAt(bytes, p - 1))
  /\ \A j \in 1..Len(out) : out[j] = DigitOf(bytes, j)

\* The encoded text is read digit by digit.
Reencoded ==
  /\ Encodes(text, bytes)
  /\ p <= Len(text) + 1 /\ Len(digits) = p - 1
  /\ \A j \in 1..Len(digits) : digits[j] = text[j]
  /\ phase = "decoded" => p = Len(text) + 1

EncodeInv ==
  /\ phase = "encoding" => Encoding
  /\ phase # "encoding" /\ bytes # <<>> => Reencoded

LEMMA EncodeInvAbsorb ==
  ASSUME TypeInv, EncodeInv, AbsorbByte
  PROVE  EncodeInv'
<1>1. /\ bytes \in Seq(Byte) /\ p \in Nat \ {0} /\ p <= Len(bytes) /\ valb \in {-6, -4, -2}
      /\ val \in Nat /\ bytes[p] \in Byte /\ out \in Seq(Byte)
  BY WidthAssumption DEF TypeInv, TypeOK, AbsorbByte
<1>2. /\ val' = ShiftIn(val, 8, bytes[p]) /\ valb' = valb + 8 /\ p' = p + 1
      /\ phase' = "encoding" /\ phase = "encoding" /\ bytes' = bytes /\ out' = out
  BY DEF AbsorbByte
<1>3. val' \in Nat /\ Absorbed(val, val', bytes[p])
  <2>1. val \in Nat /\ bytes[p] \in Byte
    BY <1>1
  <2>2. ShiftIn(val, 8, bytes[p]) \in 0..(Modulus - 1)
    BY <2>1, ShiftInByte
  <2>3. ShiftIn(val, 8, bytes[p]) % 4096 = (val % 16) * 256 + bytes[p]
    BY <2>1, ShiftInByte
  <2> QED
    BY <1>2, <2>2, <2>3, WidthAssumption DEF Absorbed
<1>4. Encoding
  BY <1>2 DEF EncodeInv
<1>5. ByteAt(bytes, p - 2) \in Byte /\ ByteAt(bytes, p - 1) \in Byte
  BY <1>1, ByteAtType
<1>6. Holds(valb + 8, val', ByteAt(bytes, p - 1), bytes[p])
  BY <1>1, <1>3, <1>4, <1>5, AbsorbHolds DEF Encoding
<1>7. ByteAt(bytes, p' - 1) = bytes[p] /\ ByteAt(bytes, p' - 2) = ByteAt(bytes, p - 1)
  <2>1. p' - 1 = p /\ p' - 2 = p - 1
    BY <1>1, <1>2
  <2> QED
    BY <1>1, <2>1 DEF ByteAt
<1>8. p' - 1 <= Len(bytes) /\ Balance(Len(out), valb', p' - 1)
  <2>1. Len(out) \in Nat /\ Len(bytes) \in Nat
    BY <1>1
  <2>2. 6 * Len(out) + valb + 6 = 8 * (p - 1)
    BY <1>4 DEF Encoding, Balance
  <2>3. 6 * Len(out) + (valb + 8) + 6 = 8 * ((p + 1) - 1)
    BY <1>1, <2>1, <2>2
  <2>4. (p + 1) - 1 <= Len(bytes)
    BY <1>1, <2>1
  <2> QED
    BY <1>2, <2>3, <2>4 DEF Balance
<1>9. Encoding'
  BY <1>2, <1>4, <1>6, <1>7, <1>8 DEF Encoding
<1> QED
  BY <1>2, <1>9 DEF EncodeInv

LEMMA EncodeInvEmit ==
  ASSUME TypeInv, EncodeInv, EmitDigit
  PROVE  EncodeInv'
<1>1. /\ bytes \in Seq(Byte) /\ p \in Nat \ {0} /\ valb \in {0, 2, 4, 6} /\ val \in Nat
      /\ out \in Seq(Byte)
  BY WidthAssumption DEF TypeInv, TypeOK, EmitDigit
<1>2. /\ out' = Append(out, ShiftRight(val, valb) % 64) /\ valb' = valb - 6
      /\ p' = p /\ val' = val /\ bytes' = bytes /\ phase = "encoding" /\ phase' = "encoding"
  BY DEF EmitDigit
<1>3. Encoding
  BY <1>2 DEF EncodeInv
<1>4. ByteAt(bytes, p - 2) \in Byte /\ ByteAt(bytes, p - 1) \in Byte
  BY <1>1, ByteAtType
<1> DEFINE a == ByteAt(bytes, p - 2)
           b == ByteAt(bytes, p - 1)
<1>5. Holds(valb - 6, val, a, b) /\ ShiftRight(val, valb) % 64 = Group(valb, a, b)
  BY <1>1, <1>3, <1>4, EmitHolds DEF Encoding
<1>6. DigitOf(bytes, Len(out) + 1) = Group(valb, a, b)
  <2>1. p - 1 \in 0..Len(bytes) /\ Len(out) \in Nat /\ (p - 1) - 1 = p - 2
    BY <1>1, <1>3 DEF Encoding
  <2>2. Balance(Len(out), valb, p - 1)
    BY <1>3 DEF Encoding
  <2> QED
    BY <1>1, <2>1, <2>2, NextDigit
<1> HIDE DEF a, b
<1>7. Len(out') = Len(out) + 1 /\ Len(out) \in Nat
  BY <1>1, <1>2
<1>8. ASSUME NEW j \in 1..Len(out') PROVE out'[j] = DigitOf(bytes, j)
  <2>1. CASE j = Len(out) + 1
    BY <1>1, <1>2, <1>5, <1>6, <2>1
  <2>2. CASE j \in 1..Len(out)
    BY <1>1, <1>2, <1>3, <2>2 DEF Encoding
  <2> QED
    BY <1>7, <2>1, <2>2
<1>9. Balance(Len(out'), valb', p - 1)
  BY <1>1, <1>2, <1>3, <1>7 DEF Encoding, Balance
<1>10. Encoding'
  BY <1>2, <1>3, <1>5, <1>8, <1>9 DEF Encoding, a, b
<1> QED
  BY <1>2, <1>10 DEF EncodeInv

LEMMA EncodeInvEnd ==
  ASSUME TypeInv, EncodeInv, DecodeInv, EndEncoding
  PROVE  EncodeInv'
<1>1. /\ bytes \in Seq(Byte) /\ p \in Nat \ {0} /\ valb \in {-6, -4, -2} /\ val \in Nat
      /\ out \in Seq(Digit) /\ Len(out) \in Nat /\ Len(bytes) \in Nat
  BY WidthAssumption DEF TypeInv, TypeOK, EndEncoding
<1>2. /\ text' = IF valb > -6 THEN Append(out, LastDigit) ELSE out
      /\ phase' = "decoding" /\ phase = "encoding" /\ p' = 1
      /\ bytes' = bytes /\ digits' = digits
  BY DEF EndEncoding, StartDecoding
<1>3. Encoding /\ digits = <<>>
  BY <1>2 DEF EncodeInv, DecodeInv
<1>4. p - 1 = Len(bytes)
  BY <1>1, <1>3 DEF Encoding, EndEncoding
<1>5. Balance(Len(out), valb, Len(bytes))
  BY <1>3, <1>4 DEF Encoding
<1>6. Encodes(text', bytes)
  <2>1. CASE valb = -6
    <3>1. text' = out
      BY <1>2, <2>1
    <3>2. Len(out) = (4 * Len(bytes) + 2) \div 3
      <4> DEFINE q == Len(bytes) \div 3
                 r == Len(bytes) % 3
      <4>1. q \in Nat /\ r \in 0..2 /\ Len(bytes) = 3 * q + r
        BY <1>1
      <4>2. 6 * Len(out) = 8 * Len(bytes)
        BY <1>1, <1>5, <2>1 DEF Balance
      <4> HIDE DEF q, r
      <4>3. r = 0 /\ Len(out) = 4 * q
        BY <1>1, <4>1, <4>2
      <4> QED
        BY <4>1, <4>3
    <3> QED
      BY <1>1, <1>3, <3>1, <3>2 DEF Encodes, Encoding
  <2>2. CASE valb \in {-4, -2}
    <3>1. text' = Append(out, LastDigit)
      BY <1>2, <2>2
    <3>2. /\ ByteAt(bytes, p - 2) \in Byte
          /\ Holds(valb, val, ByteAt(bytes, p - 2), ByteAt(bytes, Len(bytes)))
      BY <1>1, <1>3, <1>4, ByteAtType DEF Encoding
    <3>3. /\ ShiftRight(ShiftIn(val, 8, 0), valb + 8) % 64 = DigitOf(bytes, Len(out) + 1)
          /\ Len(out) + 1 = (4 * Len(bytes) + 2) \div 3
      BY <1>1, <1>5, <2>2, <3>2, EndDigit
    <3>4. LastDigit = DigitOf(bytes, Len(out) + 1)
      BY <3>3 DEF LastDigit
    <3>5. LastDigit \in Digit
      <4>1. ShiftIn(val, 8, 0) \in Nat
        <5>1. val \in Nat /\ 0 \in Byte
          BY <1>1 DEF Byte
        <5>2. ShiftIn(val, 8, 0) \in 0..(Modulus - 1)
          BY <5>1, ShiftInByte DEF Byte
        <5> QED
          BY <5>2, WidthAssumption
      <4>2. valb + 8 \in {4, 6}
        BY <2>2
      <4>3. ShiftRight(ShiftIn(val, 8, 0), valb + 8) \in Nat
        BY <4>1, <4>2, ShiftRights
      <4> QED
        BY <4>3 DEF LastDigit, Digit
    <3>6. text' \in Seq(Digit) /\ Len(text') = Len(out) + 1
      BY <1>1, <3>1, <3>5
    <3>7. ASSUME NEW j \in 1..Len(text') PROVE text'[j] = DigitOf(bytes, j)
      <4>1. CASE j = Len(out) + 1
        BY <1>1, <3>1, <3>4, <4>1
      <4>2. CASE j \in 1..Len(out)
        BY <1>1, <1>3, <3>1, <4>2 DEF Encoding
      <4> QED
        BY <1>1, <3>6, <4>1, <4>2
    <3> QED
      BY <3>3, <3>6, <3>7 DEF Encodes
  <2> QED
    BY <1>1, <2>1, <2>2
<1>7. Reencoded'
  <2>1. Len(text') \in Nat
    BY <1>6 DEF Encodes
  <2> QED
    BY <1>2, <1>3, <1>6, <2>1 DEF Reencoded
<1> QED
  BY <1>2, <1>7 DEF EncodeInv

LEMMA EncodeInvHolds == Spec => []EncodeInv
<1>1. Init => EncodeInv
  <2> SUFFICES ASSUME Init PROVE EncodeInv
    OBVIOUS
  <2>1. phase = "encoding" => bytes \in Seq(Byte)
    BY InputsAssumption DEF Init
  <2> QED
    BY <2>1 DEF Init, EncodeInv, Encoding, Balance, Holds
<1>2. TypeInv /\ DecodeInv /\ EncodeInv /\ [Next]_vars => EncodeInv'
  <2> SUFFICES ASSUME TypeInv, DecodeInv, EncodeInv, [Next]_vars PROVE EncodeInv'
    OBVIOUS
  <2>1. CASE AbsorbByte
    BY <2>1, EncodeInvAbsorb
  <2>2. CASE EmitDigit
    BY <2>2, EncodeInvEmit
  <2>3. CASE EndEncoding
    BY <2>3, EncodeInvEnd
  <2>4. CASE TakeDigit
    <3>1. /\ text[p] \in Digit /\ phase = "decoding" /\ p <= Len(text)
          /\ p \in Nat \ {0} /\ digits \in Seq(Digit)
          /\ text' = text /\ bytes' = bytes /\ phase' = phase /\ p' = p + 1
          /\ digits' = Append(digits, text[p])
      BY <2>4, Taken DEF TakeDigit, TypeInv, TypeOK
    <3>2. ASSUME bytes # <<>> PROVE Reencoded'
      <4>1. Reencoded
        BY <3>1, <3>2 DEF EncodeInv
      <4>2. Len(text) \in Nat /\ Len(digits') = Len(digits) + 1
        BY <3>1, <4>1 DEF Reencoded, Encodes
      <4>3. ASSUME NEW j \in 1..Len(digits') PROVE digits'[j] = text[j]
        <5>1. CASE j = Len(digits) + 1
          BY <3>1, <4>1, <5>1 DEF Reencoded
        <5>2. CASE j \in 1..Len(digits)
          BY <3>1, <4>1, <5>2 DEF Reencoded
        <5> QED
          BY <3>1, <4>2, <5>1, <5>2
      <4> QED
        BY <3>1, <4>1, <4>2, <4>3 DEF Reencoded
    <3> QED
      BY <3>1, <3>2 DEF EncodeInv
  <2>5. CASE SkipPad
    <3>1. ASSUME bytes # <<>> PROVE FALSE
      <4>1. Reencoded /\ p \in Nat \ {0} /\ p <= Len(text) /\ text[p] = Pad
        BY <2>5, <3>1 DEF SkipPad, Reading, EncodeInv, TypeInv, TypeOK
      <4>2. text[p] \in Digit
        BY <4>1 DEF Reencoded, Encodes
      <4> QED
        BY <4>1, <4>2, SymbolAssumption
    <3> QED
      BY <2>5, <3>1 DEF SkipPad, Reading, EncodeInv
  <2>6. CASE Fail
    BY <2>6 DEF Fail, Reading, EncodeInv, Reencoded
  <2>7. CASE EndDecoding
    BY <2>7 DEF EndDecoding, EncodeInv, Reencoded, Encodes, TypeInv, TypeOK
  <2>8. CASE UNCHANGED vars
    BY <2>8 DEF vars, EncodeInv, Encoding, Reencoded
  <2> QED
    BY <2>1, <2>2, <2>3, <2>4, <2>5, <2>6, <2>7, <2>8 DEF Next
<1> QED
  BY <1>1, <1>2, TypeInvHolds, DecodeInvHolds, PTL DEF Spec

\* For all bytes and every width of the register: what the encoder writes, the
\* decoder reads back.
THEOREM RoundTripHolds == Spec => []RoundTrip
<1>1. TypeInv /\ DecodeInv /\ EncodeInv => RoundTrip
  <2> SUFFICES ASSUME TypeInv, DecodeInv, EncodeInv, phase = "decoded", bytes # <<>>
               PROVE  out = bytes
    BY DEF RoundTrip
  <2>1. /\ bytes \in Seq(Byte) /\ out \in Seq(Byte) /\ digits \in Seq(Digit)
        /\ text \in Seq(Digit \cup {Pad, Foreign}) /\ p \in Nat
    BY DEF TypeInv, TypeOK
  <2>2. Reencoded /\ Decoding
    BY DEF EncodeInv, DecodeInv
  <2>3. digits = text
    <3>1. Len(digits) = Len(text) /\ text \in Seq(Digit)
      BY <2>1, <2>2 DEF Reencoded, Encodes
    <3>2. \A j \in 1..Len(digits) : digits[j] = text[j]
      BY <2>2 DEF Reencoded
    <3> QED
      BY <2>1, <3>1, <3>2
  <2>4. Encodes(digits, bytes)
    BY <2>2, <2>3 DEF Reencoded
  <2>5. Len(out) = Len(bytes)
    BY <2>1, <2>2, <2>4, BytesBack DEF Decoding
  <2>6. \A nth \in 1..Len(out) : out[nth] = bytes[nth]
    BY <2>1, <2>2, <2>4, <2>5, BytesBack DEF Decoding
  <2> QED
    BY <2>1, <2>5, <2>6
<1> QED
  BY <1>1, TypeInvHolds, DecodeInvHolds, EncodeInvHolds, PTL
----
(***************************************************************************)
(* The blocks of SHA-256.                                                  *)
(***************************************************************************)
Symbol ==
  {EndMark, Zero, Uninitialised}
    \cup {MessageByte(n) : n \in Nat}
    \cup {LengthByte(shift, bits) : shift \in Nat, bits \in Nat}

LEMMA Symbols ==
  /\ EndMark \in Symbol /\ Zero \in Symbol /\ Uninitialised \in Symbol
  /\ \A n \in Nat : MessageByte(n) \in Symbol
  /\ \A shift \in Nat, bits \in Nat : LengthByte(shift, bits) \in Symbol
BY DEF Symbol

LEMMA SymbolsConcat ==
  \A s, t \in Seq(Symbol) :
    /\ Len(s \o t) = Len(s) + Len(t)
    /\ \A j \in 1..(Len(s) + Len(t)) : (s \o t)[j] = IF j <= Len(s) THEN s[j] ELSE t[j - Len(s)]
BY ConcatProperties

BlocksTypeInv ==
  /\ BlocksTypeOK
  /\ length \in Nat
  /\ data \in [1..Block -> Symbol]
  /\ msg \in Seq(Symbol)
  /\ fed \in Seq([1..Block -> Symbol])
  /\ library = "C" => stage \in {"absorbing", "done"}
  /\ stage = "compressing" => Len(msg) % Block = 0

\* What sha256_update has put in the blocks and in the buffer.
Absorbing ==
  /\ taken <= length
  /\ taken = Block * Len(fed) + datalen
  /\ bitlen = 8 * Block * Len(fed)
  /\ \A b \in 1..Len(fed), j \in 1..Block : fed[b][j] = MessageByte((b - 1) * Block + j - 1)
  /\ \A j \in 1..datalen : data[j] = MessageByte(Block * Len(fed) + j - 1)

\* Byte x of a message with its end mark and zeros behind it.
Expanded(x) ==
  IF x < length THEN MessageByte(x) ELSE IF x = length THEN EndMark ELSE Zero

Padding ==
  /\ fed = <<>>
  /\ length < Len(msg) /\ Len(msg) <= BlockCount * Block - 8
  /\ \A j \in 1..Len(msg) : msg[j] = Expanded(j - 1)

FedSoFar ==
  \A b \in 1..Len(fed), j \in 1..Block : fed[b][j] = Padded((b - 1) * Block + j - 1)

Compressing ==
  /\ Len(msg) = BlockCount * Block
  /\ \A j \in 1..Len(msg) : msg[j] = Padded(j - 1)
  /\ Len(fed) <= BlockCount
  /\ FedSoFar

BlocksInv ==
  /\ stage = "absorbing" =>
       IF library = "C" THEN Absorbing ELSE fed = <<>>
  /\ stage = "padding" => Padding
  /\ stage = "compressing" => Compressing
  /\ stage = "done" => Len(fed) = BlockCount /\ FedSoFar

LEMMA BlocksTypeInvHolds ==
  BlocksSpec => []BlocksTypeInv
<1>1. BlocksInit => BlocksTypeInv
  <2> SUFFICES ASSUME BlocksInit PROVE BlocksTypeInv
    OBVIOUS
  <2>1. data \in [1..Block -> Symbol]
    BY Symbols DEF BlocksInit
  <2> QED
    BY <2>1, LengthAssumption DEF BlocksInit, BlocksTypeInv, BlocksTypeOK, Block
<1>2. BlocksTypeInv /\ [BlocksNext]_blocksVars => BlocksTypeInv'
  <2> SUFFICES ASSUME BlocksTypeInv, [BlocksNext]_blocksVars PROVE BlocksTypeInv'
    OBVIOUS
  <2>1. CASE UpdateByte
    <3> DEFINE filled == [data EXCEPT ![datalen + 1] = MessageByte(taken)]
    <3>1. MessageByte(taken) \in Symbol
      BY Symbols DEF BlocksTypeInv, BlocksTypeOK
    <3>2. filled \in [1..Block -> Symbol]
      BY <3>1 DEF BlocksTypeInv
    <3>3. fed' \in Seq([1..Block -> Symbol])
      <4>1. fed' = fed \/ fed' = Append(fed, filled)
        BY <2>1 DEF UpdateByte
      <4>2. fed \in Seq([1..Block -> Symbol])
        BY DEF BlocksTypeInv
      <4> HIDE DEF filled
      <4>3. Append(fed, filled) \in Seq([1..Block -> Symbol])
        BY <3>2, <4>2
      <4> QED
        BY <4>1, <4>2, <4>3
    <3>4. data' \in [1..Block -> Symbol]
      BY <2>1, <3>2 DEF UpdateByte
    <3>5. datalen' \in 0..(Block - 1) /\ bitlen' \in Nat /\ taken' \in 0..length'
      <4>1. /\ datalen \in 0..63 /\ bitlen \in Nat /\ taken \in 0..length /\ length \in Nat
            /\ taken < length /\ length' = length /\ taken' = taken + 1
        BY <2>1 DEF UpdateByte, BlocksTypeInv, BlocksTypeOK, Block
      <4>2. \/ datalen + 1 = 64 /\ datalen' = 0 /\ bitlen' = bitlen + 512
            \/ datalen + 1 # 64 /\ datalen' = datalen + 1 /\ bitlen' = bitlen
        BY <2>1 DEF UpdateByte, Block
      <4> QED
        BY <4>1, <4>2 DEF Block
    <3>6. \A b \in DOMAIN fed' : DOMAIN fed'[b] = 1..Block
      BY <3>3
    <3> QED
      BY <2>1, <3>3, <3>4, <3>5, <3>6 DEF UpdateByte, BlocksTypeInv, BlocksTypeOK
  <2>2. CASE Final
    <3>1. bitlen' \in Nat
      <4>1. bitlen \in Nat /\ datalen \in 0..63 /\ bitlen' = bitlen + datalen * 8
        BY <2>2 DEF Final, BlocksTypeInv, BlocksTypeOK, Block
      <4> QED
        BY <4>1
    <3>2. [j \in 1..Block |-> Kept(j)] \in [1..Block -> Symbol]
      BY Symbols DEF Kept, BlocksTypeInv
    <3>3. Last(bitlen') \in [1..Block -> Symbol]
      <4>1. \A j \in 1..Block : Block - j \in Nat
        BY DEF Block
      <4> QED
        BY <3>1, <3>2, <4>1, Symbols DEF Last
    <3>4. fed' \in Seq([1..Block -> Symbol])
      <4> DEFINE kept == [j \in 1..Block |-> Kept(j)]
                 last == Last(bitlen')
      <4>1. fed' = fed \o <<kept, last>> \/ fed' = Append(fed, last)
        BY <2>2 DEF Final
      <4>2. fed \in Seq([1..Block -> Symbol])
        BY DEF BlocksTypeInv
      <4>3. kept \in [1..Block -> Symbol] /\ last \in [1..Block -> Symbol]
        BY <3>2, <3>3
      <4> HIDE DEF kept, last
      <4>4. /\ fed \o <<kept, last>> \in Seq([1..Block -> Symbol])
            /\ Append(fed, last) \in Seq([1..Block -> Symbol])
        BY <4>2, <4>3
      <4> QED
        BY <4>1, <4>4
    <3>5. \A b \in DOMAIN fed' : DOMAIN fed'[b] = 1..Block
      BY <3>4
    <3> QED
      BY <2>2, <3>1, <3>3, <3>4, <3>5 DEF Final, BlocksTypeInv, BlocksTypeOK
  <2>3. CASE CopyMessage
    <3>1. [j \in 1..length |-> MessageByte(j - 1)] \in Seq(Symbol)
      BY Symbols DEF BlocksTypeInv
    <3>2. msg' \in Seq(Symbol)
      BY <2>3, <3>1, Symbols DEF CopyMessage
    <3> QED
      BY <2>3, <3>2 DEF CopyMessage, buffer, BlocksTypeInv, BlocksTypeOK
  <2>4. CASE PushZero
    BY <2>4, Symbols DEF PushZero, buffer, BlocksTypeInv, BlocksTypeOK
  <2>5. CASE PushLength
    <3>1. [j \in 1..8 |-> LengthByte(8 - j, length * 8)] \in Seq(Symbol)
      BY Symbols DEF BlocksTypeInv
    <3>2. msg' \in Seq(Symbol)
      BY <2>5, <3>1 DEF PushLength, BlocksTypeInv
    <3>3. Len(msg') % Block = 0
      <4>1. Len(msg') = Len(msg) + 8 /\ Len(msg) \in Nat /\ Len(msg) % 64 = 56
        <5> DEFINE eight == [j \in 1..8 |-> LengthByte(8 - j, length * 8)]
        <5>1. eight \in Seq(Symbol) /\ Len(eight) = 8
          BY <3>1
        <5>2. msg \in Seq(Symbol) /\ msg' = msg \o eight /\ Len(msg) % 64 = 56
          BY <2>5 DEF PushLength, BlocksTypeInv, Block
        <5> HIDE DEF eight
        <5>3. Len(msg \o eight) = Len(msg) + Len(eight)
          BY <5>1, <5>2, SymbolsConcat
        <5> QED
          BY <5>1, <5>2, <5>3
      <4> QED
        BY <4>1 DEF Block
    <3> QED
      BY <2>5, <3>2, <3>3 DEF PushLength, buffer, BlocksTypeInv, BlocksTypeOK
  <2>6. CASE CompressNext
    <3> DEFINE next == [j \in 1..Block |-> msg[Len(fed) * Block + j]]
    <3>1. /\ msg \in Seq(Symbol) /\ fed \in Seq([1..Block -> Symbol])
          /\ Len(msg) % 64 = 0 /\ Len(fed) * 64 < Len(msg)
      BY <2>6 DEF CompressNext, BlocksTypeInv, Block
    <3>2. Len(fed) * 64 + 64 <= Len(msg)
      <4> DEFINE m == Len(msg) \div 64
                 r == Len(msg) % 64
      <4>1. m \in Nat /\ r = 0 /\ Len(msg) = 64 * m + r /\ Len(fed) \in Nat
        BY <3>1
      <4> HIDE DEF m, r
      <4> QED
        BY <3>1, <4>1
    <3>3. \A j \in 1..64 : Len(fed) * 64 + j \in 1..Len(msg)
      BY <3>1, <3>2
    <3>4. next \in [1..Block -> Symbol]
      <4>1. ASSUME NEW j \in 1..Block
            PROVE  msg[Len(fed) * Block + j] \in Symbol
        <5>1. PICK x \in 1..Len(msg) : x = Len(fed) * Block + j
          BY <3>3 DEF Block
        <5>2. msg[x] \in Symbol
          BY <3>1
        <5> QED
          BY <5>1, <5>2
      <4> QED
        BY <4>1
    <3>5. fed' = Append(fed, next)
      BY <2>6 DEF CompressNext
    <3> HIDE DEF next
    <3>6. fed' \in Seq([1..Block -> Symbol])
      BY <3>1, <3>4, <3>5
    <3>7. \A b \in DOMAIN fed' : DOMAIN fed'[b] = 1..Block
      BY <3>6
    <3> QED
      BY <2>6, <3>6, <3>7 DEF CompressNext, buffer, BlocksTypeInv, BlocksTypeOK
  <2>7. CASE Compressed
    BY <2>7 DEF Compressed, buffer, BlocksTypeInv, BlocksTypeOK
  <2>8. CASE UNCHANGED blocksVars
    BY <2>8 DEF blocksVars, buffer, BlocksTypeInv, BlocksTypeOK
  <2> QED
    BY <2>1, <2>2, <2>3, <2>4, <2>5, <2>6, <2>7, <2>8 DEF BlocksNext
<1> QED
  BY <1>1, <1>2, PTL DEF BlocksSpec

\* The blocks are as few as hold the message, its end mark and eight bytes.
LEMMA CountBounds ==
  ASSUME length \in Nat
  PROVE  /\ BlockCount \in Nat
         /\ length + 9 <= 64 * BlockCount /\ 64 * BlockCount <= length + 72
<1>1. BlockCount = (length + 72) \div 64
  BY DEF BlockCount, Block
<1>2. (length + 72) \div 64 \in Nat
  OBVIOUS
<1>3. PICK r \in 0..63 : length + 72 = 64 * ((length + 72) \div 64) + r
  OBVIOUS
<1> QED
  BY <1>1, <1>2, <1>3

LEMMA UpdateKeeps ==
  ASSUME BlocksTypeInv, BlocksInv, UpdateByte
  PROVE  BlocksInv'
<1> DEFINE filled == [data EXCEPT ![datalen + 1] = MessageByte(taken)]
           n == Len(fed)
<1>1. /\ datalen \in 0..63 /\ taken \in Nat /\ length \in Nat /\ taken < length
      /\ data \in [1..64 -> Symbol] /\ fed \in Seq([1..64 -> Symbol])
      /\ n \in Nat /\ bitlen \in Nat
  BY DEF UpdateByte, BlocksTypeInv, BlocksTypeOK, Block
<1>2. /\ taken = 64 * n + datalen /\ bitlen = 512 * n
      /\ \A b \in 1..n, j \in 1..64 : fed[b][j] = MessageByte((b - 1) * 64 + j - 1)
      /\ \A j \in 1..datalen : data[j] = MessageByte(64 * n + j - 1)
  BY DEF BlocksInv, UpdateByte, Absorbing, Block
<1> HIDE DEF n
<1>3. \A j \in 1..(datalen + 1) : filled[j] = MessageByte(64 * n + j - 1)
  <2> SUFFICES ASSUME NEW j \in 1..(datalen + 1)
               PROVE  filled[j] = MessageByte(64 * n + j - 1)
    OBVIOUS
  <2>1. CASE j = datalen + 1
    <3>1. 64 * n + j - 1 = taken
      BY <1>1, <1>2, <2>1
    <3>2. filled[j] = MessageByte(taken)
      <4>1. datalen + 1 \in 1..64 /\ data \in [1..64 -> Symbol]
        BY <1>1
      <4> QED
        BY <2>1, <4>1
    <3> QED
      BY <3>1, <3>2
  <2>2. CASE j # datalen + 1
    <3>1. j \in 1..datalen /\ j \in 1..64
      <4>1. datalen \in 0..63
        BY <1>1
      <4> QED
        BY <2>2, <4>1
    <3>2. filled[j] = data[j]
      BY <1>1, <2>2, <3>1
    <3> QED
      BY <1>2, <3>1, <3>2
  <2> QED
    BY <2>1, <2>2
<1>4. /\ taken' = taken + 1 /\ data' = filled /\ length' = length
      /\ stage = "absorbing" /\ stage' = "absorbing" /\ library' = "C"
  BY DEF UpdateByte
<1> HIDE DEF filled
<1>5. CASE datalen + 1 = 64
  <2>1. datalen' = 0 /\ fed' = Append(fed, filled) /\ bitlen' = bitlen + 512
    BY <1>5 DEF UpdateByte, Block, filled
  <2>2. filled \in [1..64 -> Symbol]
    BY <1>1, Symbols DEF filled
  <2>3. Len(fed') = n + 1 /\ fed'[n + 1] = filled /\ \A b \in 1..n : fed'[b] = fed[b]
    BY <1>1, <2>1, <2>2 DEF n
  <2>4. ASSUME NEW b \in 1..(n + 1), NEW j \in 1..64
        PROVE  fed'[b][j] = MessageByte((b - 1) * 64 + j - 1)
    <3>1. CASE b = n + 1
      <4>1. (b - 1) * 64 + j - 1 = 64 * n + j - 1
        BY <1>1, <3>1
      <4>2. filled[j] = MessageByte(64 * n + j - 1)
        BY <1>3, <1>5
      <4> QED
        BY <2>3, <3>1, <4>1, <4>2
    <3>2. CASE b \in 1..n
      BY <1>2, <2>3, <3>2
    <3> QED
      BY <1>1, <3>1, <3>2
  <2>5. taken' <= length' /\ taken' = 64 * (n + 1) + 0 /\ bitlen' = 512 * (n + 1)
    BY <1>1, <1>2, <1>4, <1>5, <2>1
  <2>6. \A b \in 1..Len(fed'), j \in 1..64 : fed'[b][j] = MessageByte((b - 1) * 64 + j - 1)
    BY <2>3, <2>4
  <2>7. Absorbing'
    <3>1. \A j \in 1..datalen' : data'[j] = MessageByte(64 * Len(fed') + j - 1)
      BY <2>1
    <3>2. taken' = 64 * Len(fed') + datalen' /\ bitlen' = 8 * 64 * Len(fed')
      <4>1. n \in Nat /\ Len(fed') = n + 1 /\ datalen' = 0
        BY <1>1, <2>1, <2>3
      <4> QED
        BY <2>5, <4>1
    <3> QED
      BY <2>5, <2>6, <3>1, <3>2 DEF Absorbing, Block
  <2> QED
    BY <1>4, <2>7 DEF BlocksInv
<1>6. CASE datalen + 1 # 64
  <2>1. datalen' = datalen + 1 /\ fed' = fed /\ bitlen' = bitlen
    BY <1>6 DEF UpdateByte, Block
  <2>2. taken' <= length' /\ taken' = 64 * n + datalen'
    <3>1. /\ taken \in Nat /\ length \in Nat /\ taken < length /\ n \in Nat
          /\ datalen \in Nat /\ taken = 64 * n + datalen
      BY <1>1, <1>2
    <3>2. taken' = taken + 1 /\ length' = length /\ datalen' = datalen + 1
      BY <1>4, <2>1
    <3> QED
      BY <3>1, <3>2
  <2>3. Absorbing'
    BY <1>2, <1>3, <1>4, <2>1, <2>2 DEF Absorbing, Block, n
  <2> QED
    BY <1>4, <2>3 DEF BlocksInv
<1> QED
  BY <1>5, <1>6

\* While the message stays the same, so does its padding.
LEMMA SamePadding ==
  ASSUME length' = length
  PROVE  /\ BlockCount' = BlockCount
         /\ \A x : Padded(x)' = Padded(x)
BY DEF BlockCount, Padded, Block

LEMMA FinalKeeps ==
  ASSUME BlocksTypeInv, BlocksInv, Final
  PROVE  BlocksInv'
<1> DEFINE n == Len(fed)
           kept == [j \in 1..64 |-> Kept(j)]
           last == Last(bitlen')
<1>1. /\ datalen \in 0..63 /\ length \in Nat /\ n \in Nat
      /\ fed \in Seq([1..64 -> Symbol])
  BY DEF BlocksTypeInv, BlocksTypeOK, Block
<1>2. /\ length = 64 * n + datalen
      /\ bitlen = 512 * n
      /\ \A b \in 1..n, j \in 1..64 : fed[b][j] = MessageByte((b - 1) * 64 + j - 1)
      /\ \A j \in 1..datalen : data[j] = MessageByte(64 * n + j - 1)
  BY DEF BlocksInv, Final, Absorbing, Block
<1>3. bitlen' = length * 8
  <2>1. bitlen' = bitlen + datalen * 8
    BY DEF Final
  <2> QED
    BY <1>1, <1>2, <2>1
<1>4. BlockCount \in Nat /\ length + 9 <= 64 * BlockCount /\ 64 * BlockCount <= length + 72
  BY <1>1, CountBounds
<1>5. length' = length /\ stage' = "done"
  BY DEF Final
<1>6. SUFFICES /\ Len(fed') = BlockCount
               /\ \A b \in 1..BlockCount, j \in 1..64 : fed'[b][j] = Padded((b - 1) * 64 + j - 1)
  <2>1. BlockCount' = BlockCount /\ \A x : Padded(x)' = Padded(x)
    BY <1>5, SamePadding
  <2>2. SUFFICES (Len(fed) = BlockCount /\ FedSoFar)'
    BY <1>5 DEF BlocksInv
  <2>3. Block = 64
    BY DEF Block
  <2> QED
    BY <2>1, <2>3 DEF FedSoFar
<1> HIDE DEF n
<1>n. /\ datalen \in 0..63 /\ n \in Nat /\ length = 64 * n + datalen
           /\ BlockCount \in Nat /\ length + 9 <= 64 * BlockCount
           /\ 64 * BlockCount <= length + 72
  BY <1>1, <1>2, <1>4
<1>7. kept \in [1..64 -> Symbol] /\ last \in [1..64 -> Symbol]
  <2>1. \A j \in 1..64 : Kept(j) \in Symbol
    BY Symbols DEF Kept, BlocksTypeInv, Block
  <2>2. \A j \in 1..64 : LengthByte(64 - j, bitlen') \in Symbol
    BY <1>1, <1>3, Symbols
  <2> QED
    BY <2>1, <2>2, Symbols DEF Last, Block
<1>8. ASSUME NEW b \in 1..n, NEW j \in 1..64
      PROVE  fed[b][j] = Padded((b - 1) * 64 + j - 1)
  <2>1. (b - 1) * 64 + j - 1 < length
    BY <1>n
  <2> QED
    BY <1>2, <2>1 DEF Padded
<1>9. ASSUME NEW j \in 1..64, 64 * n + j - 1 < BlockCount * 64 - 8
      PROVE  kept[j] = Padded(64 * n + j - 1)
  <2>1. kept[j] = Kept(j)
    OBVIOUS
  <2>2. CASE j <= datalen
    <3>1. Kept(j) = MessageByte(64 * n + j - 1)
      BY <1>1, <1>2, <2>2 DEF Kept
    <3>2. 64 * n + j - 1 < length
      BY <1>1, <1>2, <2>2
    <3> QED
      BY <2>1, <3>1, <3>2 DEF Padded
  <2>3. CASE j = datalen + 1
    <3>1. 64 * n + j - 1 = length
      BY <1>1, <1>2, <2>3
    <3>2. Kept(j) = EndMark
      BY <1>1, <2>3 DEF Kept
    <3> QED
      BY <1>1, <2>1, <3>1, <3>2 DEF Padded
  <2>4. CASE j > datalen + 1
    <3>1. ~(64 * n + j - 1 < length) /\ 64 * n + j - 1 # length
      BY <1>1, <1>2, <2>4
    <3>2. Kept(j) = Zero
      BY <1>1, <2>4 DEF Kept
    <3> QED
      BY <1>9, <2>1, <3>1, <3>2 DEF Padded, Block
  <2> QED
    BY <1>1, <2>2, <2>3, <2>4
<1>10. ASSUME NEW j \in 57..64
       PROVE  last[j] = Padded((BlockCount - 1) * 64 + j - 1)
  <2> DEFINE x == (BlockCount - 1) * 64 + j - 1
  <2>1. last[j] = LengthByte(64 - j, length * 8)
    BY <1>3 DEF Last, Block
  <2>2. /\ ~(x < length) /\ x # length /\ ~(x < BlockCount * 64 - 8)
        /\ BlockCount * 64 - 1 - x = 64 - j
    BY <1>n
  <2> HIDE DEF x
  <2>3. Padded(x) = LengthByte(64 - j, length * 8)
    BY <2>2 DEF Padded, Block
  <2> QED
    BY <2>1, <2>3 DEF x
<1> HIDE DEF last, kept
<1>11. CASE NoRoom
  <2>1. datalen > 55 /\ BlockCount = n + 2
    BY <1>n, <1>11 DEF NoRoom
  <2>2. fed' = fed \o <<kept, last>>
    BY <1>11 DEF Final, kept, last, Block
  <2>3. /\ Len(fed') = n + 2
        /\ \A b \in 1..n : fed'[b] = fed[b]
        /\ fed'[n + 1] = kept /\ fed'[n + 2] = last
    <3>1. /\ fed \in Seq([1..64 -> Symbol]) /\ Len(fed) = n /\ n \in Nat
          /\ kept \in [1..64 -> Symbol] /\ last \in [1..64 -> Symbol]
      BY <1>1, <1>7 DEF n
    <3>2. /\ <<kept, last>> \in Seq([1..64 -> Symbol]) /\ Len(<<kept, last>>) = 2
          /\ <<kept, last>>[1] = kept /\ <<kept, last>>[2] = last
      BY <3>1
    <3>3. /\ Len(fed') = n + 2
          /\ \A b \in 1..(n + 2) : fed'[b] = IF b <= n THEN fed[b] ELSE <<kept, last>>[b - n]
      BY <2>2, <3>1, <3>2, ConcatProperties
    <3>4. n + 1 \in 1..(n + 2) /\ n + 2 \in 1..(n + 2) /\ (n + 1) - n = 1 /\ (n + 2) - n = 2
          /\ ~(n + 1 <= n) /\ ~(n + 2 <= n) /\ \A b \in 1..n : b \in 1..(n + 2) /\ b <= n
      BY <1>n
    <3>5. fed'[n + 1] = <<kept, last>>[(n + 1) - n] /\ fed'[n + 2] = <<kept, last>>[(n + 2) - n]
      BY <3>3, <3>4
    <3>6. fed'[n + 1] = kept /\ fed'[n + 2] = last
      BY <3>2, <3>4, <3>5
    <3> QED
      BY <3>3, <3>4, <3>6
  <2>4. ASSUME NEW j \in 1..64 PROVE kept[j] = Padded(64 * n + j - 1)
    <3>1. 64 * n + j - 1 < BlockCount * 64 - 8
      BY <1>1, <2>1
    <3> QED
      BY <1>9, <3>1
  <2>5. ASSUME NEW j \in 1..56 PROVE last[j] = Padded(64 * (n + 1) + j - 1)
    <3>1. last[j] = Zero
      BY <1>11 DEF last, Last, Block
    <3>2. /\ ~(64 * (n + 1) + j - 1 < length) /\ 64 * (n + 1) + j - 1 # length
          /\ 64 * (n + 1) + j - 1 < BlockCount * 64 - 8
      BY <1>1, <1>2, <2>1
    <3> QED
      BY <3>1, <3>2 DEF Padded, Block
  <2>6. ASSUME NEW b \in 1..BlockCount, NEW j \in 1..64
        PROVE  fed'[b][j] = Padded((b - 1) * 64 + j - 1)
    <3>1. CASE b \in 1..n
      BY <1>8, <2>3, <3>1
    <3>2. CASE b = n + 1
      <4>1. (b - 1) * 64 + j - 1 = 64 * n + j - 1
        BY <1>1, <3>2
      <4> QED
        BY <2>3, <2>4, <3>2, <4>1
    <3>3. CASE b = n + 2
      <4>1. /\ (b - 1) * 64 + j - 1 = 64 * (n + 1) + j - 1
            /\ (b - 1) * 64 + j - 1 = (BlockCount - 1) * 64 + j - 1
            /\ j \in 1..56 \/ j \in 57..64
        BY <1>1, <2>1, <3>3
      <4> QED
        BY <1>10, <2>3, <2>5, <3>3, <4>1
    <3> QED
      BY <1>1, <2>1, <3>1, <3>2, <3>3
  <2> QED
    BY <2>1, <2>3, <2>6
<1>12. CASE ~NoRoom
  <2>1. datalen <= 55 /\ BlockCount = n + 1
    BY <1>n, <1>12 DEF NoRoom
  <2>2. fed' = Append(fed, last)
    BY <1>12 DEF Final, last
  <2>3. /\ Len(fed') = n + 1
        /\ \A b \in 1..n : fed'[b] = fed[b]
        /\ fed'[n + 1] = last
    BY <1>1, <1>7, <2>2 DEF n
  <2>4. ASSUME NEW j \in 1..56 PROVE last[j] = Padded(64 * n + j - 1)
    <3>1. 64 * n + j - 1 < BlockCount * 64 - 8
      BY <1>1, <2>1
    <3>2. last[j] = kept[j]
      BY <1>12 DEF last, kept, Last, Block
    <3> QED
      BY <1>9, <3>1, <3>2
  <2>5. ASSUME NEW b \in 1..BlockCount, NEW j \in 1..64
        PROVE  fed'[b][j] = Padded((b - 1) * 64 + j - 1)
    <3>1. CASE b \in 1..n
      BY <1>8, <2>3, <3>1
    <3>2. CASE b = n + 1
      <4>1. /\ (b - 1) * 64 + j - 1 = 64 * n + j - 1
            /\ (b - 1) * 64 + j - 1 = (BlockCount - 1) * 64 + j - 1
            /\ j \in 1..56 \/ j \in 57..64
        BY <1>1, <2>1, <3>2
      <4> QED
        BY <1>10, <2>3, <2>4, <3>2, <4>1
    <3> QED
      BY <1>1, <2>1, <3>1, <3>2
  <2> QED
    BY <2>1, <2>3, <2>5
<1> QED
  BY <1>11, <1>12

LEMMA CopyKeeps ==
  ASSUME BlocksTypeInv, BlocksInv, CopyMessage
  PROVE  BlocksInv'
<1> DEFINE copy == [j \in 1..length |-> MessageByte(j - 1)]
<1>1. length \in Nat /\ length' = length /\ stage' = "padding" /\ fed' = fed /\ fed = <<>>
  BY DEF BlocksTypeInv, BlocksInv, CopyMessage
<1>2. copy \in Seq(Symbol) /\ Len(copy) = length
  BY <1>1, Symbols
<1>3. \A j \in 1..length : copy[j] = MessageByte(j - 1)
  OBVIOUS
<1>4. msg' = Append(copy, EndMark)
  BY DEF CopyMessage
<1> HIDE DEF copy
<1>5. /\ Len(msg') = length + 1
      /\ \A j \in 1..length : msg'[j] = copy[j]
      /\ msg'[length + 1] = EndMark
  BY <1>1, <1>2, <1>4, Symbols
<1>6. ASSUME NEW j \in 1..(length + 1)
      PROVE  msg'[j] = Expanded(j - 1)
  <2>1. CASE j \in 1..length
    <3>1. j - 1 < length
      BY <1>1, <2>1
    <3> QED
      BY <1>3, <1>5, <2>1, <3>1 DEF Expanded
  <2>2. CASE j = length + 1
    <3>1. j - 1 = length
      BY <1>1, <2>2
    <3> QED
      BY <1>1, <1>5, <2>2, <3>1 DEF Expanded
  <2> QED
    BY <1>1, <2>1, <2>2
<1>7. \A x : Expanded(x)' = Expanded(x)
  BY <1>1 DEF Expanded
<1>8. length < Len(msg') /\ Len(msg') <= BlockCount * 64 - 8
  BY <1>1, <1>5, CountBounds
<1>9. Padding'
  BY <1>1, <1>5, <1>6, <1>7, <1>8, SamePadding DEF Padding, Block
<1> QED
  BY <1>1, <1>9 DEF BlocksInv

LEMMA ZeroKeeps ==
  ASSUME BlocksTypeInv, BlocksInv, PushZero
  PROVE  BlocksInv'
<1> DEFINE n == Len(msg)
<1>1. /\ length \in Nat /\ length' = length /\ stage = "padding" /\ stage' = stage
      /\ fed' = fed /\ msg \in Seq(Symbol) /\ n \in Nat /\ msg' = Append(msg, Zero)
  BY DEF BlocksTypeInv, PushZero
<1>2. /\ fed = <<>> /\ length < n /\ n <= BlockCount * 64 - 8
      /\ \A j \in 1..n : msg[j] = Expanded(j - 1)
  BY <1>1 DEF BlocksInv, Padding, Block
<1>3. n # BlockCount * 64 - 8
  <2>1. n % 64 # 56
    BY DEF PushZero, Block
  <2>2. BlockCount \in Nat /\ BlockCount * 64 >= 9
    BY <1>1, CountBounds
  <2> HIDE DEF n
  <2>3. n = BlockCount * 64 - 8 => n % 64 = 56
    BY <2>2
  <2> QED
    BY <2>1, <2>3
<1> HIDE DEF n
<1>4. Len(msg') = n + 1 /\ (\A j \in 1..n : msg'[j] = msg[j]) /\ msg'[n + 1] = Zero
  BY <1>1, Symbols DEF n
<1>n. n \in Nat /\ length \in Nat /\ length < n
  BY <1>1, <1>2
<1>5. ASSUME NEW j \in 1..(n + 1)
      PROVE  msg'[j] = Expanded(j - 1)
  <2>1. CASE j \in 1..n
    BY <1>2, <1>4, <2>1
  <2>2. CASE j = n + 1
    <3>1. ~(j - 1 < length) /\ j - 1 # length
      BY <1>1, <1>2, <2>2
    <3> QED
      BY <1>4, <2>2, <3>1 DEF Expanded
  <2> QED
    BY <1>n, <2>1, <2>2
<1>6. \A x : Expanded(x)' = Expanded(x)
  BY <1>1 DEF Expanded
<1>7. length < n + 1 /\ n + 1 <= BlockCount * 64 - 8
  <2>1. BlockCount \in Nat
    BY <1>1, CountBounds
  <2> QED
    BY <1>1, <1>2, <1>3, <2>1
<1>8. Padding'
  BY <1>1, <1>2, <1>4, <1>5, <1>6, <1>7, SamePadding DEF Padding, Block
<1> QED
  BY <1>1, <1>8 DEF BlocksInv

LEMMA LengthKeeps ==
  ASSUME BlocksTypeInv, BlocksInv, PushLength
  PROVE  BlocksInv'
<1> DEFINE n == Len(msg)
           eight == [j \in 1..8 |-> LengthByte(8 - j, length * 8)]
<1>1. /\ length \in Nat /\ length' = length /\ stage = "padding" /\ stage' = "compressing"
      /\ fed' = fed /\ msg \in Seq(Symbol) /\ n \in Nat /\ msg' = msg \o eight
  BY DEF BlocksTypeInv, PushLength
<1>2. /\ fed = <<>> /\ length < n /\ n <= BlockCount * 64 - 8
      /\ \A j \in 1..n : msg[j] = Expanded(j - 1)
  BY <1>1 DEF BlocksInv, Padding, Block
<1>3. BlockCount \in Nat /\ length + 9 <= 64 * BlockCount /\ 64 * BlockCount <= length + 72
  BY <1>1, CountBounds
<1>4. n = BlockCount * 64 - 8
  <2>1. n % 64 = 56
    BY DEF PushLength, Block
  <2>2. PICK q \in Nat : n = 64 * q + 56
    <3>1. n \in Nat
      BY <1>1
    <3> HIDE DEF n
    <3>2. PICK r \in 0..63 : n = 64 * (n \div 64) + r /\ r = n % 64 /\ n \div 64 \in Nat
      BY <3>1
    <3> QED
      BY <2>1, <3>2
  <2> HIDE DEF n
  <2> QED
    BY <1>1, <1>2, <1>3, <2>2
<1>5. eight \in Seq(Symbol) /\ Len(eight) = 8
  BY <1>1, Symbols
<1>6. \A j \in 1..8 : eight[j] = LengthByte(8 - j, length * 8)
  OBVIOUS
<1> HIDE DEF n, eight
<1>7. /\ Len(msg') = n + 8
      /\ \A j \in 1..n : msg'[j] = msg[j]
      /\ \A j \in (n + 1)..(n + 8) : msg'[j] = eight[j - n]
  <2>1. /\ msg \in Seq(Symbol) /\ Len(msg) = n /\ n \in Nat /\ eight \in Seq(Symbol)
        /\ Len(eight) = 8 /\ msg' = msg \o eight
    BY <1>1, <1>5 DEF n
  <2>2. /\ Len(msg') = n + 8
        /\ \A j \in 1..(n + 8) : msg'[j] = IF j <= n THEN msg[j] ELSE eight[j - n]
    BY <2>1, SymbolsConcat
  <2> QED
    BY <2>1, <2>2
<1>n. n \in Nat
  BY <1>1
<1>8. ASSUME NEW j \in 1..(n + 8)
      PROVE  msg'[j] = Padded(j - 1)
  <2>1. CASE j \in 1..n
    <3>1. j - 1 < BlockCount * 64 - 8
      BY <1>1, <1>3, <1>4, <2>1
    <3>2. Padded(j - 1) = Expanded(j - 1)
      BY <3>1 DEF Padded, Expanded, Block
    <3> QED
      BY <1>2, <1>7, <2>1, <3>2
  <2>2. CASE j \in (n + 1)..(n + 8)
    <3>1. /\ ~(j - 1 < length) /\ j - 1 # length /\ ~(j - 1 < BlockCount * 64 - 8)
          /\ BlockCount * 64 - 1 - (j - 1) = 8 - (j - n)
          /\ j - n \in 1..8
      BY <1>1, <1>2, <1>3, <1>4, <2>2
    <3>2. Padded(j - 1) = LengthByte(8 - (j - n), length * 8)
      BY <3>1 DEF Padded, Block
    <3> QED
      BY <1>6, <1>7, <2>2, <3>1, <3>2
  <2> QED
    BY <1>n, <2>1, <2>2
<1>9. Compressing'
  <2>1. Len(msg') = BlockCount * 64 /\ Len(fed') = 0 /\ Len(fed') <= BlockCount
    BY <1>1, <1>2, <1>3, <1>4, <1>7
  <2>2. \A b \in 1..Len(fed') : FALSE
    BY <2>1
  <2> QED
    <3>1. \A j \in 1..Len(msg') : msg'[j] = Padded(j - 1)
      BY <1>7, <1>8
    <3>2. length' = length
      BY <1>1
    <3> QED
      BY <2>1, <2>2, <3>1, <3>2, SamePadding DEF Compressing, FedSoFar, Block
<1> QED
  BY <1>1, <1>9 DEF BlocksInv

LEMMA CompressKeeps ==
  ASSUME BlocksTypeInv, BlocksInv, CompressNext
  PROVE  BlocksInv'
<1> DEFINE n == Len(fed)
           next == [j \in 1..64 |-> msg[n * 64 + j]]
<1>1. /\ length \in Nat /\ length' = length /\ stage = "compressing" /\ stage' = stage
      /\ msg' = msg /\ msg \in Seq(Symbol) /\ n \in Nat /\ n * 64 < Len(msg)
      /\ fed \in Seq([1..64 -> Symbol]) /\ fed' = Append(fed, next)
  BY DEF BlocksTypeInv, CompressNext, Block
<1>2. /\ Len(msg) = BlockCount * 64
      /\ \A j \in 1..Len(msg) : msg[j] = Padded(j - 1)
      /\ \A b \in 1..n, j \in 1..64 : fed[b][j] = Padded((b - 1) * 64 + j - 1)
  BY <1>1 DEF BlocksInv, Compressing, FedSoFar, Block
<1>3. BlockCount \in Nat
  BY <1>1, CountBounds
<1>4. n + 1 <= BlockCount
  BY <1>1, <1>2, <1>3
<1>n. n \in Nat /\ BlockCount \in Nat /\ Len(msg) = BlockCount * 64 /\ n + 1 <= BlockCount
  BY <1>1, <1>2, <1>3, <1>4
<1>5. ASSUME NEW j \in 1..64
      PROVE  n * 64 + j \in 1..Len(msg) /\ next[j] = Padded(n * 64 + j - 1)
  <2>1. n * 64 + j \in 1..Len(msg)
    <3> HIDE DEF n
    <3> QED
      BY <1>n
  <2>2. msg[n * 64 + j] = Padded(n * 64 + j - 1)
    BY <1>2, <2>1
  <2> QED
    BY <2>1, <2>2
<1>6. next \in [1..64 -> Symbol]
  <2>1. ASSUME NEW j \in 1..64 PROVE msg[n * 64 + j] \in Symbol
    <3>1. PICK x \in 1..Len(msg) : x = n * 64 + j
      BY <1>5
    <3>2. msg[x] \in Symbol
      BY <1>1
    <3> QED
      BY <3>1, <3>2
  <2> QED
    BY <2>1
<1> HIDE DEF n, next
<1>7. Len(fed') = n + 1 /\ fed'[n + 1] = next /\ \A b \in 1..n : fed'[b] = fed[b]
  BY <1>1, <1>6 DEF n
<1>8. ASSUME NEW b \in 1..(n + 1), NEW j \in 1..64
      PROVE  fed'[b][j] = Padded((b - 1) * 64 + j - 1)
  <2>1. CASE b \in 1..n
    BY <1>2, <1>7, <2>1
  <2>2. CASE b = n + 1
    <3>1. (b - 1) * 64 + j - 1 = n * 64 + j - 1
      BY <1>1, <2>2
    <3> QED
      BY <1>5, <1>7, <2>2, <3>1
  <2> QED
    BY <1>n, <2>1, <2>2
<1>9. Compressing'
  <2>1. length' = length /\ msg' = msg /\ Len(fed') = n + 1 /\ n + 1 <= BlockCount
    BY <1>1, <1>4, <1>7
  <2>2. FedSoFar'
    BY <1>8, <2>1, SamePadding DEF FedSoFar, Block
  <2> QED
    BY <1>2, <2>1, <2>2, SamePadding DEF Compressing, Block
<1> QED
  BY <1>1, <1>9 DEF BlocksInv

LEMMA CompressedKeeps ==
  ASSUME BlocksTypeInv, BlocksInv, Compressed
  PROVE  BlocksInv'
<1>1. /\ length \in Nat /\ length' = length /\ stage = "compressing" /\ stage' = "done"
      /\ fed' = fed /\ Len(fed) \in Nat /\ Len(fed) * 64 >= Len(msg)
  <2>1. fed \in Seq([1..Block -> Symbol]) => Len(fed) \in Nat
    OBVIOUS
  <2> QED
    BY <2>1 DEF BlocksTypeInv, Compressed, Block
<1>2. Len(msg) = BlockCount * 64 /\ Len(fed) <= BlockCount /\ FedSoFar
  BY <1>1 DEF BlocksInv, Compressing, Block
<1>3. Len(fed) = BlockCount
  BY <1>1, <1>2, CountBounds
<1>4. FedSoFar'
  BY <1>1, <1>2, SamePadding DEF FedSoFar
<1> QED
  BY <1>1, <1>3, <1>4, SamePadding DEF BlocksInv

LEMMA BlocksInvHolds ==
  BlocksSpec => []BlocksInv
<1>1. BlocksInit => BlocksInv
  <2> SUFFICES ASSUME BlocksInit PROVE BlocksInv
    OBVIOUS
  <2>1. length \in Nat
    BY LengthAssumption DEF BlocksInit
  <2>2. /\ taken = 0 /\ datalen = 0 /\ bitlen = 0 /\ fed = <<>> /\ Len(fed) = 0
        /\ stage = "absorbing"
    BY DEF BlocksInit
  <2>3. Absorbing
    BY <2>1, <2>2 DEF Absorbing, Block
  <2> QED
    BY <2>2, <2>3 DEF BlocksInv
<1>2. BlocksTypeInv /\ BlocksInv /\ [BlocksNext]_blocksVars => BlocksInv'
  <2> SUFFICES ASSUME BlocksTypeInv, BlocksInv, [BlocksNext]_blocksVars PROVE BlocksInv'
    OBVIOUS
  <2>1. CASE UNCHANGED blocksVars
    BY <2>1 DEF blocksVars, buffer, BlocksInv, Absorbing, Padding, Compressing, FedSoFar,
                Expanded, Padded, BlockCount
  <2> QED
    BY <2>1, UpdateKeeps, FinalKeeps, CopyKeeps, ZeroKeeps, LengthKeeps, CompressKeeps,
       CompressedKeeps DEF BlocksNext
<1> QED
  <2>1. BlocksSpec => []BlocksTypeInv
    BY BlocksTypeInvHolds
  <2> QED
    BY <1>1, <1>2, <2>1, PTL DEF BlocksSpec

\* sha256_update and sha256 keep to their buffers, whatever the length.
THEOREM BlocksTypeCorrect ==
  BlocksSpec => []BlocksTypeOK
<1>1. BlocksTypeInv => BlocksTypeOK
  BY DEF BlocksTypeInv
<1>2. BlocksSpec => []BlocksTypeInv
  BY BlocksTypeInvHolds
<1> QED
  BY <1>1, <1>2, PTL

\* The C library's buffer and the C++ library's padded copy both come to the
\* padded message of FIPS 180-4, for a message of any length.
THEOREM FeedsPaddedHolds ==
  BlocksSpec => []FeedsPadded
<1>1. BlocksTypeInv /\ BlocksInv => FeedsPadded
  BY DEF BlocksInv, FedSoFar, FeedsPadded, Block
<1>2. (BlocksSpec => []BlocksTypeInv) /\ (BlocksSpec => []BlocksInv)
  BY BlocksTypeInvHolds, BlocksInvHolds
<1> QED
  BY <1>1, <1>2, PTL
----
(***************************************************************************)
(* The C++ decoder's table under threads.                                  *)
(***************************************************************************)
Character == Range(Characters)
Place == {"idle", "test", "clear", "fill", "decode", "true", "false"}
Value == -1..(Len(Alphabet) - 1)

\* The value of a character as RFC 4648 has it.
ValueOf(d, c) == d + 1 \in DOMAIN Alphabet /\ Alphabet[d + 1] = c

\* The entry is not the zero that statics begin with, but one that was stored.
Stored(c) == rev[c] = -1 \/ ValueOf(rev[c], c)

\* A thread that is through with the first loop has had every entry stored to,
\* and so has everybody who sees the flag.
TableInv ==
  /\ init => \A c \in Character : Stored(c)
  /\ \A t \in Thread :
       /\ pc[t] \in {"fill", "decode"} => \A c \in Character : Stored(c)
       /\ pc[t] = "clear" => \A j \in DOMAIN Characters : j < k[t] => Stored(Characters[j])

\* What a thread has read are the values of the characters before its place.
Read(t) ==
  /\ pc[t] \in {"idle", "test", "clear", "fill"} => got[t] = <<>>
  /\ pc[t] = "decode" =>
       /\ Len(got[t]) = k[t] - 1 /\ k[t] <= Len(Key(t)) + 1
       /\ \A j \in 1..Len(got[t]) : ValueOf(got[t][j], Key(t)[j])

ReadInv == \A t \in Thread : Read(t)

TableReads == TableTypeOK /\ (inOrder => TableInv /\ ReadInv /\ NeverAcceptsWrong)

LEMMA Alphabets ==
  /\ \A n \in 1..Len(Alphabet) : Alphabet[n] \in Character
  /\ \A n \in 1..Len(Characters) : Characters[n] \in Character
  /\ DOMAIN Alphabet = 1..Len(Alphabet) /\ DOMAIN Characters = 1..Len(Characters)
  /\ Len(Alphabet) \in Nat \ {0} /\ Len(Characters) \in Nat
  /\ \A c \in Character : \E n \in 1..Len(Characters) : Characters[n] = c
<1>1. /\ Characters \in Seq(STRING) /\ Alphabet \in Seq(STRING)
      /\ Range(Alphabet) \subseteq Range(Characters)
  BY AlphabetAssumption
<1>2. /\ DOMAIN Alphabet = 1..Len(Alphabet) /\ DOMAIN Characters = 1..Len(Characters)
      /\ Len(Alphabet) \in Nat /\ Len(Characters) \in Nat
  BY <1>1
<1>3. Alphabet # <<>>
  BY AlphabetAssumption
<1>4. Len(Alphabet) > 0
  BY <1>1, <1>2, <1>3, EmptySeq
<1>5. \A n \in 1..Len(Alphabet) : Alphabet[n] \in Range(Alphabet)
  BY <1>2 DEF Range
<1>6. \A n \in 1..Len(Characters) : Characters[n] \in Character
  BY <1>2 DEF Range, Character
<1>7. \A c \in Character : \E n \in 1..Len(Characters) : Characters[n] = c
  BY <1>2 DEF Range, Character
<1> QED
  BY <1>1, <1>2, <1>4, <1>5, <1>6, <1>7 DEF Character

LEMMA Keys ==
  ASSUME TableTypeOK, NEW t \in Thread
  PROVE  /\ Key(t) \in Seq(Character) /\ Declared(t) \in Seq(Nat)
         /\ Len(Key(t)) \in Nat
BY AlphabetAssumption DEF TableTypeOK, Key, Declared, Character

LEMMA TableTypeInit ==
  ASSUME TableInit
  PROVE  TableTypeOK
<1>1. rev \in [Character -> Value]
  BY Alphabets DEF TableInit, Value, Character
<1>2. got \in [Thread -> Seq(0..(Len(Alphabet) - 1))]
  BY EmptySeq DEF TableInit
<1>3. /\ k \in [Thread -> Nat \ {0}] /\ pc \in [Thread -> Place]
      /\ identity \in [Thread -> Identity]
  BY DEF TableInit, Place
<1>4. alone \in [Thread -> BOOLEAN] /\ inOrder \in BOOLEAN /\ init \in BOOLEAN
  BY Zenon DEF TableInit
<1> QED
  BY <1>1, <1>2, <1>3, <1>4 DEF TableTypeOK, Value, Character, Place

ThreadStep(t) ==
  Call(t) \/ Test(t) \/ Clear(t) \/ Cleared(t) \/ Fill(t) \/ Filled(t)
    \/ FlagOvertakes(t) \/ DecodeDigit(t) \/ Decide(t)

\* A step of one thread changes nobody else's place.
LEMMA Others ==
  ASSUME TableTypeOK, NEW t \in Thread, ThreadStep(t)
  PROVE  /\ inOrder' = inOrder /\ identity' = identity
         /\ \A u \in Thread \ {t} : pc'[u] = pc[u] /\ k'[u] = k[u] /\ got'[u] = got[u]
<1> USE DEF TableTypeOK
<1>1. CASE Call(t)
  BY <1>1 DEF Call, Go
<1>2. CASE Test(t)
  BY <1>2 DEF Test, Go
<1>3. CASE Clear(t)
  BY <1>3 DEF Clear, Advance
<1>4. CASE Cleared(t)
  BY <1>4 DEF Cleared, Go
<1>5. CASE Fill(t)
  BY <1>5 DEF Fill, Advance
<1>6. CASE Filled(t)
  BY <1>6 DEF Filled, Go
<1>7. CASE FlagOvertakes(t)
  BY <1>7 DEF FlagOvertakes
<1>8. CASE DecodeDigit(t)
  BY <1>8 DEF DecodeDigit, Go, Advance
<1>9. CASE Decide(t)
  BY <1>9 DEF Decide, Go
<1> QED
  BY <1>1, <1>2, <1>3, <1>4, <1>5, <1>6, <1>7, <1>8, <1>9 DEF ThreadStep

\* The character that a thread is to decode, and its entry.
LEMMA DigitType ==
  ASSUME TableTypeOK, NEW t \in Thread, k[t] <= Len(Key(t))
  PROVE  Key(t)[k[t]] \in Character /\ rev[Key(t)[k[t]]] \in Value
<1>1. /\ Key(t) \in Seq(Character) /\ k[t] \in 1..Len(Key(t))
  BY Keys DEF TableTypeOK
<1>2. Key(t)[k[t]] \in Character
  BY <1>1
<1> QED
  BY <1>2 DEF TableTypeOK, Value, Character

LEMMA GoType ==
  ASSUME TableTypeOK, NEW t \in Thread, NEW place \in Place, Go(t, place)
  PROVE  pc' \in [Thread -> Place] /\ k' \in [Thread -> Nat \ {0}]
BY DEF Go, TableTypeOK, Place

LEMMA AdvanceType ==
  ASSUME TableTypeOK, NEW t \in Thread, Advance(t)
  PROVE  pc' \in [Thread -> Place] /\ k' \in [Thread -> Nat \ {0}]
BY DEF Advance, TableTypeOK, Place

LEMMA TableTypeNext ==
  ASSUME TableTypeOK, [TableNext]_tableVars
  PROVE  TableTypeOK'
<1>1. CASE UNCHANGED tableVars
  BY <1>1 DEF tableVars, TableTypeOK
<1>2. ASSUME NEW t \in Thread, ThreadStep(t)
      PROVE  TableTypeOK'
  <2>1. /\ inOrder' \in BOOLEAN /\ identity' \in [Thread -> Identity]
    BY <1>2, Others DEF TableTypeOK
  <2>2. /\ pc' \in [Thread -> Place] /\ k' \in [Thread -> Nat \ {0}]
    <3>1. {"test", "decode", "clear", "fill", "true", "false"} \subseteq Place
      BY DEF Place
    <3>2. CASE Call(t)
      BY <3>1, <3>2, GoType DEF Call
    <3>3. CASE Test(t)
      <4>1. PICK place \in {"decode", "clear"} : Go(t, place)
        BY <3>3 DEF Test
      <4> QED
        BY <3>1, <4>1, GoType
    <3>4. CASE Clear(t)
      BY <3>4, AdvanceType DEF Clear
    <3>5. CASE Cleared(t)
      BY <3>1, <3>5, GoType DEF Cleared
    <3>6. CASE Fill(t)
      BY <3>6, AdvanceType DEF Fill
    <3>7. CASE Filled(t)
      BY <3>1, <3>7, GoType DEF Filled
    <3>8. CASE FlagOvertakes(t)
      BY <3>8 DEF FlagOvertakes, TableTypeOK, Place
    <3>9. CASE DecodeDigit(t)
      <4>1. Go(t, "false") \/ Advance(t)
        BY <3>9 DEF DecodeDigit
      <4> QED
        BY <3>1, <4>1, GoType, AdvanceType
    <3>10. CASE Decide(t)
      <4>1. PICK place \in {"true", "false"} : Go(t, place)
        BY <3>10 DEF Decide
      <4> QED
        BY <3>1, <4>1, GoType
    <3> QED
      BY <1>2, <3>2, <3>3, <3>4, <3>5, <3>6, <3>7, <3>8, <3>9, <3>10 DEF ThreadStep
  <2>3. rev' \in [Character -> Value]
    <3>1. rev \in [Character -> Value]
      BY DEF TableTypeOK, Value, Character
    <3>2. CASE Clear(t)
      <4>1. -1 \in Value
        BY Alphabets DEF Value
      <4> QED
        BY <3>1, <3>2, <4>1 DEF Clear
    <3>3. CASE Fill(t)
      <4>1. k[t] \in 1..Len(Alphabet)
        BY <3>3 DEF Fill, TableTypeOK
      <4>2. k[t] - 1 \in Value
        BY <4>1, Alphabets DEF Value
      <4> QED
        BY <3>1, <3>3, <4>2 DEF Fill
    <3>4. CASE ~Clear(t) /\ ~Fill(t)
      <4>1. rev' = rev
        BY <1>2, <3>4 DEF ThreadStep, Call, Test, Cleared, Filled, FlagOvertakes, DecodeDigit, Decide
      <4> QED
        BY <3>1, <4>1
    <3> QED
      BY <3>2, <3>3, <3>4
  <2>4. got' \in [Thread -> Seq(0..(Len(Alphabet) - 1))]
    <3> DEFINE Digits == 0..(Len(Alphabet) - 1)
    <3>1. got \in [Thread -> Seq(Digits)]
      BY DEF TableTypeOK
    <3>2. CASE DecodeDigit(t) /\ got' # got
      <4> DEFINE d == rev[Key(t)[k[t]]]
      <4>1. d \in Value /\ ~(d < 0) /\ got' = [got EXCEPT ![t] = Append(@, d)]
        BY <3>2, DigitType DEF DecodeDigit
      <4>2. d \in Digits
        BY <4>1, Alphabets DEF Value
      <4> HIDE DEF d, Digits
      <4>3. Append(got[t], d) \in Seq(Digits)
        BY <3>1, <4>2
      <4> QED
        BY <3>1, <4>1, <4>3 DEF Digits
    <3>3. CASE ~(DecodeDigit(t) /\ got' # got)
      <4>1. got' = got
        BY <1>2, <3>3 DEF ThreadStep, Call, Test, Clear, Cleared, Fill, Filled, FlagOvertakes, Decide
      <4> QED
        BY <3>1, <4>1
    <3> QED
      BY <3>2, <3>3
  <2>5. init' \in BOOLEAN
    BY <1>2 DEF TableTypeOK, ThreadStep, Call, Test, Clear, Cleared, Fill, Filled, FlagOvertakes,
                DecodeDigit, Decide
  <2>6. alone' \in [Thread -> BOOLEAN]
    BY <1>2 DEF TableTypeOK, ThreadStep, Call, Test, Clear, Cleared, Fill, Filled, FlagOvertakes,
                DecodeDigit, Decide
  <2> QED
    BY <2>1, <2>2, <2>3, <2>4, <2>5, <2>6 DEF TableTypeOK, Value, Character, Place
<1> QED
  BY <1>1, <1>2 DEF TableNext, ThreadStep

\* A store to an entry keeps every entry stored that was.
LEMMA StoreKeeps ==
  ASSUME TableTypeOK, NEW x \in Character, NEW v \in Value, v = -1 \/ ValueOf(v, x),
         rev' = [rev EXCEPT ![x] = v]
  PROVE  \A c \in Character : Stored(c) \/ c = x => Stored(c)'
<1> SUFFICES ASSUME NEW c \in Character, Stored(c) \/ c = x
             PROVE  Stored(c)'
  OBVIOUS
<1>1. DOMAIN rev = Character
  BY DEF TableTypeOK, Character
<1>2. CASE c = x
  <2>1. rev'[c] = v
    BY <1>1, <1>2
  <2> QED
    BY <1>2, <2>1 DEF Stored
<1>3. CASE c # x
  <2>1. rev'[c] = rev[c]
    BY <1>1, <1>3
  <2> QED
    BY <1>3, <2>1 DEF Stored
<1> QED
  BY <1>2, <1>3

\* No step makes a stored entry a static zero again.
LEMMA StaysStored ==
  ASSUME TableTypeOK, NEW t \in Thread, ThreadStep(t), NEW c \in Character, Stored(c)
  PROVE  Stored(c)'
<1>1. CASE Clear(t)
  <2>1. k[t] \in 1..Len(Characters) /\ rev' = [rev EXCEPT ![Characters[k[t]]] = -1]
    BY <1>1 DEF Clear, TableTypeOK
  <2>2. Characters[k[t]] \in Character /\ -1 \in Value
    BY <2>1, Alphabets DEF Value
  <2> QED
    BY <2>1, <2>2, StoreKeeps
<1>2. CASE Fill(t)
  <2>1. k[t] \in 1..Len(Alphabet) /\ rev' = [rev EXCEPT ![Alphabet[k[t]]] = k[t] - 1]
    BY <1>2 DEF Fill, TableTypeOK
  <2>2. Alphabet[k[t]] \in Character /\ k[t] - 1 \in Value
    BY <2>1, Alphabets DEF Value
  <2>3. ValueOf(k[t] - 1, Alphabet[k[t]])
    <3>1. (k[t] - 1) + 1 = k[t]
      BY <2>1
    <3> QED
      BY <2>1, <3>1, Alphabets DEF ValueOf
  <2> QED
    BY <2>1, <2>2, <2>3, StoreKeeps
<1>3. CASE ~Clear(t) /\ ~Fill(t)
  <2>1. rev' = rev
    BY <1>3 DEF ThreadStep, Call, Test, Cleared, Filled, FlagOvertakes, DecodeDigit, Decide
  <2> QED
    BY <2>1 DEF Stored
<1> QED
  BY <1>1, <1>2, <1>3

LEMMA TableInvNext ==
  ASSUME TableTypeOK, inOrder, TableInv, NEW t \in Thread, ThreadStep(t)
  PROVE  TableInv'
<1> DEFINE All == \A c \in Character : Stored(c)
           Before(u) == \A j \in DOMAIN Characters : j < k[u] => Stored(Characters[j])
<1>1. All => All'
  BY StaysStored
<1>2. (init \/ pc[t] \in {"fill", "decode"}) => All
  BY DEF TableInv
<1>3. init' => All'
  <2>1. init' => init \/ Filled(t)
    BY DEF ThreadStep, Call, Test, Clear, Cleared, Fill, FlagOvertakes, DecodeDigit, Decide
  <2>2. Filled(t) => pc[t] = "fill"
    BY DEF Filled
  <2> QED
    BY <1>1, <1>2, <2>1, <2>2
<1>4. ASSUME NEW u \in Thread \ {t}
      PROVE  /\ pc'[u] \in {"fill", "decode"} => All'
             /\ pc'[u] = "clear" => Before(u)'
  <2>1. pc'[u] = pc[u] /\ k'[u] = k[u]
    BY Others
  <2>2. pc[u] \in {"fill", "decode"} => All
    BY DEF TableInv
  <2>3. pc[u] = "clear" => Before(u)
    BY DEF TableInv
  <2>4. Before(u) => Before(u)'
    <3> SUFFICES ASSUME Before(u), NEW j \in DOMAIN Characters, j < k'[u]
                 PROVE  Stored(Characters[j])'
      OBVIOUS
    <3>1. Characters[j] \in Character /\ Stored(Characters[j])
      BY <2>1, Alphabets
    <3> QED
      BY <3>1, StaysStored
  <2> QED
    BY <1>1, <2>1, <2>2, <2>3, <2>4
<1>5. pc'[t] \in {"fill", "decode"} => All'
  <2> SUFFICES ASSUME pc'[t] \in {"fill", "decode"} PROVE All
    BY <1>1
  <2>1. init \/ pc[t] \in {"fill", "decode"} \/ Cleared(t)
    BY DEF ThreadStep, Call, Test, Clear, Fill, Filled, FlagOvertakes, DecodeDigit, Decide, Go,
           Advance, TableTypeOK
  <2>2. Cleared(t) => All
    <3> SUFFICES ASSUME Cleared(t), NEW c \in Character PROVE Stored(c)
      OBVIOUS
    <3>1. k[t] > Len(Characters) /\ pc[t] = "clear"
      BY DEF Cleared
    <3>2. PICK n \in 1..Len(Characters) : Characters[n] = c
      BY Alphabets
    <3>3. n < k[t] /\ n \in DOMAIN Characters
      BY <3>1, <3>2, Alphabets DEF TableTypeOK
    <3> QED
      BY <3>1, <3>2, <3>3 DEF TableInv
  <2> QED
    BY <1>2, <2>1, <2>2
<1>6. pc'[t] = "clear" => Before(t)'
  <2> SUFFICES ASSUME pc'[t] = "clear", NEW j \in DOMAIN Characters, j < k'[t]
               PROVE  Stored(Characters[j])'
    OBVIOUS
  <2>1. Characters[j] \in Character /\ j \in 1..Len(Characters)
    BY Alphabets
  <2>2. Test(t) \/ Clear(t) \/ (FlagOvertakes(t) /\ pc[t] = "clear")
    BY DEF ThreadStep, Call, Cleared, Fill, Filled, FlagOvertakes, DecodeDigit, Decide, Go,
           Advance, TableTypeOK
  <2>3. CASE Test(t)
    <3>1. k'[t] = 1
      BY <2>3 DEF Test, Go, TableTypeOK
    <3> QED
      BY <2>1, <3>1
  <2>4. CASE Clear(t)
    <3>1. /\ pc[t] = "clear" /\ k[t] \in 1..Len(Characters) /\ k'[t] = k[t] + 1
          /\ rev' = [rev EXCEPT ![Characters[k[t]]] = -1]
      BY <2>4 DEF Clear, Advance, TableTypeOK
    <3>2. Characters[k[t]] \in Character /\ -1 \in Value
      BY <3>1, Alphabets DEF Value
    <3>3. j = k[t] \/ j < k[t]
      BY <2>1, <3>1
    <3>4. Stored(Characters[j]) \/ Characters[j] = Characters[k[t]]
      BY <3>1, <3>3 DEF TableInv
    <3> QED
      BY <2>1, <3>1, <3>2, <3>4, StoreKeeps
  <2>5. CASE FlagOvertakes(t) /\ pc[t] = "clear"
    BY <2>5 DEF FlagOvertakes
  <2> QED
    BY <2>2, <2>3, <2>4, <2>5
<1> QED
  BY <1>3, <1>4, <1>5, <1>6 DEF TableInv

\* A thread that decodes from a table without static zeros reads on rightly.
LEMMA ReadStep ==
  ASSUME TableTypeOK, NEW t \in Thread, ThreadStep(t), Read(t),
         pc[t] = "decode" => \A c \in Character : Stored(c)
  PROVE  Read(t)'
<1> USE DEF Read
<1>1. Read(t) /\ Key(t)' = Key(t)
  BY Others DEF Key
<1>2. /\ Len(Key(t)) \in Nat /\ k[t] \in Nat \ {0} /\ pc[t] \in Place
      /\ got[t] \in Seq(0..(Len(Alphabet) - 1))
  BY Keys DEF TableTypeOK, Place
<1>3. CASE DecodeDigit(t) /\ got' # got
  <2> DEFINE d == rev[Key(t)[k[t]]]
             c == Key(t)[k[t]]
  <2>1. /\ pc[t] = "decode" /\ k[t] <= Len(Key(t)) /\ ~(d < 0)
        /\ got' = [got EXCEPT ![t] = Append(@, d)] /\ pc' = pc
        /\ k' = [k EXCEPT ![t] = @ + 1]
    BY <1>3 DEF DecodeDigit, Advance
  <2>2. c \in Character /\ d \in Value
    BY <2>1, DigitType
  <2>3. ValueOf(d, c)
    <3>1. Stored(c)
      BY <2>1, <2>2
    <3>2. d # -1
      BY <2>1, <2>2 DEF Value
    <3> QED
      BY <3>1, <3>2 DEF Stored
  <2>4. /\ got'[t] = Append(got[t], d) /\ k'[t] = k[t] + 1 /\ pc'[t] = "decode"
    BY <2>1 DEF TableTypeOK
  <2>5. d \in 0..(Len(Alphabet) - 1)
    BY <2>1, <2>2, Alphabets DEF Value
  <2>6. Len(got[t]) = k[t] - 1 /\ \A j \in 1..Len(got[t]) : ValueOf(got[t][j], Key(t)[j])
    BY <1>1, <2>1
  <2> HIDE DEF d
  <2>7. /\ Len(got'[t]) = k[t] /\ got'[t][k[t]] = d
        /\ \A j \in 1..Len(got[t]) : got'[t][j] = got[t][j]
    <3>1. Len(got[t]) + 1 = k[t]
      BY <1>2, <2>6
    <3> QED
      BY <1>2, <2>4, <2>5, <3>1, AppendProperties
  <2>8. ASSUME NEW j \in 1..Len(got'[t]) PROVE ValueOf(got'[t][j], Key(t)[j])
    <3>1. j = k[t] \/ j \in 1..Len(got[t])
      BY <1>2, <2>6, <2>7
    <3> QED
      BY <2>3, <2>6, <2>7, <3>1
  <2>9. Len(got'[t]) = k'[t] - 1 /\ k'[t] <= Len(Key(t)) + 1
    BY <1>2, <2>1, <2>4, <2>7
  <2> QED
    BY <1>1, <2>4, <2>8, <2>9
<1>4. CASE ~(DecodeDigit(t) /\ got' # got)
  <2>1. got' = got
    BY <1>4 DEF ThreadStep, Call, Test, Clear, Cleared, Fill, Filled, FlagOvertakes, Decide
  <2>2. pc'[t] \in {"idle", "test", "clear", "fill"}
           => pc[t] \in {"idle", "test", "clear", "fill"}
    BY DEF ThreadStep, Call, Test, Clear, Cleared, Fill, Filled, FlagOvertakes, DecodeDigit, Decide,
           Go, Advance, TableTypeOK
  <2>3. CASE pc'[t] = "decode"
    <3>1. Test(t) \/ Filled(t) \/ DecodeDigit(t)
      BY <2>3 DEF ThreadStep, Call, Clear, Cleared, Fill, FlagOvertakes, Filling, Decide,
                  Go, Advance, TableTypeOK
    <3>2. CASE Test(t) \/ Filled(t)
      <4>1. got[t] = <<>> /\ k'[t] = 1
        BY <1>1, <3>2 DEF Test, Filled, Go, TableTypeOK
      <4>2. Len(got'[t]) = 0
        BY <2>1, <4>1
      <4> QED
        BY <1>1, <1>2, <2>3, <4>1, <4>2
    <3>3. CASE DecodeDigit(t)
      <4> DEFINE d == rev[Key(t)[k[t]]]
      <4>1. d < 0 => pc'[t] = "false"
        BY <3>3 DEF DecodeDigit, Go, TableTypeOK
      <4>2. got' = [got EXCEPT ![t] = Append(@, d)]
        BY <2>3, <3>3, <4>1 DEF DecodeDigit
      <4>3. got'[t] = Append(got[t], d)
        BY <4>2 DEF TableTypeOK
      <4>4. d \in 0..(Len(Alphabet) - 1)
        <5>1. d \in Value /\ ~(d < 0)
          BY <2>3, <3>3, <4>1, DigitType DEF DecodeDigit
        <5> QED
          BY <5>1, Alphabets DEF Value
      <4> HIDE DEF d
      <4>5. Append(got[t], d) # got[t]
        <5>1. Len(Append(got[t], d)) = Len(got[t]) + 1 /\ Len(got[t]) \in Nat
          BY <1>2, <4>4, AppendProperties
        <5> QED
          BY <5>1
      <4> QED
        BY <2>1, <4>3, <4>5
    <3> QED
      BY <3>1, <3>2, <3>3
  <2>4. CASE pc'[t] # "decode"
    BY <1>1, <2>1, <2>2, <2>4
  <2> QED
    BY <2>3, <2>4
<1> QED
  BY <1>3, <1>4

LEMMA ReadOthers ==
  ASSUME TableTypeOK, NEW t \in Thread, ThreadStep(t), NEW u \in Thread \ {t}, Read(u)
  PROVE  Read(u)'
<1>1. Key(u)' = Key(u) /\ pc'[u] = pc[u] /\ k'[u] = k[u] /\ got'[u] = got[u]
  BY Others DEF Key
<1> QED
  BY <1>1 DEF Read

LEMMA ReadNext ==
  ASSUME TableTypeOK, TableInv, ReadInv, NEW t \in Thread, ThreadStep(t)
  PROVE  ReadInv'
BY ReadStep, ReadOthers DEF ReadInv, TableInv

\* Past the end of its key a thread has read the value of every character.
LEMMA WholeKeyRead ==
  ASSUME TableTypeOK, NEW t \in Thread, Read(t), pc[t] = "decode", k[t] > Len(Key(t))
  PROVE  /\ Len(got[t]) = Len(Key(t)) /\ DOMAIN Key(t) = 1..Len(got[t])
         /\ \A j \in DOMAIN Key(t) : ValueOf(got[t][j], Key(t)[j])
<1>1. /\ Len(got[t]) = k[t] - 1 /\ k[t] <= Len(Key(t)) + 1
      /\ \A j \in 1..Len(got[t]) : ValueOf(got[t][j], Key(t)[j])
  BY DEF Read
<1>2. /\ k[t] \in Nat /\ Len(Key(t)) \in Nat /\ Key(t) \in Seq(Character)
  BY Keys DEF TableTypeOK
<1>3. Len(got[t]) = Len(Key(t)) /\ DOMAIN Key(t) = 1..Len(got[t])
  BY <1>1, <1>2
<1> QED
  BY <1>1, <1>3

\* A thread that has read right digits accepts the key they are those of.
LEMMA AcceptsMatching ==
  ASSUME TableTypeOK, NEW t \in Thread, ThreadStep(t), Read(t), pc[t] # "true",
         pc'[t] = "true"
  PROVE  Matches(t)
<1>1. Decide(t)
  BY DEF ThreadStep, Call, Test, Clear, Cleared, Fill, Filled, FlagOvertakes, DecodeDigit,
         Go, Advance, TableTypeOK
<1>2. /\ pc[t] = "decode" /\ k[t] > Len(Key(t))
      /\ got[t] # <<>> /\ got[t] = Declared(t)
  BY <1>1 DEF Decide, Go, TableTypeOK
<1>3. /\ Len(got[t]) = Len(Key(t))
      /\ \A j \in DOMAIN Key(t) : ValueOf(got[t][j], Key(t)[j])
  BY <1>2, WholeKeyRead
<1>4. Key(t) # <<>>
  <2>1. got[t] \in Seq(0..(Len(Alphabet) - 1)) /\ Key(t) \in Seq(Character)
    BY Keys DEF TableTypeOK
  <2> QED
    BY <1>2, <1>3, <2>1, EmptySeq
<1> QED
  BY <1>2, <1>3, <1>4 DEF Matches, ValueOf

LEMMA AcceptNext ==
  ASSUME TableTypeOK, inOrder, ReadInv, NeverAcceptsWrong, NEW t \in Thread, ThreadStep(t)
  PROVE  NeverAcceptsWrong'
<1> SUFFICES ASSUME NEW u \in Thread, pc'[u] = "true"
             PROVE  Matches(u)'
  BY DEF NeverAcceptsWrong
<1>1. Matches(u)' = Matches(u)
  BY Others DEF Matches, Key, Declared
<1>2. CASE pc[u] = "true"
  BY <1>1, <1>2 DEF NeverAcceptsWrong
<1>3. CASE pc[u] # "true"
  <2>1. u = t
    BY <1>3, Others
  <2> QED
    BY <1>1, <1>3, <2>1, AcceptsMatching DEF ReadInv
<1> QED
  BY <1>2, <1>3

LEMMA TableReadsHolds ==
  TableSpec => []TableReads
<1>1. TableInit => TableReads
  <2> SUFFICES ASSUME TableInit PROVE TableReads
    OBVIOUS
  <2>1. init = FALSE /\ \A t \in Thread : pc[t] = "idle" /\ got[t] = <<>>
    BY DEF TableInit
  <2> QED
    BY <2>1, TableTypeInit DEF TableReads, TableInv, ReadInv, Read, NeverAcceptsWrong
<1>2. TableReads /\ [TableNext]_tableVars => TableReads'
  <2> SUFFICES ASSUME TableReads, [TableNext]_tableVars PROVE TableReads'
    OBVIOUS
  <2>1. TableTypeOK'
    BY TableTypeNext DEF TableReads
  <2>2. ASSUME inOrder' PROVE TableInv' /\ ReadInv' /\ NeverAcceptsWrong'
    <3>1. CASE UNCHANGED tableVars
      BY <2>2, <3>1 DEF tableVars, TableReads, TableInv, ReadInv, Read, NeverAcceptsWrong, Stored,
                        Matches, Key, Declared
    <3>2. ASSUME NEW t \in Thread, ThreadStep(t)
          PROVE  TableInv' /\ ReadInv' /\ NeverAcceptsWrong'
      <4>1. inOrder
        BY <2>2, <3>2, Others DEF TableReads
      <4> QED
        BY <3>2, <4>1, TableInvNext, ReadNext, AcceptNext DEF TableReads
    <3> QED
      BY <3>1, <3>2 DEF TableNext, ThreadStep
  <2> QED
    BY <2>1, <2>2 DEF TableReads
<1> QED
  BY <1>1, <1>2, PTL DEF TableSpec

\* The table and the digits read from it keep to their ranges, for any number
\* of threads and whatever the order in which stores are seen.
THEOREM TableTypeCorrect ==
  TableSpec => []TableTypeOK
<1>1. TableReads => TableTypeOK
  BY DEF TableReads
<1>2. TableSpec => []TableReads
  BY TableReadsHolds
<1> QED
  BY <1>1, <1>2, PTL

\* However many threads race for the table of base64urlDecode, none calls an
\* identity sound whose key does not have its fingerprint.
THEOREM NeverAcceptsWrongHolds ==
  TableSpec => []NeverAcceptsWrong
<1>1. TableReads => NeverAcceptsWrong
  BY DEF TableReads, NeverAcceptsWrong
<1>2. TableSpec => []TableReads
  BY TableReadsHolds
<1> QED
  BY <1>1, <1>2, PTL
----
(***************************************************************************)
(* Calls beside which nobody else fills the table.                         *)
(***************************************************************************)

\* The entry that base64urlDecode's alphabet calls for.
RightEntry(c) == IF c \in Range(Alphabet) THEN ValueOf(rev[c], c) ELSE rev[c] = -1

\* Thread w has yet to store to the entry, for the last time and rightly.
WillStore(w, c) ==
  \/ /\ pc[w] = "clear"
     /\ c \in Range(Alphabet) \/ \E j \in DOMAIN Characters : k[w] <= j /\ Characters[j] = c
  \/ /\ pc[w] = "fill"
     /\ \E j \in DOMAIN Alphabet : k[w] <= j /\ Alphabet[j] = c

Untouched == ~init /\ \A w \in Thread : ~Filling(w)

\* However many threads fill the table, and in whatever order the flag is seen:
\* an entry that is wrong is one that somebody is going to put right.
WillBeRight(c) == RightEntry(c) \/ Untouched \/ \E w \in Thread : WillStore(w, c)
TableSettles == \A c \in Character : WillBeRight(c)

NobodyFills(t) == \A u \in Thread \ {t} : ~Filling(u)
AloneFills == \A t \in Thread : alone[t] /\ Deciding(t) => NobodyFills(t)

FlagSeen == \A t \in Thread : pc[t] = "decode" => init

AloneReads == \A t \in Thread : alone[t] \/ pc[t] = "idle" => Read(t)

AloneInv ==
  TableTypeOK /\ TableSettles /\ AloneFills /\ FlagSeen /\ AloneReads /\ RightWhenAlone

\* Who is in the loops that fill the table, and who is in a call, changes only
\* for the thread that takes the step.
LEMMA PlacesNext ==
  ASSUME TableTypeOK, NEW t \in Thread, ThreadStep(t)
  PROVE  /\ \A u \in Thread \ {t} :
              /\ Filling(u)' = Filling(u) /\ Deciding(u)' = Deciding(u)
              /\ \A c : WillStore(u, c)' = WillStore(u, c)
         /\ init => init'
         /\ Filling(t)' => Filling(t) \/ Test(t)
         /\ init' => init \/ Filling(t)
<1>1. \A u \in Thread \ {t} : pc'[u] = pc[u] /\ k'[u] = k[u]
  BY Others
<1>2. init => init'
  BY DEF ThreadStep, Call, Test, Clear, Cleared, Fill, Filled, FlagOvertakes, DecodeDigit, Decide
<1>3. Filling(t)' => Filling(t) \/ Test(t)
  BY DEF ThreadStep, Call, Clear, Cleared, Fill, Filled, FlagOvertakes, DecodeDigit, Decide,
         Filling, Go, Advance, TableTypeOK
<1>4. init' => init \/ Filling(t)
  BY DEF ThreadStep, Call, Test, Clear, Cleared, Fill, Filled, FlagOvertakes, DecodeDigit, Decide,
         Filling
<1> QED
  BY <1>1, <1>2, <1>3, <1>4 DEF Filling, Deciding, WillStore

\* Where neither the table nor the thread's place in the loops changes, an entry
\* that will be right still will be.
LEMMA SettlesAside ==
  ASSUME TableTypeOK, NEW t \in Thread, ThreadStep(t), NEW c \in Character, WillBeRight(c),
         rev' = rev, ~Filling(t), ~Filling(t)'
  PROVE  WillBeRight(c)'
<1>1. RightEntry(c) => RightEntry(c)'
  BY DEF RightEntry, ValueOf
<1>2. Untouched => Untouched'
  BY PlacesNext DEF Untouched
<1>3. ASSUME NEW w \in Thread, WillStore(w, c) PROVE WillStore(w, c)'
  <2>1. w # t
    BY <1>3 DEF WillStore, Filling
  <2> QED
    BY <1>3, <2>1, PlacesNext
<1> QED
  BY <1>1, <1>2, <1>3 DEF WillBeRight

\* Where a thread is in the loops, an entry is wrong only while it or another
\* one has it before it.
LEMMA SettlesInLoops ==
  ASSUME TableTypeOK, NEW t \in Thread, ThreadStep(t), NEW c \in Character, WillBeRight(c),
         Filling(t),
         RightEntry(c) => RightEntry(c)' \/ WillStore(t, c)',
         WillStore(t, c) => RightEntry(c)' \/ WillStore(t, c)'
  PROVE  WillBeRight(c)'
<1>1. ~Untouched
  BY DEF Untouched
<1>2. ASSUME NEW w \in Thread, WillStore(w, c), w # t PROVE WillStore(w, c)'
  BY <1>2, PlacesNext
<1> QED
  BY <1>1, <1>2 DEF WillBeRight

LEMMA SettlesNext ==
  ASSUME TableTypeOK, TableSettles, NEW t \in Thread, ThreadStep(t), NEW c \in Character
  PROVE  WillBeRight(c)'
<1>1. WillBeRight(c) /\ \E n \in DOMAIN Characters : Characters[n] = c
  BY Alphabets DEF TableSettles
<1>2. c \in Range(Alphabet) => \E n \in DOMAIN Alphabet : Alphabet[n] = c
  BY DEF Range
<1>3. k[t] \in Nat \ {0} /\ rev \in [Character -> Value]
  BY DEF TableTypeOK, Value, Character
<1>4. CASE Call(t) \/ DecodeDigit(t) \/ Decide(t) \/ (Test(t) /\ init)
  <2>1. rev' = rev /\ ~Filling(t) /\ ~Filling(t)'
    BY <1>4 DEF Call, DecodeDigit, Decide, Test, Filling, Go, Advance, TableTypeOK
  <2> QED
    BY <1>1, <2>1, SettlesAside
<1>5. CASE Test(t) /\ ~init
  <2>1. pc'[t] = "clear" /\ k'[t] = 1
    BY <1>5 DEF Test, Go, TableTypeOK
  <2>2. PICK n \in DOMAIN Characters : Characters[n] = c
    BY <1>1
  <2>3. 1 <= n
    BY <2>2, Alphabets
  <2>4. WillStore(t, c)'
    BY <2>1, <2>2, <2>3 DEF WillStore
  <2> QED
    BY <2>4 DEF WillBeRight
<1>6. CASE Clear(t)
  <2> DEFINE x == Characters[k[t]]
  <2>1. /\ pc[t] = "clear" /\ k[t] \in DOMAIN Characters
        /\ pc'[t] = "clear" /\ k'[t] = k[t] + 1
        /\ rev' = [rev EXCEPT ![x] = -1]
    BY <1>3, <1>6, Alphabets DEF Clear, Advance, TableTypeOK
  <2>2. Filling(t)
    BY <2>1 DEF Filling
  <2>3. CASE c \in Range(Alphabet)
    <3>1. WillStore(t, c)'
      BY <2>1, <2>3 DEF WillStore
    <3> QED
      BY <3>1 DEF WillBeRight
  <2>4. CASE c \notin Range(Alphabet) /\ c = x
    <3>1. rev'[c] = -1
      BY <1>3, <2>1, <2>4
    <3>2. RightEntry(c)'
      BY <2>4, <3>1 DEF RightEntry
    <3> QED
      BY <3>2 DEF WillBeRight
  <2>5. CASE c \notin Range(Alphabet) /\ c # x
    <3>1. rev'[c] = rev[c]
      BY <1>3, <2>1, <2>5
    <3>2. RightEntry(c) => RightEntry(c)'
      BY <2>5, <3>1 DEF RightEntry
    <3>3. WillStore(t, c) => WillStore(t, c)'
      <4>1. ASSUME NEW j \in DOMAIN Characters, k[t] <= j, Characters[j] = c
            PROVE  k'[t] <= j
        BY <1>3, <2>1, <2>5, <4>1, Alphabets
      <4> QED
        BY <2>1, <2>5, <4>1 DEF WillStore
    <3> QED
      BY <1>1, <2>2, <3>2, <3>3, SettlesInLoops
  <2> QED
    BY <2>3, <2>4, <2>5
<1>7. CASE Cleared(t)
  <2>1. /\ pc[t] = "clear" /\ k[t] > Len(Characters) /\ rev' = rev
        /\ pc'[t] = "fill" /\ k'[t] = 1
    BY <1>7 DEF Cleared, Go, TableTypeOK
  <2>2. Filling(t)
    BY <2>1 DEF Filling
  <2>3. RightEntry(c) => RightEntry(c)'
    BY <2>1 DEF RightEntry, ValueOf
  <2>4. WillStore(t, c) => WillStore(t, c)'
    <3> SUFFICES ASSUME WillStore(t, c) PROVE WillStore(t, c)'
      OBVIOUS
    <3>1. \A j \in DOMAIN Characters : ~(k[t] <= j)
      BY <1>3, <2>1, Alphabets
    <3>2. c \in Range(Alphabet)
      BY <2>1, <3>1 DEF WillStore
    <3>3. PICK n \in DOMAIN Alphabet : Alphabet[n] = c
      BY <1>2, <3>2
    <3>4. 1 <= n
      BY <3>3, Alphabets
    <3> QED
      BY <2>1, <3>3, <3>4 DEF WillStore
  <2> QED
    BY <1>1, <2>2, <2>3, <2>4, SettlesInLoops
<1>8. CASE Fill(t)
  <2> DEFINE x == Alphabet[k[t]]
  <2>1. /\ pc[t] = "fill" /\ k[t] \in DOMAIN Alphabet
        /\ pc'[t] = "fill" /\ k'[t] = k[t] + 1
        /\ rev' = [rev EXCEPT ![x] = k[t] - 1]
    BY <1>3, <1>8, Alphabets DEF Fill, Advance, TableTypeOK
  <2>2. Filling(t)
    BY <2>1 DEF Filling
  <2>3. CASE c = x
    <3>1. rev'[c] = k[t] - 1
      BY <1>3, <2>1, <2>3
    <3>2. c \in Range(Alphabet) /\ (k[t] - 1) + 1 = k[t]
      BY <1>3, <2>1, <2>3 DEF Range
    <3>3. RightEntry(c)'
      BY <2>1, <2>3, <3>1, <3>2 DEF RightEntry, ValueOf
    <3> QED
      BY <3>3 DEF WillBeRight
  <2>4. CASE c # x
    <3>1. rev'[c] = rev[c]
      BY <1>3, <2>1, <2>4
    <3>2. RightEntry(c) => RightEntry(c)'
      BY <3>1 DEF RightEntry, ValueOf
    <3>3. WillStore(t, c) => WillStore(t, c)'
      <4>1. ASSUME NEW j \in DOMAIN Alphabet, k[t] <= j, Alphabet[j] = c
            PROVE  k'[t] <= j
        BY <1>3, <2>1, <2>4, <4>1, Alphabets
      <4> QED
        BY <2>1, <4>1 DEF WillStore
    <3> QED
      BY <1>1, <2>2, <3>2, <3>3, SettlesInLoops
  <2> QED
    BY <2>3, <2>4
<1>9. CASE Filled(t)
  <2>1. /\ pc[t] = "fill" /\ k[t] > Len(Alphabet) /\ rev' = rev
    BY <1>9 DEF Filled
  <2>2. Filling(t)
    BY <2>1 DEF Filling
  <2>3. RightEntry(c) => RightEntry(c)'
    BY <2>1 DEF RightEntry, ValueOf
  <2>4. ~WillStore(t, c)
    <3>1. \A j \in DOMAIN Alphabet : ~(k[t] <= j)
      BY <1>3, <2>1, Alphabets
    <3> QED
      BY <2>1, <3>1 DEF WillStore
  <2> QED
    BY <1>1, <2>2, <2>3, <2>4, SettlesInLoops
<1>10. CASE FlagOvertakes(t)
  <2>1. Filling(t) /\ UNCHANGED <<rev, pc, k>>
    BY <1>10 DEF FlagOvertakes
  <2>2. (RightEntry(c) => RightEntry(c)') /\ (WillStore(t, c) => WillStore(t, c)')
    BY <2>1 DEF RightEntry, ValueOf, WillStore
  <2> QED
    BY <1>1, <2>1, <2>2, SettlesInLoops
<1> QED
  BY <1>4, <1>5, <1>6, <1>7, <1>8, <1>9, <1>10 DEF ThreadStep

\* A thread is alone after a step if it was before, or begins its call while
\* nobody fills the table.
LEMMA AloneStep ==
  ASSUME TableTypeOK, NEW t \in Thread, ThreadStep(t), NEW u \in Thread, alone'[u]
  PROVE  \/ alone[u] /\ (Test(t) /\ ~init => u = t \/ ~Deciding(u))
         \/ u = t /\ Call(t) /\ pc[t] = "idle" /\ NobodyFills(t)
<1>1. CASE Call(t)
  <2>1. /\ pc[t] = "idle" /\ ~Test(t)
        /\ alone' = [alone EXCEPT ![t] = \A w \in Thread : ~Filling(w)]
    BY <1>1 DEF Call, Test
  <2>2. CASE u = t
    BY <1>1, <2>1, <2>2 DEF TableTypeOK, NobodyFills
  <2>3. CASE u # t
    BY <2>1, <2>3 DEF TableTypeOK
  <2> QED
    BY <2>2, <2>3
<1>2. CASE Test(t)
  BY <1>2 DEF Test
<1>3. CASE ~Call(t) /\ ~Test(t)
  <2>1. alone' = alone
    BY <1>3 DEF ThreadStep, Clear, Cleared, Fill, Filled, FlagOvertakes, DecodeDigit, Decide
  <2> QED
    BY <1>3, <2>1
<1> QED
  BY <1>1, <1>2, <1>3

LEMMA AloneFillsNext ==
  ASSUME TableTypeOK, AloneFills, NEW t \in Thread, ThreadStep(t)
  PROVE  AloneFills'
<1> SUFFICES ASSUME NEW u \in Thread, alone'[u], Deciding(u)', NEW w \in Thread \ {u},
                    Filling(w)'
             PROVE  FALSE
  BY DEF AloneFills, NobodyFills
<1>1. CASE u = t /\ Call(t) /\ pc[t] = "idle" /\ NobodyFills(t)
  BY <1>1, PlacesNext DEF NobodyFills
<1>2. CASE alone[u] /\ (Test(t) /\ ~init => u = t \/ ~Deciding(u))
  <2>1. CASE w = t
    <3>1. Deciding(u)
      BY <2>1, PlacesNext
    <3>2. ~Filling(t)
      BY <1>2, <2>1, <3>1 DEF AloneFills, NobodyFills
    <3>3. Test(t)
      BY <2>1, <3>2, PlacesNext
    <3>4. ~init
      BY <2>1, <3>3 DEF Test, Go, Filling, TableTypeOK
    <3> QED
      BY <1>2, <2>1, <3>1, <3>3, <3>4
  <2>2. CASE w # t
    <3>1. Filling(w)
      BY <2>2, PlacesNext
    <3>2. ~Deciding(u)
      BY <1>2, <3>1 DEF AloneFills, NobodyFills
    <3>3. u = t
      BY <3>2, PlacesNext
    <3>4. Call(t)
      BY <3>2, <3>3 DEF ThreadStep, Test, Clear, Cleared, Fill, Filled, FlagOvertakes,
                        DecodeDigit, Decide, Deciding, Filling
    <3>5. ~Filling(w)
      <4>1. alone'[t] = (\A v \in Thread : ~Filling(v))
        BY <3>4 DEF Call, TableTypeOK
      <4> QED
        BY <3>3, <4>1
    <3> QED
      BY <3>1, <3>5
  <2> QED
    BY <2>1, <2>2
<1> QED
  BY <1>1, <1>2, AloneStep

LEMMA FlagSeenNext ==
  ASSUME TableTypeOK, FlagSeen, NEW t \in Thread, ThreadStep(t)
  PROVE  FlagSeen'
<1> SUFFICES ASSUME NEW u \in Thread, pc'[u] = "decode" PROVE init'
  BY DEF FlagSeen
<1>1. CASE pc[u] = "decode"
  BY <1>1, PlacesNext DEF FlagSeen
<1>2. CASE pc[u] # "decode"
  <2>1. u = t
    BY <1>2, Others
  <2>2. Test(t) \/ Filled(t)
    BY <1>2, <2>1 DEF ThreadStep, Call, Clear, Cleared, Fill, FlagOvertakes, DecodeDigit, Decide,
                      Go, Advance, TableTypeOK
  <2> QED
    BY <2>1, <2>2 DEF Test, Filled, Go, TableTypeOK
<1> QED
  BY <1>1, <1>2

\* Whoever decodes alone finds the table as it should be.
LEMMA TableRightAlone ==
  ASSUME AloneInv, NEW t \in Thread, alone[t], pc[t] = "decode"
  PROVE  \A c \in Character : RightEntry(c) /\ Stored(c)
<1> SUFFICES ASSUME NEW c \in Character PROVE RightEntry(c)
  BY DEF RightEntry, Stored
<1>1. init /\ ~Filling(t)
  BY DEF AloneInv, FlagSeen, Filling
<1>2. NobodyFills(t)
  BY DEF AloneInv, AloneFills, Deciding
<1>3. \A w \in Thread : ~WillStore(w, c)
  BY <1>1, <1>2 DEF NobodyFills, WillStore, Filling
<1> QED
  BY <1>1, <1>3 DEF AloneInv, TableSettles, WillBeRight, Untouched

LEMMA AloneReadsNext ==
  ASSUME AloneInv, NEW t \in Thread, ThreadStep(t)
  PROVE  AloneReads'
<1> SUFFICES ASSUME NEW u \in Thread, alone'[u] \/ pc'[u] = "idle" PROVE Read(u)'
  BY DEF AloneReads
<1>1. TableTypeOK
  BY DEF AloneInv
<1>2. alone[u] \/ pc[u] = "idle"
  <2>1. CASE pc'[u] = "idle"
    <3>1. u # t
      <4>1. pc'[t] # "idle"
        BY <1>1 DEF ThreadStep, Call, Test, Clear, Cleared, Fill, Filled, FlagOvertakes,
                    DecodeDigit, Decide, Go, Advance, Filling, TableTypeOK
      <4> QED
        BY <2>1, <4>1
    <3> QED
      BY <1>1, <2>1, <3>1, Others
  <2> QED
    BY <1>1, <2>1, AloneStep
<1>3. Read(u)
  BY <1>2 DEF AloneInv, AloneReads
<1>4. CASE u = t
  <2>1. pc[t] = "decode" => \A c \in Character : Stored(c)
    BY <1>2, <1>4, TableRightAlone
  <2> QED
    BY <1>1, <1>3, <1>4, <2>1, ReadStep
<1> QED
  BY <1>1, <1>3, <1>4, ReadOthers

\* A key with a character outside the alphabet matches no fingerprint, nor does
\* one whose digits are others.
LEMMA RefusesOthers ==
  ASSUME AloneInv, NEW t \in Thread, ThreadStep(t), alone[t], pc[t] # "false",
         pc'[t] = "false"
  PROVE  ~Matches(t)
<1> SUFFICES ASSUME Matches(t) PROVE FALSE
  OBVIOUS
<1>1. TableTypeOK
  BY DEF AloneInv
<1>2. DecodeDigit(t) \/ Decide(t)
  BY <1>1 DEF ThreadStep, Call, Test, Clear, Cleared, Fill, Filled, FlagOvertakes, Go, Advance,
              TableTypeOK
<1>3. pc[t] = "decode" /\ Read(t)
  BY <1>2 DEF DecodeDigit, Decide, AloneInv, AloneReads
<1>4. \A j \in DOMAIN Key(t) : ValueOf(Declared(t)[j], Key(t)[j])
  BY DEF Matches, ValueOf
<1>5. CASE DecodeDigit(t)
  <2> DEFINE c == Key(t)[k[t]]
  <2>1. k[t] <= Len(Key(t)) /\ rev[c] < 0
    BY <1>1, <1>5 DEF DecodeDigit, Go, Advance, TableTypeOK
  <2>2. c \in Character /\ rev[c] \in Value /\ RightEntry(c)
    BY <1>1, <1>3, <2>1, DigitType, TableRightAlone
  <2>3. k[t] \in DOMAIN Key(t)
    BY <1>1, <2>1, Keys DEF TableTypeOK
  <2>4. c \in Range(Alphabet)
    BY <1>4, <2>3 DEF ValueOf, Range
  <2>5. rev[c] + 1 \in 1..Len(Alphabet)
    BY <2>2, <2>4, Alphabets DEF RightEntry, ValueOf
  <2> QED
    BY <2>1, <2>2, <2>5, Alphabets DEF Value
<1>6. CASE Decide(t)
  <2>1. k[t] > Len(Key(t)) /\ ~(got[t] # <<>> /\ got[t] = Declared(t))
    BY <1>1, <1>6 DEF Decide, Go, TableTypeOK
  <2>2. /\ Len(got[t]) = Len(Key(t)) /\ DOMAIN Key(t) = 1..Len(got[t])
        /\ \A j \in DOMAIN Key(t) : ValueOf(got[t][j], Key(t)[j])
    BY <1>1, <1>3, <2>1, WholeKeyRead
  <2>3. /\ got[t] \in Seq(0..(Len(Alphabet) - 1)) /\ Declared(t) \in Seq(Nat)
        /\ Key(t) \in Seq(Character) /\ Key(t) # <<>> /\ Len(Declared(t)) = Len(Key(t))
    BY <1>1, Keys DEF TableTypeOK, Matches
  <2>4. got[t] # <<>>
    BY <2>2, <2>3, EmptySeq
  <2>5. ASSUME NEW j \in 1..Len(got[t]) PROVE got[t][j] = Declared(t)[j]
    <3>1. /\ ValueOf(got[t][j], Key(t)[j]) /\ ValueOf(Declared(t)[j], Key(t)[j])
      BY <1>4, <2>2
    <3>2. got[t][j] + 1 = Declared(t)[j] + 1
      BY <3>1, AlphabetAssumption DEF ValueOf
    <3>3. got[t][j] \in Int /\ Declared(t)[j] \in Int
      BY <2>2, <2>3
    <3> QED
      BY <3>2, <3>3
  <2>6. got[t] = Declared(t)
    <3> DEFINE g == got[t]
               d == Declared(t)
    <3>1. DOMAIN g = 1..Len(g) /\ g = [j \in DOMAIN g |-> g[j]]
      BY <2>3
    <3>2. DOMAIN d = 1..Len(d) /\ d = [j \in DOMAIN d |-> d[j]]
      BY <2>3
    <3>3. Len(g) = Len(d)
      BY <2>2, <2>3
    <3>4. \A j \in 1..Len(g) : g[j] = d[j]
      BY <2>5
    <3> HIDE DEF g, d
    <3>5. g = d
      BY <3>1, <3>2, <3>3, <3>4
    <3> QED
      BY <3>5 DEF g, d
  <2> QED
    BY <2>1, <2>4, <2>6
<1> QED
  BY <1>2, <1>5, <1>6

LEMMA RightNext ==
  ASSUME AloneInv, NEW t \in Thread, ThreadStep(t)
  PROVE  RightWhenAlone'
<1> SUFFICES ASSUME NEW u \in Thread, alone'[u]
             PROVE  /\ pc'[u] = "true" => Matches(u)'
                    /\ pc'[u] = "false" => ~Matches(u)'
  BY DEF RightWhenAlone
<1>1. TableTypeOK
  BY DEF AloneInv
<1>2. Matches(u)' = Matches(u)
  BY <1>1, Others DEF Matches, Key, Declared
<1>3. CASE Call(t) /\ u = t
  BY <1>1, <1>3 DEF Call, Go, TableTypeOK
<1>4. CASE ~(Call(t) /\ u = t)
  <2>1. alone[u]
    BY <1>1, <1>4, AloneStep
  <2>2. /\ pc[u] = "true" => Matches(u)
        /\ pc[u] = "false" => ~Matches(u)
    BY <2>1 DEF AloneInv, RightWhenAlone
  <2>3. CASE u # t
    <3>1. pc'[u] = pc[u]
      BY <1>1, <2>3, Others
    <3> QED
      BY <1>2, <2>2, <3>1
  <2>4. CASE u = t
    <3>1. Read(t)
      BY <2>1, <2>4 DEF AloneInv, AloneReads
    <3>2. pc[t] # "true" /\ pc'[t] = "true" => Matches(t)
      BY <1>1, <3>1, AcceptsMatching
    <3>3. pc[t] # "false" /\ pc'[t] = "false" => ~Matches(t)
      BY <2>1, <2>4, RefusesOthers
    <3> QED
      BY <1>2, <2>2, <2>4, <3>2, <3>3
  <2> QED
    BY <2>3, <2>4
<1> QED
  BY <1>3, <1>4

LEMMA AloneInvHolds == TableSpec => []AloneInv
<1>1. TableInit => AloneInv
  <2> SUFFICES ASSUME TableInit PROVE AloneInv
    OBVIOUS
  <2>1. init = FALSE /\ \A t \in Thread : pc[t] = "idle" /\ got[t] = <<>>
    BY DEF TableInit
  <2>2. Untouched
    BY <2>1 DEF Untouched, Filling
  <2> QED
    BY <2>1, <2>2, TableTypeInit
    DEF AloneInv, TableSettles, WillBeRight, AloneFills, Deciding, FlagSeen, AloneReads, Read,
        RightWhenAlone
<1>2. AloneInv /\ [TableNext]_tableVars => AloneInv'
  <2> SUFFICES ASSUME AloneInv, [TableNext]_tableVars PROVE AloneInv'
    OBVIOUS
  <2>1. TableTypeOK /\ TableTypeOK'
    BY TableTypeNext DEF AloneInv
  <2>2. ASSUME NEW t \in Thread, ThreadStep(t)
        PROVE  AloneInv'
    <3>1. TableSettles'
      BY <2>1, <2>2, SettlesNext DEF AloneInv, TableSettles
    <3>2. AloneFills' /\ FlagSeen'
      BY <2>1, <2>2, AloneFillsNext, FlagSeenNext DEF AloneInv
    <3>3. AloneReads' /\ RightWhenAlone'
      BY <2>2, AloneReadsNext, RightNext
    <3> QED
      BY <2>1, <3>1, <3>2, <3>3 DEF AloneInv
  <2>3. CASE UNCHANGED tableVars
    <3>1. UNCHANGED <<inOrder, rev, init, pc, k, identity, got, alone>>
      BY <2>3 DEF tableVars
    <3>2. /\ \A c : RightEntry(c)' = RightEntry(c) /\ \A w : WillStore(w, c)' = WillStore(w, c)
          /\ \A w : /\ Filling(w)' = Filling(w) /\ Deciding(w)' = Deciding(w)
                    /\ Read(w)' = Read(w) /\ Matches(w)' = Matches(w)
      BY <3>1 DEF RightEntry, ValueOf, WillStore, Filling, Deciding, Read, Matches, Key, Declared
    <3>3. TableSettles' /\ AloneFills'
      BY <3>1, <3>2 DEF AloneInv, TableSettles, WillBeRight, Untouched, AloneFills, NobodyFills
    <3>4. FlagSeen' /\ AloneReads' /\ RightWhenAlone'
      BY <3>1, <3>2 DEF AloneInv, FlagSeen, AloneReads, RightWhenAlone
    <3> QED
      BY <2>1, <3>3, <3>4 DEF AloneInv
  <2> QED
    BY <2>2, <2>3 DEF TableNext, ThreadStep
<1> QED
  BY <1>1, <1>2, PTL DEF TableSpec

\* Whatever state racing calls left the table in, and whether or not the build
\* keeps the order of the stores, a call of fingerprintChainOk beside which no
\* other fills the table says true exactly of the keys with the right fingerprint.
THEOREM RightWhenAloneHolds == TableSpec => []RightWhenAlone
<1>1. AloneInv => RightWhenAlone
  BY DEF AloneInv
<1> QED
  BY <1>1, AloneInvHolds, PTL
====
