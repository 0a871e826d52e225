---- MODULE Base64Url ----
(***************************************************************************)
(* Base64URL in the C and C++ libraries (base64url_encode and _decode,     *)
(* base64urlEncode and -Decode), which turn public keys into bytes and     *)
(* hashes into fingerprints.  Both directions shift bits through one       *)
(* signed int, val, that is never masked; valb says how many of its low    *)
(* bits are still to go out.  From the sixth digit on, bits are shifted    *)
(* out of the register's top: what the decoder takes out may not depend on *)
(* what becomes of them.                                                   *)
(*                                                                         *)
(* A run encodes some bytes and decodes the result, or decodes a text that *)
(* somebody published.  A digit of a text is its value 0..63.              *)
(***************************************************************************)
EXTENDS Integers, Sequences

CONSTANTS
  Inputs,     \* byte strings to encode
  Published,  \* texts to decode
  Pad,        \* the padding character '='
  Foreign,    \* a character outside the alphabet
  Modulus,    \* 2 to the width of the register
  MaxOut      \* room in the C decoder's output buffer

Byte == 0..255
Digit == 0..63

ASSUME InputsAssumption == Inputs \subseteq Seq(Byte)
ASSUME PublishedAssumption == Published \subseteq Seq(Digit \cup {Pad, Foreign})
ASSUME SymbolAssumption == Pad \notin Digit /\ Foreign \notin Digit /\ Pad # Foreign
\* The register has twelve bits or more.
ASSUME WidthAssumption == Modulus \in Nat \ {0} /\ Modulus % 4096 = 0
ASSUME MaxOutAssumption == MaxOut \in Nat

VARIABLES
  bounded,  \* the library: C writes to a buffer of MaxOut bytes, C++ to a vector
  bytes,    \* history: what was encoded, if anything was
  text,     \* what is decoded
  digits,   \* history: the digits of the text that have been read
  phase,    \* "encoding", "decoding", "decoded" or "failed"
  p,        \* the next byte or character
  val, valb,
  out       \* the digits, then the bytes, produced so far

vars == <<bounded, bytes, text, digits, phase, p, val, valb, out>>

PowerOfTwo == <<2, 4, 8, 16, 32, 64, 128, 256>>
ShiftRight(v, s) == IF s = 0 THEN v ELSE v \div PowerOfTwo[s]
ShiftIn(v, s, x) == (v * PowerOfTwo[s] + x) % Modulus

StartDecoding ==
  phase' = "decoding" /\ p' = 1 /\ val' = 0 /\ valb' = -8 /\ out' = <<>>

Init ==
  /\ bounded \in BOOLEAN
  /\ digits = <<>> /\ p = 1 /\ val = 0 /\ out = <<>>
  /\ \/ bytes \in Inputs /\ text = <<>> /\ phase = "encoding" /\ valb = -6
     \/ text \in Published /\ bytes = <<>> /\ phase = "decoding" /\ valb = -8
----
(***************************************************************************)
(* Encoding.                                                               *)
(***************************************************************************)
AbsorbByte ==
  /\ phase = "encoding" /\ valb < 0 /\ p <= Len(bytes)
  /\ val' = ShiftIn(val, 8, bytes[p])
  /\ valb' = valb + 8
  /\ p' = p + 1
  /\ UNCHANGED <<bounded, bytes, text, digits, phase, out>>

EmitDigit ==
  /\ phase = "encoding" /\ valb >= 0
  /\ out' = Append(out, ShiftRight(val, valb) % 64)
  /\ valb' = valb - 6
  /\ UNCHANGED <<bounded, bytes, text, digits, phase, p, val>>

\* The last digit takes the bits that are left, filled up with zeros.
LastDigit == ShiftRight(ShiftIn(val, 8, 0), valb + 8) % 64

\* Faulty variant: the last digit is not filled up.
EndEncoding_Unfilled ==
  /\ phase = "encoding" /\ valb < 0 /\ p > Len(bytes)
  /\ text' = IF valb > -6 THEN Append(out, val % 64) ELSE out
  /\ StartDecoding
  /\ UNCHANGED <<bounded, bytes, digits>>

EndEncoding ==
  /\ phase = "encoding" /\ valb < 0 /\ p > Len(bytes)
  /\ text' = IF valb > -6 THEN Append(out, LastDigit) ELSE out
  /\ StartDecoding
  /\ UNCHANGED <<bounded, bytes, digits>>
----
(***************************************************************************)
(* Decoding.                                                               *)
(***************************************************************************)
Reading(symbols) == phase = "decoding" /\ p <= Len(text) /\ text[p] \in symbols

Full == bounded /\ Len(out) >= MaxOut

SkipPad ==
  /\ Reading({Pad})
  /\ p' = p + 1
  /\ UNCHANGED <<bounded, bytes, text, digits, phase, val, valb, out>>

\* Faulty variant: a byte is taken out only when two bits are over.
TakeDigit_Late ==
  /\ Reading(Digit)
  /\ LET v == ShiftIn(val, 6, text[p]) IN
     /\ val' = v
     /\ IF valb + 6 <= 0
        THEN valb' = valb + 6 /\ UNCHANGED out
        ELSE /\ ~Full
             /\ out' = Append(out, ShiftRight(v, valb + 6) % 256)
             /\ valb' = valb - 2
  /\ p' = p + 1
  /\ digits' = Append(digits, text[p])
  /\ UNCHANGED <<bounded, bytes, text, phase>>

TakeDigit ==
  /\ Reading(Digit)
  /\ LET v == ShiftIn(val, 6, text[p]) IN
     /\ val' = v
     /\ IF valb + 6 < 0
        THEN valb' = valb + 6 /\ UNCHANGED out
        ELSE /\ ~Full
             /\ out' = Append(out, ShiftRight(v, valb + 6) % 256)
             /\ valb' = valb - 2
  /\ p' = p + 1
  /\ digits' = Append(digits, text[p])
  /\ UNCHANGED <<bounded, bytes, text, phase>>

\* A foreign character, or a byte for which there is no room.
Fail ==
  /\ Reading({Foreign}) \/ (Reading(Digit) /\ valb + 6 >= 0 /\ Full)
  /\ phase' = "failed"
  /\ UNCHANGED <<bounded, bytes, text, digits, p, val, valb, out>>

EndDecoding ==
  /\ phase = "decoding" /\ p > Len(text)
  /\ phase' = "decoded"
  /\ UNCHANGED <<bounded, bytes, text, digits, p, val, valb, out>>

Next ==
  \/ AbsorbByte \/ EmitDigit \/ EndEncoding
  \/ SkipPad \/ TakeDigit \/ Fail \/ EndDecoding

Spec == Init /\ [][Next]_vars
----
(***************************************************************************)
(* Properties.                                                             *)
(***************************************************************************)

TypeOK ==
  /\ bounded \in BOOLEAN
  /\ bytes \in Seq(Byte)
  /\ text \in Seq(Digit \cup {Pad, Foreign})
  /\ digits \in Seq(Digit)
  /\ phase \in {"encoding", "decoding", "decoded", "failed"}
  /\ p \in Nat \ {0}
  /\ val \in 0..(Modulus - 1)
  /\ valb \in {-8, -6, -4, -2, 0, 2, 4, 6}
  /\ out \in Seq(Byte)

\* RFC 4648: byte k of the digits ds.  Four digits make three bytes.
ByteOf(ds, k) ==
  LET first == 4 * ((k - 1) \div 3) + 1
      place == (k - 1) % 3
  IN IF place = 0 THEN ds[first] * 4 + ds[first + 1] \div 16
     ELSE IF place = 1 THEN (ds[first + 1] % 16) * 16 + ds[first + 2] \div 4
     ELSE (ds[first + 2] % 4) * 64 + ds[first + 3]

\* The decoder gives the bytes that the digits stand for, all of them and no
\* more, however much the register overflowed on the way.
DecodesDigits ==
  phase = "decoded" =>
    /\ Len(out) = (3 * Len(digits)) \div 4
    /\ \A k \in DOMAIN out : out[k] = ByteOf(digits, k)

\* What one of the libraries encodes it decodes to the same bytes: a fingerprint
\* or key written by it is read back as it was.
RoundTrip == phase = "decoded" /\ bytes # <<>> => out = bytes
====
