---- MODULE Sha256Blocks ----
(***************************************************************************)
(* The blocks that the inline SHA-256 of the C library (sha256_update and  *)
(* _final, which collect them in a buffer) and of the C++ library (sha256, *)
(* which pads a copy of the message) compress for a message.  Fingerprints *)
(* agree between the two, and with the other libraries, if the blocks do;  *)
(* what the compression makes of a block is left out.                      *)
(*                                                                         *)
(* A byte is told by what it is: a byte of the message by its index, one   *)
(* of the length field by its place and the length it is taken from.       *)
(***************************************************************************)
EXTENDS Integers, Sequences

CONSTANT Length  \* the lengths of messages, in bytes

ASSUME LengthAssumption == Length \subseteq Nat

Block == 64

MessageByte(n) == <<"message", n, 0>>
EndMark == <<"0x80", 0, 0>>
Zero == <<"zero", 0, 0>>
LengthByte(shift, bits) == <<"length", shift, bits>>
Uninitialised == <<"uninitialised", 0, 0>>

VARIABLES
  library,  \* "C" or "C++"
  length,   \* of the message
  taken,    \* C: bytes of the message that sha256_update has taken
  data,     \* C: the buffer, never cleared
  datalen,
  bitlen,   \* C: bits compressed so far
  msg,      \* C++: the message with its padding
  fed,      \* the blocks compressed so far
  stage     \* "absorbing", "padding", "compressing" or "done"

blocksVars == <<library, length, taken, data, datalen, bitlen, msg, fed, stage>>
buffer == <<taken, data, datalen, bitlen>>

BlocksInit ==
  /\ length \in Length
  /\ taken = 0 /\ data = [j \in 1..Block |-> Uninitialised] /\ datalen = 0 /\ bitlen = 0
  /\ msg = <<>> /\ fed = <<>>
  /\ library \in {"C", "C++"} /\ stage = "absorbing"
----
(***************************************************************************)
(* The C library.                                                          *)
(***************************************************************************)

\* One round of sha256_update's loop.
UpdateByte ==
  /\ library = "C" /\ stage = "absorbing" /\ taken < length
  /\ LET filled == [data EXCEPT ![datalen + 1] = MessageByte(taken)] IN
     /\ data' = filled
     /\ IF datalen + 1 = Block
        THEN datalen' = 0 /\ fed' = Append(fed, filled) /\ bitlen' = bitlen + 512
        ELSE datalen' = datalen + 1 /\ UNCHANGED <<fed, bitlen>>
  /\ taken' = taken + 1
  /\ UNCHANGED <<library, length, msg, stage>>

\* Faulty variant: a block with room for the length is not used for it.
NoRoom_AtEdge == datalen + 1 >= 56

\* With its end mark the last block has no room left for the length.
NoRoom == datalen + 1 > 56

Kept(j) == IF j <= datalen THEN data[j] ELSE IF j = datalen + 1 THEN EndMark ELSE Zero

Last(bits) ==
  [j \in 1..Block |->
     IF j > 56 THEN LengthByte(Block - j, bits) ELSE IF NoRoom THEN Zero ELSE Kept(j)]

Final ==
  /\ library = "C" /\ stage = "absorbing" /\ taken = length
  /\ bitlen' = bitlen + datalen * 8
  /\ data' = Last(bitlen')
  /\ fed' = IF NoRoom THEN fed \o <<[j \in 1..Block |-> Kept(j)], Last(bitlen')>>
            ELSE Append(fed, Last(bitlen'))
  /\ stage' = "done"
  /\ UNCHANGED <<library, length, taken, datalen, msg>>
----
(***************************************************************************)
(* The C++ library.                                                        *)
(***************************************************************************)
CopyMessage ==
  /\ library = "C++" /\ stage = "absorbing"
  /\ msg' = Append([j \in 1..length |-> MessageByte(j - 1)], EndMark)
  /\ stage' = "padding"
  /\ UNCHANGED <<library, length, buffer, fed>>

PushZero ==
  /\ stage = "padding" /\ Len(msg) % Block # 56
  /\ msg' = Append(msg, Zero)
  /\ UNCHANGED <<library, length, buffer, fed, stage>>

PushLength ==
  /\ stage = "padding" /\ Len(msg) % Block = 56
  /\ msg' = msg \o [j \in 1..8 |-> LengthByte(8 - j, length * 8)]
  /\ stage' = "compressing"
  /\ UNCHANGED <<library, length, buffer, fed>>

CompressNext ==
  /\ stage = "compressing" /\ Len(fed) * Block < Len(msg)
  /\ fed' = Append(fed, [j \in 1..Block |-> msg[Len(fed) * Block + j]])
  /\ UNCHANGED <<library, length, buffer, msg, stage>>

Compressed ==
  /\ stage = "compressing" /\ Len(fed) * Block >= Len(msg)
  /\ stage' = "done"
  /\ UNCHANGED <<library, length, buffer, msg, fed>>

BlocksNext ==
  \/ UpdateByte \/ Final
  \/ CopyMessage \/ PushZero \/ PushLength \/ CompressNext \/ Compressed

BlocksSpec == BlocksInit /\ [][BlocksNext]_blocksVars
----
(***************************************************************************)
(* Properties.                                                             *)
(***************************************************************************)

BlocksTypeOK ==
  /\ library \in {"C", "C++"}
  /\ length \in Length /\ taken \in 0..length
  /\ DOMAIN data = 1..Block /\ datalen \in 0..(Block - 1) /\ bitlen \in Nat
  /\ \A b \in DOMAIN fed : DOMAIN fed[b] = 1..Block
  /\ stage \in {"absorbing", "padding", "compressing", "done"}

\* FIPS 180-4, 5.1.1: the blocks of a message, its end mark and its length are
\* as few as hold them, and byte x of them is:
BlockCount == (length + 9 + Block - 1) \div Block

Padded(x) ==
  IF x < length THEN MessageByte(x)
  ELSE IF x = length THEN EndMark
  ELSE IF x < BlockCount * Block - 8 THEN Zero
  ELSE LengthByte(BlockCount * Block - 1 - x, length * 8)

\* Both libraries compress exactly the padded message, at every length, with
\* nothing left in the buffer from the block before.
FeedsPadded ==
  stage = "done" =>
    /\ Len(fed) = BlockCount
    /\ \A b \in 1..Len(fed), j \in 1..Block : fed[b][j] = Padded((b - 1) * Block + j - 1)
====
