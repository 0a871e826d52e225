---- MODULE TxtBuffer ----
(***************************************************************************)
(* How the C library gets at the texts of a TXT reply: extract_all_txt     *)
(* walks the answers twice, to size a buffer and to fill it, and           *)
(* kirin_resolve_identity walks the buffer from NUL to NUL.  Bytes are     *)
(* modelled as bytes, for a length, a separator and a byte of a text are   *)
(* told apart by nothing else.  What C++ reads is stated beside it.        *)
(***************************************************************************)
EXTENDS Integers, Sequences, SequencesExt

CONSTANTS
  Byte,          \* the values of a byte in RDATA, NUL (0) among them
  Response,      \* the answer sections a query may return
  IdentityText   \* the texts that kirin_parse_identity_txt takes

Answer == [txt : BOOLEAN, rdata : Seq(Byte)]

ASSUME TxtAssumption ==
  /\ Byte \subseteq 0..255 /\ 0 \in Byte
  /\ Response \subseteq Seq(Answer)
  \* Texts that strncmp(txt, "id=", 3) takes are C strings, and not empty.
  /\ \A t \in IdentityText : t # <<>> /\ 0 \notin Range(t)

NUL == 0
Junk == -1  \* what malloc left

VARIABLES
  response,
  pass,    \* "count", "copy", "walk" or "done"
  i, pos,  \* the answer, and the place in its RDATA, that the pass is at
  total,   \* the bytes counted
  buf,     \* the buffer, of total + 1 bytes
  off,     \* the bytes copied
  p,       \* the place of the next text in the buffer
  tried,   \* the texts tried, in order
  outcome  \* of kirin_resolve_identity

place == <<i, pos>>
bufferVars == <<response, pass, place, total, buf, off, p, tried, outcome>>

BufferInit ==
  /\ response \in Response
  /\ pass = "count" /\ i = 1 /\ pos = 1
  /\ total = 0 /\ buf = <<>> /\ off = 0 /\ p = 0
  /\ tried = <<>> /\ outcome = "none"
----
\* A character-string that is not empty begins at pos, and ends in the RDATA.
StringAt(rdata, at) ==
  at <= Len(rdata) /\ rdata[at] >= 1 /\ at + rdata[at] <= Len(rdata)

String(rdata, at) == SubSeq(rdata, at + 1, at + rdata[at])

Here == response[i].rdata
AtString == i <= Len(response) /\ response[i].txt /\ StringAt(Here, pos)
Step == pos' = pos + 1 + Here[pos] /\ i' = i

Fail == outcome' = "KIRIN_ERR_DNS" /\ pass' = "done"

\* ns_initparse rejects the message, or malloc fails.
ExtractFails ==
  /\ pass = "count"
  /\ Fail
  /\ UNCHANGED <<response, place, total, buf, off, p, tried>>

\* Faulty variant: the separator is not counted.
Count_NoSeparator ==
  /\ pass = "count" /\ AtString
  /\ total' = total + Here[pos]
  /\ Step
  /\ UNCHANGED <<response, pass, buf, off, p, tried, outcome>>

Count ==
  /\ pass = "count" /\ AtString
  /\ total' = total + Here[pos] + 1
  /\ Step
  /\ UNCHANGED <<response, pass, buf, off, p, tried, outcome>>

\* Either pass is through with an answer, or never looks into it.
NextAnswer ==
  /\ pass \in {"count", "copy"} /\ i <= Len(response) /\ ~AtString
  /\ i' = i + 1 /\ pos' = 1
  /\ UNCHANGED <<response, pass, total, buf, off, p, tried, outcome>>

\* After the first pass.
Allocate ==
  /\ pass = "count" /\ i > Len(response)
  /\ IF total = 0 THEN Fail /\ UNCHANGED <<place, buf>>
     ELSE /\ buf' = [x \in 0..total |-> Junk]
          /\ pass' = "copy" /\ i' = 1 /\ pos' = 1
          /\ UNCHANGED outcome
  /\ UNCHANGED <<response, total, off, p, tried>>

Copy ==
  /\ pass = "copy" /\ AtString
  /\ LET end == off + Here[pos] IN
     /\ buf' = [x \in DOMAIN buf |->
                  IF x \in off..(end - 1) THEN Here[pos + 1 + x - off]
                  ELSE IF x = end THEN NUL ELSE buf[x]]
     /\ off' = end + 1
  /\ Step
  /\ UNCHANGED <<response, pass, total, p, tried, outcome>>

\* After the second pass.
Terminate ==
  /\ pass = "copy" /\ i > Len(response)
  /\ buf' = [buf EXCEPT ![total] = NUL]
  /\ pass' = "walk"
  /\ UNCHANGED <<response, place, total, off, p, tried, outcome>>

\* p + strlen(p)
EndOf(at) == CHOOSE e \in DOMAIN buf :
               e >= at /\ buf[e] = NUL /\ \A x \in at..(e - 1) : buf[x] # NUL

Text(at) == [x \in 1..(EndOf(at) - at) |-> buf[at + x - 1]]

\* Faulty variant: the walk goes on after the identity it found.
TryText_NoBreak ==
  /\ pass = "walk" /\ buf[p] # NUL
  /\ tried' = Append(tried, Text(p))
  /\ outcome' = IF Text(p) \in IdentityText THEN "KIRIN_OK" ELSE outcome
  /\ p' = EndOf(p) + 1
  /\ UNCHANGED <<response, pass, place, total, buf, off>>

\* One round of the walk.
TryText ==
  /\ pass = "walk" /\ buf[p] # NUL
  /\ tried' = Append(tried, Text(p))
  /\ IF Text(p) \in IdentityText
     THEN outcome' = "KIRIN_OK" /\ pass' = "done" /\ UNCHANGED p
     ELSE p' = EndOf(p) + 1 /\ UNCHANGED <<pass, outcome>>
  /\ UNCHANGED <<response, place, total, buf, off>>

EndOfTexts ==
  /\ pass = "walk" /\ buf[p] = NUL
  /\ Fail
  /\ UNCHANGED <<response, place, total, buf, off, p, tried>>

BufferNext ==
  \/ ExtractFails \/ Count \/ NextAnswer \/ Allocate \/ Copy \/ Terminate
  \/ TryText \/ EndOfTexts

BufferSpec == BufferInit /\ [][BufferNext]_bufferVars
----
(***************************************************************************)
(* Properties.                                                             *)
(***************************************************************************)

\* The passes agree on what they walk: the second one never writes past the
\* buffer that the first one sized, and leaves no byte of it as malloc did.
BufferTypeOK ==
  /\ pass \in {"count", "copy", "walk", "done"}
  /\ off \in 0..total
  /\ buf # <<>> => DOMAIN buf = 0..total /\ p \in 0..total
  /\ pass = "walk" => off = total /\ \A x \in 0..total : buf[x] # Junk
  /\ outcome \in {"none", "KIRIN_OK", "KIRIN_ERR_DNS"}

\* The character-strings of an answer, up to the first that is empty or cut off.
Strings(answer) ==
  LET from[at \in 1..(Len(answer.rdata) + 1)] ==
        IF StringAt(answer.rdata, at)
        THEN <<String(answer.rdata, at)>> \o from[at + 1 + answer.rdata[at]]
        ELSE <<>>
  IN  IF answer.txt THEN from[1] ELSE <<>>

AllStrings == FlattenSeq([r \in DOMAIN response |-> Strings(response[r])])

First(texts) == SelectInSeq(texts, LAMBDA t : t \in IdentityText)  \* 0 if none

NulFree == \A n \in DOMAIN AllStrings : NUL \notin Range(AllStrings[n])

\* parse_txt_response of the C++ library, over the same reply.
CppTexts ==
  FlattenSeq([r \in DOMAIN response |->
    LET rdata == response[r].rdata
    IN  IF response[r].txt /\ StringAt(rdata, 1) THEN <<String(rdata, 1)>> ELSE <<>>])

\* kirin_resolve_identity reports the first text of the reply that is an
\* identity, and fails only if none is, whatever else surrounds it; and the C++
\* library finds the same one if every record is a single string.
FindsFirst ==
  pass = "done" /\ off # 0 /\ NulFree =>
    LET n == First(AllStrings)
        c == First(CppTexts)
    IN
    /\ IF n = 0 THEN outcome = "KIRIN_ERR_DNS" /\ tried = AllStrings
       ELSE outcome = "KIRIN_OK" /\ tried = SubSeq(AllStrings, 1, n)
    /\ (\A r \in DOMAIN response : Len(Strings(response[r])) <= 1) =>
         IF c = 0 THEN outcome = "KIRIN_ERR_DNS"
         ELSE outcome = "KIRIN_OK" /\ Last(tried) = CppTexts[c]
====
