---- MODULE DidDnsLibraries ----
(***************************************************************************)
(* How each library under 02_Libraries converts the fields of did:dns      *)
(* records and decodes keys: the values of Profile.                        *)
(***************************************************************************)
EXTENDS DidDns

\* Only a text that is a number as a whole counts, any other as no field.
Whole(absent) ==
  [prefix |-> FALSE, signed |-> TRUE, blank |-> absent, junk |-> absent, absent |-> absent,
   cut |-> FALSE, takes |-> "any", capped |-> FALSE, holds |-> "any"]
Unsigned(reader) == [reader EXCEPT !.signed = FALSE]
\* The number a text begins with counts.
Leading(absent, blank, junk) ==
  [Whole(absent) EXCEPT !.prefix = TRUE, !.blank = blank, !.junk = junk]
\* A number out of range is junk; is the nearest in range; or wraps around.
Within(width, reader) == [reader EXCEPT !.takes = width]
CappedAt(width, reader) == [reader EXCEPT !.takes = width, !.capped = TRUE]
WrappedTo(width, reader) == [reader EXCEPT !.holds = width]

\* The conversions most libraries share.
Common ==
  [version |-> Within("int64", Whole(1)), time |-> Within("int64", Whole(0)),
   keepsLead |-> FALSE, blankKty |-> FALSE,
   padded |-> {"bytes"}, noisy |-> {"error"}, hashesEmpty |-> FALSE,
   trimsTokens |-> FALSE, fixedBuffers |-> FALSE]

Dart == Common
\* tonumber goes on in floating point, past every version and every clock.
Lua == [Common EXCEPT !.version = Whole(1), !.time = Whole(0)]
Swift == Common

\* RawURLEncoding takes no padding; the digits are read by hand, without a sign
\* and without a look at what no longer fits.
GoKeys == [Common EXCEPT !.padded = {"error"}, !.hashesEmpty = TRUE]
Go == [GoKeys EXCEPT !.version = WrappedTo("int64", Unsigned(Whole(1))),
                     !.time = WrappedTo("int64", Unsigned(Whole(0))),
                     !.blankKty = TRUE]

\* The version is a u32.
Rust == [Common EXCEPT !.version = Within("uint32", Unsigned(Whole(1))),
                       !.padded = {"error"}, !.hashesEmpty = TRUE]

\* Of these three the version is an int and a time a long.
Int32 == Within("int32", Whole(1))
LongOrNone == Within("int64", Whole(NoExpiry))

\* java.util.Base64 and Convert.FromBase64String throw on a foreign character.
JavaKeys == [Common EXCEPT !.noisy = {"throws"}, !.hashesEmpty = TRUE]
Java == [JavaKeys EXCEPT !.version = Int32, !.time = LongOrNone]
KotlinKeys == [Common EXCEPT !.noisy = {"throws"}, !.hashesEmpty = TRUE]
Kotlin == [KotlinKeys EXCEPT !.version = Int32, !.time = LongOrNone]
CSharpKeys == [Common EXCEPT !.noisy = {"throws"}, !.hashesEmpty = TRUE]
CSharp == [CSharpKeys EXCEPT !.version = Int32, !.time = LongOrNone]

\* NaN, which no number equals, is 0 here: it is not 1 either.  Doubles round
\* numbers past 2^53, to numbers past 2^53.  Buffer.from passes over foreign
\* characters.  Records come from the caller: resolveIdentityDidDns, which asks
\* dns.resolveTxt without a callback, never has any.
JavaScript ==
  [Common EXCEPT !.version = Leading(1, 0, 0), !.time = Whole(NoExpiry),
                 !.noisy = {"bytes"}, !.hashesEmpty = TRUE]

\* int() throws; urlsafe_b64decode drops foreign characters, and throws if the
\* padding, computed before, no longer fits.
Python ==
  [Common EXCEPT !.version = [Whole(1) EXCEPT !.blank = Throws, !.junk = Throws],
                 !.time = Whole(NoExpiry),
                 !.noisy = {"bytes", "throws"}, !.hashesEmpty = TRUE]

Php == [Common EXCEPT !.version = CappedAt("int64", Leading(1, 0, 0)),
                      !.time = CappedAt("int64", Leading(0, 0, 0))]
Ruby == [Common EXCEPT !.version = Leading(1, 0, 0), !.time = Leading(0, 0, 0)]

\* strtoul and strtol, on the default where the buffer stayed empty, of fifteen
\* characters, which a long holds; the version is cast to an unsigned int. fp[17]
\* and blacklist[512] cut off what is longer.
Fifteen(reader) == [reader EXCEPT !.cut = TRUE]
CKeys == [Common EXCEPT !.hashesEmpty = TRUE, !.trimsTokens = TRUE]
C == [CKeys EXCEPT !.version = WrappedTo("uint32", Fifteen(Leading(1, 1, 0))),
                   !.time = Fifteen(Leading(0, 0, 0)),
                   !.blankKty = TRUE, !.fixedBuffers = TRUE]

\* stoul and stoll throw, out of range too; the version is cast to an unsigned
\* int.  The record is kept with the blanks before it, so
\* that the prefix taken off is not "did:dns:" and "v" is not found.
Cpp ==
  [Common EXCEPT !.version = WrappedTo("uint32", Within("stoul", Leading(1, Throws, Throws))),
                 !.time = Within("int64", Leading(0, Throws, Throws)), !.keepsLead = TRUE]

ProfileOf ==
  [dart |-> Dart, lua |-> Lua, swift |-> Swift, go |-> Go, rust |-> Rust,
   java |-> Java, kotlin |-> Kotlin, csharp |-> CSharp, javascript |-> JavaScript,
   python |-> Python, php |-> Php, ruby |-> Ruby, c |-> C, cpp |-> Cpp]
====
