---- MODULE TxtRecords_proofs ----
(***************************************************************************)
(* What is proved of the readers of TXT records: of the C library's buffer *)
(* and its two passes (TxtBuffer), of identity records (IdentityTxt) and   *)
(* of the legacy ports (LegacyPorts), each with an inductive invariant of  *)
(* its own, for they share no state.                                       *)
(*                                                                         *)
(* FlattenSeq and Strings are recursive functions.  That they exist, and   *)
(* what they come to, follows from the least number principle (NatMin,     *)
(* from the theorems on well-founded relations), in the form of UpTo.      *)
(***************************************************************************)
EXTENDS TxtRecords, SequenceTheorems, WellFoundedInduction, TLAPS

----
(***************************************************************************)
(* Least and greatest numbers.                                             *)
(***************************************************************************)

LEMMA NatMin ==
  ASSUME NEW T, T \subseteq Nat, T # {}
  PROVE  \E m \in T : \A n \in T : m <= n
<1> DEFINE R == OpToRel(<, Nat)
<1>1. IsWellFoundedOn(R, Nat)
  BY NatLessThanWellFounded
<1>2. ASSUME NEW a \in Nat, NEW b \in Nat, a < b PROVE <<a, b>> \in R
  BY <1>2, Zenon DEF OpToRel
<1> HIDE DEF R
<1>3. PICK m \in T : \A n \in T : ~ (<<n, m>> \in R)
  BY <1>1, WFMin, Zenon
<1>4. ASSUME NEW n \in T PROVE m <= n
  <2>1. ~ (n < m)
    BY <1>2, <1>3, <1>4
  <2> QED
    BY <2>1
<1> QED
  BY <1>3, <1>4

LEMMA LeastOf ==
  ASSUME NEW T, T \subseteq Nat, T # {}
  PROVE  Min(T) \in T /\ \A n \in T : Min(T) <= n
<1>1. \E m \in T : \A n \in T : m <= n
  BY NatMin
<1> QED
  BY <1>1, Zenon DEF Min

LEMMA GreatestOf ==
  ASSUME NEW n \in Nat, NEW T, T \subseteq 1..n, T # {}
  PROVE  Max(T) \in T /\ \A x \in T : x <= Max(T)
<1> DEFINE U == {n - x : x \in T}
<1>1. U \subseteq Nat /\ U # {}
  <2>1. \A x \in T : x \in Nat /\ n - x \in Nat
    OBVIOUS
  <2> QED
    BY <2>1
<1>2. PICK m \in U : \A y \in U : m <= y
  BY <1>1, NatMin
<1>3. PICK x \in T : m = n - x
  BY <1>2
<1>4. \A y \in T : y <= x
  <2> TAKE y \in T
  <2>1. n - y \in U
    OBVIOUS
  <2>2. m <= n - y
    BY <1>2, <2>1
  <2> QED
    BY <1>3, <2>2
<1>5. \E g \in T : \A y \in T : g >= y
  BY <1>4
<1>6. Max(T) \in T /\ \A y \in T : Max(T) >= y
  BY <1>5, Zenon DEF Max
<1> QED
  BY <1>6

\* What SelectInSeq and SelectLastInSeq return.
LEMMA LeastIndex ==
  ASSUME NEW n \in Nat, NEW T, T \subseteq 1..n, NEW w, w = IF T # {} THEN Min(T) ELSE 0
  PROVE  \/ T = {} /\ w = 0
         \/ w \in T /\ w \in 1..n /\ \A x \in T : w <= x
<1>1. CASE T = {}
  <2>1. w = 0
    BY <1>1, Zenon
  <2> QED
    BY <1>1, <2>1
<1>2. CASE T # {}
  <2>1. T \subseteq Nat /\ w = Min(T)
    BY <1>2
  <2> QED
    BY <1>2, <2>1, LeastOf
<1> QED
  BY <1>1, <1>2

LEMMA GreatestIndex ==
  ASSUME NEW n \in Nat, NEW T, T \subseteq 1..n, NEW w, w = IF T # {} THEN Max(T) ELSE 0
  PROVE  \/ T = {} /\ w = 0
         \/ w \in T /\ w \in 1..n /\ \A x \in T : x <= w
<1>1. CASE T = {}
  <2>1. w = 0
    BY <1>1, Zenon
  <2> QED
    BY <1>1, <2>1
<1>2. CASE T # {}
  <2>1. w = Max(T)
    BY <1>2
  <2> QED
    BY <1>2, <2>1, GreatestOf
<1> QED
  BY <1>1, <1>2

\* What holds of 1 and passes on from each number to the next.
LEMMA UpTo ==
  ASSUME NEW n \in Nat, NEW T, 1 \in T, \A m \in 1..(n - 1) : m \in T => m + 1 \in T
  PROVE  1..n \subseteq T
<1> SUFFICES ASSUME NEW x \in 1..n, x \notin T PROVE FALSE
  OBVIOUS
<1> DEFINE U == {y \in 1..n : y \notin T}
<1>1. U \subseteq Nat /\ U # {}
  OBVIOUS
<1>2. PICK m \in U : \A y \in U : m <= y
  BY <1>1, NatMin
<1>3. m # 1 /\ m - 1 \in 1..(n - 1)
  BY <1>2
<1>4. m - 1 \in T
  BY <1>2, <1>3
<1>5. (m - 1) + 1 \in T
  BY <1>3, <1>4
<1> QED
  BY <1>2, <1>5

----
(***************************************************************************)
(* FlattenSeq.                                                             *)
(***************************************************************************)

\* ConcatProperties, for single places.
LEMMA Glued ==
  ASSUME NEW S, NEW a \in Seq(S), NEW b \in Seq(S)
  PROVE  /\ a \o b \in Seq(S)
         /\ Len(a \o b) = Len(a) + Len(b)
         /\ \A x \in 1..Len(a) : (a \o b)[x] = a[x]
         /\ \A x \in 1..Len(b) : (a \o b)[Len(a) + x] = b[x]
<1>1. Len(a) \in Nat /\ Len(b) \in Nat
  OBVIOUS
<1> QED
  BY <1>1

LEMMA GluedSecond ==
  ASSUME NEW S, NEW a \in Seq(S), NEW b \in Seq(S)
  PROVE  \A x \in 1..Len(b) : (a \o b)[Len(a) + x] = b[x]
  BY Glued

LEMMA GluedToOne ==
  ASSUME NEW S, NEW e \in Seq(S), Len(e) = 1, NEW t \in Seq(S)
  PROVE  /\ Len(e \o t) = 1 + Len(t)
         /\ (e \o t)[1] = e[1]
         /\ \A x \in 1..Len(t) : (e \o t)[1 + x] = t[x]
<1> DEFINE c == e \o t
<1>1. Len(c) = Len(e) + Len(t)
  BY Glued, Zenon
<1>2. \A x \in 1..Len(e) : c[x] = e[x]
  BY Glued, Zenon
<1>3. \A x \in 1..Len(t) : c[Len(e) + x] = t[x]
  BY GluedSecond, Zenon
<1> HIDE DEF c
<1>4. 1 \in 1..Len(e)
  OBVIOUS
<1>5. /\ Len(c) = 1 + Len(t)
      /\ c[1] = e[1]
      /\ \A x \in 1..Len(t) : c[1 + x] = t[x]
  BY <1>1, <1>2, <1>3, <1>4
<1> QED
  BY <1>5 DEF c

LEMMA Prefixed ==
  ASSUME NEW S, NEW h \in S, NEW t \in Seq(S)
  PROVE  /\ Len(<<h>> \o t) = 1 + Len(t)
         /\ (<<h>> \o t)[1] = h
         /\ \A x \in 1..Len(t) : (<<h>> \o t)[1 + x] = t[x]
<1>1. <<h>> \in Seq(S) /\ Len(<<h>>) = 1 /\ <<h>>[1] = h
  OBVIOUS
<1> QED
  BY <1>1, GluedToOne, Zenon

\* A sequence is told by its length and its elements.
LEMMA Elements ==
  ASSUME NEW S, NEW s \in Seq(S), NEW n, Len(s) = n
  PROVE  s = [x \in 1..n |-> s[x]]
  OBVIOUS

LEMMA EmptyLength == Len(<<>>) = 0
  BY EmptySeq

LEMMA NotEmpty ==
  ASSUME NEW s, Len(s) = 1
  PROVE  s # <<>>
  BY EmptyLength

\* f gathers the first n sequences one after the other.
Gathers(f, ss, n) ==
  /\ f[1] = ss[1]
  /\ \A m \in 2..n : f[m] = f[m - 1] \o ss[m]

OneEach(ss, n, S) == \A m \in 1..n : ss[m] \in Seq(S) /\ Len(ss[m]) = 1

\* The recursive function that defines FlattenSeq exists, and is what it says.
LEMMA Flattening ==
  ASSUME NEW S, NEW ss \in Seq(Seq(S)), ss # <<>>
  PROVE  \E f \in [1..Len(ss) -> Seq(S)] : Gathers(f, ss, Len(ss)) /\ FlattenSeq(ss) = f[Len(ss)]
<1> DEFINE N == Len(ss)
           Cat(a, b) == a \o b
<1>1. N \in Nat \ {0} /\ \A m \in 1..N : ss[m] \in Seq(S)
  BY EmptySeq
<1>2. \A a, b \in Seq(S) : Cat(a, b) \in Seq(S)
  OBVIOUS
<1>3. /\ FlattenSeq(ss) = LET F[x \in 1..N] == IF x = 1 THEN ss[x] ELSE Cat(F[x - 1], ss[x]) IN F[N]
      /\ \A f : Gathers(f, ss, N) <=> f[1] = ss[1] /\ \A m \in 2..N : f[m] = Cat(f[m - 1], ss[m])
  BY <1>1, Zenon DEF FlattenSeq, Gathers
<1> HIDE DEF N, Cat
<1> DEFINE Upto(g, m) == g[1] = ss[1] /\ \A x \in 2..m : g[x] = Cat(g[x - 1], ss[x])
           T == {m \in 1..N : \E g \in [1..m -> Seq(S)] : Upto(g, m)}
<1>4. 1 \in T
  <2> DEFINE h == [x \in 1..1 |-> ss[1]]
  <2>1. h \in [1..1 -> Seq(S)]
    BY <1>1
  <2>2. Upto(h, 1)
    OBVIOUS
  <2> HIDE DEF h, Upto
  <2> QED
    BY <1>1, <2>1, <2>2
<1>5. ASSUME NEW m \in 1..(N - 1), m \in T PROVE m + 1 \in T
  <2>1. PICK g \in [1..m -> Seq(S)] : Upto(g, m)
    BY <1>5
  <2> DEFINE h == [x \in 1..(m + 1) |-> IF x <= m THEN g[x] ELSE Cat(g[m], ss[m + 1])]
  <2>2. Cat(g[m], ss[m + 1]) \in Seq(S)
    BY <1>1, <1>2, <2>1
  <2>3. h \in [1..(m + 1) -> Seq(S)]
    BY <1>1, <2>1, <2>2
  <2>4. h[1] = ss[1]
    BY <1>1, <2>1
  <2>5. ASSUME NEW x \in 2..(m + 1) PROVE h[x] = Cat(h[x - 1], ss[x])
    <3>1. CASE x <= m
      <4>1. x \in 2..m /\ x - 1 \in 1..m /\ x - 1 <= m /\ m \in Int /\ x \in 1..(m + 1) /\ x - 1 \in 1..(m + 1)
        BY <1>1, <2>5, <3>1
      <4>2. h[x] = g[x] /\ h[x - 1] = g[x - 1]
        BY <4>1
      <4> QED
        BY <2>1, <4>1, <4>2
    <3>2. CASE x = m + 1
      <4>1. m \in Int /\ x \in 1..(m + 1) /\ m \in 1..(m + 1) /\ ~(x <= m) /\ x - 1 = m /\ m <= m
        BY <1>1, <2>5, <3>2
      <4>2. h[x] = Cat(g[m], ss[x]) /\ h[m] = g[m]
        BY <3>2, <4>1
      <4> QED
        BY <4>1, <4>2
    <3>3. x <= m \/ x = m + 1
      BY <1>1, <2>5
    <3> QED
      BY <3>1, <3>2, <3>3
  <2>6. Upto(h, m + 1)
    BY <2>4, <2>5
  <2>7. m + 1 \in 1..N
    BY <1>1
  <2> QED
    BY <2>3, <2>6, <2>7
<1>6. N \in T
  <2> HIDE DEF T
  <2>1. 1..N \subseteq T
    BY <1>1, <1>4, <1>5, UpTo
  <2> QED
    BY <1>1, <2>1
<1>7. PICK g \in [1..N -> Seq(S)] : Upto(g, N)
  BY <1>6
<1> DEFINE Fits(f) == f = [x \in 1..N |-> IF x = 1 THEN ss[x] ELSE Cat(f[x - 1], ss[x])]
           F == CHOOSE f : Fits(f)
<1>8. Fits(g)
  <2>1. ASSUME NEW x \in 1..N PROVE g[x] = IF x = 1 THEN ss[x] ELSE Cat(g[x - 1], ss[x])
    <3>1. x = 1 \/ x \in 2..N
      BY <1>1
    <3> QED
      BY <1>7, <3>1
  <2> HIDE DEF Upto
  <2> QED
    BY <2>1, <1>7
<1>9. Fits(F)
  <2> HIDE DEF Fits
  <2> QED
    BY <1>8
<1>10. FlattenSeq(ss) = F[N]
  BY <1>3, Zenon
<1> HIDE DEF F
<1>11. Upto(F, N)
  <2>1. \A x \in 1..N : F[x] = IF x = 1 THEN ss[x] ELSE Cat(F[x - 1], ss[x])
    BY <1>9
  <2>2. F[1] = ss[1]
    BY <1>1, <2>1
  <2>3. \A x \in 2..N : F[x] = Cat(F[x - 1], ss[x])
    <3> TAKE x \in 2..N
    <3>1. x \in 1..N /\ x # 1
      BY <1>1
    <3> QED
      BY <2>1, <3>1
  <2> QED
    BY <2>2, <2>3
<1>12. F[N] = g[N]
  <2> DEFINE E == {x \in 1..N : F[x] = g[x]}
  <2>1. 1 \in E
    BY <1>1, <1>7, <1>11
  <2>2. ASSUME NEW m \in 1..(N - 1), m \in E PROVE m + 1 \in E
    <3>1. m + 1 \in 2..N /\ m + 1 \in 1..N /\ (m + 1) - 1 = m
      BY <1>1
    <3>2. F[m + 1] = Cat(F[m], ss[m + 1]) /\ g[m + 1] = Cat(g[m], ss[m + 1])
      BY <1>7, <1>11, <3>1
    <3> QED
      BY <2>2, <3>1, <3>2
  <2> HIDE DEF E
  <2>3. 1..N \subseteq E
    BY <1>1, <2>1, <2>2, UpTo
  <2> QED
    BY <1>1, <2>3 DEF E
<1>13. \A f : Gathers(f, ss, N) <=> Upto(f, N)
  BY <1>3
<1>14. N = Len(ss)
  BY DEF N
<1> HIDE DEF Upto
<1> QED
  BY <1>7, <1>10, <1>12, <1>13, <1>14

LEMMA FlattenType ==
  ASSUME NEW S, NEW ss \in Seq(Seq(S))
  PROVE  FlattenSeq(ss) \in Seq(S)
<1>1. CASE ss = <<>>
  <2>1. FlattenSeq(ss) = <<>>
    BY <1>1, Zenon, EmptyLength DEF FlattenSeq
  <2> QED
    BY <2>1, EmptySeq, Zenon
<1>2. CASE ss # <<>>
  <2>1. PICK f \in [1..Len(ss) -> Seq(S)] : FlattenSeq(ss) = f[Len(ss)]
    BY <1>2, Flattening
  <2>2. Len(ss) \in 1..Len(ss)
    BY <1>2, EmptySeq
  <2> QED
    BY <2>1, <2>2
<1> QED
  BY <1>1, <1>2

\* f gathers n sequences of one element each.
Singles(f, ss, n, S) ==
  /\ n \in Nat \ {0} /\ f \in [1..n -> Seq(S)]
  /\ OneEach(ss, n, S) /\ Gathers(f, ss, n)

LEMMA GatheredSingles ==
  ASSUME NEW S, NEW n, NEW ss, NEW f, Singles(f, ss, n, S)
  PROVE  f[n] \in Seq(S) /\ Len(f[n]) = n /\ \A x \in 1..n : f[n][x] = ss[x][1]
<1> SUFFICES ASSUME n \in Nat \ {0}, f \in [1..n -> Seq(S)], OneEach(ss, n, S), Gathers(f, ss, n)
             PROVE  f[n] \in Seq(S) /\ Len(f[n]) = n /\ \A x \in 1..n : f[n][x] = ss[x][1]
  BY DEF Singles
<1> DEFINE T == {m \in 1..n : Len(f[m]) = m /\ \A x \in 1..m : f[m][x] = ss[x][1]}
<1>1. 1 \in T
  BY DEF OneEach, Gathers
<1>2. ASSUME NEW m \in 1..(n - 1), m \in T PROVE m + 1 \in T
  <2>1. m + 1 \in 2..n /\ m + 1 \in 1..n /\ (m + 1) - 1 = m /\ m \in 1..n
    OBVIOUS
  <2> DEFINE a == f[m]
             b == ss[m + 1]
             c == f[m + 1]
  <2>2. c = a \o b
    BY <2>1 DEF Gathers
  <2>3. a \in Seq(S) /\ b \in Seq(S) /\ Len(a) = m /\ Len(b) = 1
    BY <1>2, <2>1 DEF OneEach
  <2>4. \A x \in 1..m : a[x] = ss[x][1]
    BY <1>2
  <2>5. b[1] = ss[m + 1][1]
    OBVIOUS
  <2> HIDE DEF a, b, T
  <2>6. /\ c \in Seq(S) /\ Len(c) = m + 1
        /\ \A x \in 1..m : c[x] = a[x]
        /\ c[m + 1] = b[1]
    <3>1. a \o b \in Seq(S) /\ Len(a \o b) = Len(a) + Len(b)
      BY <2>3, Glued
    <3>2. \A x \in 1..Len(a) : (a \o b)[x] = a[x]
      BY <2>3, Glued
    <3>3. \A x \in 1..Len(b) : (a \o b)[Len(a) + x] = b[x]
      BY <2>3, Glued
    <3> HIDE DEF c
    <3>4. 1 \in 1..Len(b) /\ m \in Int
      BY <2>3
    <3> QED
      BY <2>2, <2>3, <3>1, <3>2, <3>3, <3>4
  <2>7. ASSUME NEW x \in 1..(m + 1) PROVE c[x] = ss[x][1]
    <3>1. x \in 1..m \/ x = m + 1
      OBVIOUS
    <3> QED
      BY <2>4, <2>5, <2>6, <3>1
  <2> QED
    BY <2>1, <2>6, <2>7 DEF T
<1> HIDE DEF T
<1>3. n \in T
  <2>1. 1..n \subseteq T
    BY <1>1, <1>2, UpTo
  <2> QED
    BY <2>1
<1>4. Len(f[n]) = n /\ \A x \in 1..n : f[n][x] = ss[x][1]
  BY <1>3 DEF T
<1>5. f[n] \in Seq(S)
  OBVIOUS
<1> QED
  BY <1>4, <1>5

\* Sequences of one element each come to the sequence of those.
LEMMA FlattenSingles ==
  ASSUME NEW S, NEW ss \in Seq(Seq(S)), \A m \in DOMAIN ss : Len(ss[m]) = 1
  PROVE  FlattenSeq(ss) = [m \in DOMAIN ss |-> ss[m][1]]
<1>1. CASE ss = <<>>
  <2>1. FlattenSeq(ss) = <<>>
    BY <1>1, Zenon, EmptyLength DEF FlattenSeq
  <2>2. [m \in DOMAIN ss |-> ss[m][1]] = <<>>
    BY <1>1
  <2> QED
    BY <2>1, <2>2
<1>2. CASE ss # <<>>
  <2>1. PICK f \in [1..Len(ss) -> Seq(S)] : Gathers(f, ss, Len(ss)) /\ FlattenSeq(ss) = f[Len(ss)]
    BY <1>2, Flattening
  <2>2. PICK n \in Nat \ {0} : n = Len(ss) /\ DOMAIN ss = 1..n
    BY <1>2, EmptySeq
  <2>3. OneEach(ss, n, S)
    BY <2>2, ElementOfSeq, Zenon DEF OneEach
  <2>4. f \in [1..n -> Seq(S)] /\ Gathers(f, ss, n) /\ FlattenSeq(ss) = f[n]
    BY <2>1, <2>2
  <2>5. f[n] \in Seq(S) /\ Len(f[n]) = n /\ \A x \in 1..n : f[n][x] = ss[x][1]
    <3>1. Singles(f, ss, n, S)
      BY <2>3, <2>4, Zenon DEF Singles
    <3> QED
      BY <3>1, GatheredSingles
  <2>6. f[n] = [m \in 1..n |-> f[n][m]]
    BY <2>5, Elements, Zenon
  <2> QED
    BY <2>2, <2>4, <2>5, <2>6
<1> QED
  BY <1>1, <1>2

----
(***************************************************************************)
(* LegacyPorts.                                                            *)
(***************************************************************************)

LEMMA PortNumbers ==
  /\ \A v \in PortNumber : v \in Int /\ v > 0
  /\ \A n \in Scheme : Default[n] \in PortNumber
<1>1. \A v \in PortNumber : v \in Int /\ v > 0
  BY DEF PortNumber
<1>2. {80, 443} \subseteq PortNumber
  BY DEF PortNumber
<1> QED
  BY <1>1, <1>2 DEF Default, Scheme

Entry == [word : STRING, of : Nat \ {0}]

\* The words that the search goes through, for each member.
WordsOf(members, j) ==
  <<[word |-> members[j].name, of |-> j]>> \o
  IF members[j].word = "" THEN <<>> ELSE <<[word |-> members[j].word, of |-> j + 1]>>

LEMMA WordsOfType ==
  ASSUME NEW members \in Seq(Member), NEW j \in DOMAIN members
  PROVE  WordsOf(members, j) \in Seq(Entry)
<1>1. members[j] \in Member /\ j \in Nat \ {0}
  OBVIOUS
<1>2. members[j].name \in STRING /\ members[j].word \in STRING
  BY <1>1 DEF Member
<1>3. <<[word |-> members[j].name, of |-> j]>> \in Seq(Entry)
  BY <1>1, <1>2 DEF Entry
<1>4. <<[word |-> members[j].word, of |-> j + 1]>> \in Seq(Entry)
  BY <1>1, <1>2 DEF Entry
<1>5. <<>> \in Seq(Entry)
  OBVIOUS
<1> QED
  BY <1>3, <1>4, <1>5, Glued, Zenon DEF WordsOf

LEMMA WordsType ==
  ASSUME NEW members \in Seq(Member)
  PROVE  /\ [j \in DOMAIN members |-> WordsOf(members, j)] \in Seq(Seq(Entry))
         /\ Words(members) = FlattenSeq([j \in DOMAIN members |-> WordsOf(members, j)])
         /\ Words(members) \in Seq(Entry)
<1>1. DOMAIN members = 1..Len(members) /\ Len(members) \in Nat
  OBVIOUS
<1>2. [j \in DOMAIN members |-> WordsOf(members, j)] \in Seq(Seq(Entry))
  BY <1>1, WordsOfType
<1>3. Words(members) = FlattenSeq([j \in DOMAIN members |-> WordsOf(members, j)])
  BY Zenon DEF Words, WordsOf
<1> QED
  BY <1>2, <1>3, FlattenType, Zenon

\* json_get_uint16 returns 0 or a port that the text has.
LEMMA JsonIsPort ==
  ASSUME NEW members \in Seq(Member), NEW name
  PROVE  \/ json_get_uint16(members, name) = 0
         \/ /\ json_get_uint16(members, name) \in PortNumber
            /\ \E m \in Range(members) : m.number = json_get_uint16(members, name)
<1> DEFINE ws == Words(members)
           I == {x \in 1..Len(ws) : ws[x].word = name}
           w == IF I # {} THEN Min(I) ELSE 0
           v == json_get_uint16(members, name)
<1>5. v = IF w = 0 \/ ws[w].of > Len(members) THEN 0 ELSE Port(members[ws[w].of].number)
  BY Zenon DEF json_get_uint16, SelectInSeq
<1>6. ws \in Seq(Entry)
  BY WordsType, Zenon
<1> HIDE DEF ws, v
<1>7. w = 0 \/ w \in 1..Len(ws)
  <2>1. I \subseteq 1..Len(ws) /\ Len(ws) \in Nat
    BY <1>6
  <2>2. w = IF I # {} THEN Min(I) ELSE 0
    OBVIOUS
  <2> HIDE DEF w, I
  <2> QED
    BY <2>1, <2>2, LeastIndex
<1> HIDE DEF w
<1>8. w = 0 \/ ws[w] \in Entry
  BY <1>6, <1>7, ElementOfSeq, Zenon
<1>9. PICK j : j = ws[w].of
  OBVIOUS
<1>10. w = 0 \/ j \in Nat \ {0}
  BY <1>8, <1>9 DEF Entry
<1>11. CASE w = 0 \/ j > Len(members)
  BY <1>5, <1>9, <1>11, Zenon DEF v
<1>12. CASE ~(w = 0 \/ j > Len(members))
  <2>1. j \in 1..Len(members)
    BY <1>10, <1>12
  <2>2. members[j] \in Member /\ members[j] \in Range(members)
    BY <2>1 DEF Range
  <2>3. members[j].number \in Int
    BY <2>2 DEF Member
  <2>4. v = Port(members[j].number)
    BY <1>5, <1>9, <1>12
  <2> QED
    BY <2>2, <2>3, <2>4 DEF Port, v
<1> QED
  BY <1>11, <1>12

\* Of a proper record it returns the port that the name has.
LEMMA JsonOfProper ==
  ASSUME NEW text, text.members \in Seq(Member), Proper(text), NEW name
  PROVE  LET given == {m.number : m \in {m \in Range(text.members) :
                                           m.name = name /\ m.number \in PortNumber}}
         IN  IF given = {} THEN json_get_uint16(text.members, name) = 0
             ELSE json_get_uint16(text.members, name) \in given
<1> DEFINE given == {m.number : m \in {m \in Range(text.members) :
                                         m.name = name /\ m.number \in PortNumber}}
<1>1. PICK members : members = text.members /\ members \in Seq(Member)
  OBVIOUS
<1>2. PICK wf : wf = [j \in DOMAIN members |-> WordsOf(members, j)]
  OBVIOUS
<1>3. \A j \in DOMAIN members :
        /\ members[j].word = ""
        /\ \A x \in DOMAIN members : x # j => members[x].name # members[j].name
  BY <1>1 DEF Proper
<1>4. \A j \in DOMAIN members : wf[j] = <<[word |-> members[j].name, of |-> j]>>
  <2> TAKE j \in DOMAIN members
  <2> DEFINE e == [word |-> members[j].name, of |-> j]
  <2>1. wf[j] = <<e>> \o <<>>
    BY <1>2, <1>3 DEF WordsOf
  <2> HIDE DEF e
  <2>2. <<e>> \o <<>> = <<e>>
    OBVIOUS
  <2> QED
    BY <2>1, <2>2 DEF e
<1>5. wf \in Seq(Seq(Entry)) /\ Words(members) = FlattenSeq(wf)
  BY <1>1, <1>2, WordsType, Zenon
<1>6. PICK n \in Nat : n = Len(members) /\ DOMAIN wf = 1..n /\ DOMAIN members = 1..n
  BY <1>1, <1>2
<1> DEFINE ws == Words(members)
           I == {x \in 1..Len(ws) : ws[x].word = name}
           w == IF I # {} THEN Min(I) ELSE 0
           v == json_get_uint16(members, name)
<1>7. v = IF w = 0 \/ ws[w].of > Len(members) THEN 0 ELSE Port(members[ws[w].of].number)
  BY Zenon DEF json_get_uint16, SelectInSeq
<1> HIDE DEF v
<1>8. ws = [j \in DOMAIN wf |-> wf[j][1]]
  <2>1. \A j \in DOMAIN wf : Len(wf[j]) = 1
    <3> TAKE j \in DOMAIN wf
    <3>1. wf[j] = <<[word |-> members[j].name, of |-> j]>>
      BY <1>4, <1>6
    <3> QED
      BY <3>1
  <2> QED
    BY <1>5, <2>1, FlattenSingles, Zenon
<1>9. Len(ws) = n /\ \A x \in 1..n : ws[x].word = members[x].name /\ ws[x].of = x
  BY <1>4, <1>6, <1>8
<1> HIDE DEF ws
<1>14. I = {x \in 1..n : members[x].name = name}
  BY <1>9
<1>15. (I = {} /\ w = 0) \/ w \in I
  <2>1. I \subseteq 1..n
    BY <1>14
  <2>2. w = IF I # {} THEN Min(I) ELSE 0
    OBVIOUS
  <2> HIDE DEF w, I
  <2> QED
    BY <2>1, <2>2, LeastIndex
<1> HIDE DEF w, I
<1>16. CASE I = {} /\ w = 0
  <2>1. given = {}
    <3> SUFFICES ASSUME NEW m \in Range(text.members), m.name = name PROVE FALSE
      OBVIOUS
    <3>1. PICK x \in DOMAIN members : m = members[x]
      BY <1>1 DEF Range
    <3> QED
      BY <1>6, <1>14, <1>16, <3>1
  <2>2. v = 0
    BY <1>7, <1>16
  <2> QED
    BY <1>1, <2>1, <2>2 DEF v
<1>17. CASE w \in I
  <2>1. w \in 1..n /\ w # 0 /\ ws[w].of = w /\ members[w].name = name
    BY <1>9, <1>14, <1>17
  <2>2. v = Port(members[w].number)
    BY <1>6, <1>7, <2>1
  <2>3. members[w] \in Range(text.members)
    BY <1>1, <1>6, <2>1 DEF Range
  <2>4. ASSUME NEW m \in Range(text.members), m.name = name PROVE m = members[w]
    <3>1. PICK x \in DOMAIN members : m = members[x]
      BY <1>1 DEF Range
    <3> QED
      BY <1>3, <1>6, <2>1, <2>4, <3>1
  <2>5. CASE members[w].number \in PortNumber
    <3>1. members[w].number \in given
      BY <2>1, <2>3, <2>5
    <3>2. v = members[w].number
      BY <2>2, <2>5, Zenon DEF Port
    <3> QED
      BY <1>1, <3>1, <3>2 DEF v
  <2>6. CASE members[w].number \notin PortNumber
    <3>1. given = {}
      BY <2>4, <2>6
    <3>2. v = 0
      BY <2>2, <2>6, Zenon DEF Port
    <3> QED
      BY <1>1, <3>1, <3>2 DEF v
  <2> QED
    BY <2>5, <2>6
<1> QED
  BY <1>15, <1>16, <1>17

PortsInv == PortsTypeOK /\ ReadsProper /\ AsksLastNamed /\ server = named

\* What a call that queries leaves in the caller's structure.
LEMMA ReadPorts ==
  ASSUME NEW r \in Reply, NEW n \in Scheme
  PROVE  LET read == Read(r, Start) IN
         /\ read[n] \in PortNumber
         /\ \/ read[n] = Default[n]
            \/ r # <<>> /\ \E m \in Range(Head(r).members) : m.number = read[n]
         /\ r # <<>> /\ Proper(Head(r)) =>
              LET given == {m.number : m \in {m \in Range(Head(r).members) :
                                                m.name = n /\ m.number \in PortNumber}}
              IN  IF given = {} THEN read[n] = Default[n] ELSE read[n] \in given
<1>0. Default[n] \in PortNumber
  BY PortNumbers
<1>1. CASE r = <<>>
  BY <1>0, <1>1, EmptySeq DEF Read, Start
<1>2. CASE r # <<>>
  <2>1. r \in Seq([brace : BOOLEAN, members : Seq(Member)])
    BY LegacyAssumption
  <2> DEFINE text == Head(r)
             v == json_get_uint16(text.members, n)
             given == {m.number : m \in {m \in Range(text.members) :
                                                m.name = n /\ m.number \in PortNumber}}
             port == Read(r, Start)[n]
  <2>2. text \in [brace : BOOLEAN, members : Seq(Member)]
    BY <1>2, <2>1, HeadTailProperties, Zenon
  <2>3. text.members \in Seq(Member) /\ text.brace \in BOOLEAN
    BY <2>2
  <2>4. Read(r, Start)= parse_adrp_txt(text, Start)
    BY <1>2 DEF Read
  <2>5. port = IF ~text.brace THEN Default[n] ELSE IF v > 0 THEN v ELSE Default[n]
    BY <2>4 DEF parse_adrp_txt, Start
  <2>6. \/ v = 0
        \/ v \in PortNumber /\ \E m \in Range(text.members) : m.number = v
    BY <2>3, JsonIsPort
  <2>7. Proper(text) => IF given = {} THEN v = 0 ELSE v \in given
    BY <2>3, JsonOfProper
  <2>8. Proper(text) => text.brace
    BY DEF Proper
  <2>9. given \subseteq PortNumber
    OBVIOUS
  <2> HIDE DEF text, v, given, port
  <2>10. port \in PortNumber /\ (port = Default[n] \/ \E m \in Range(text.members) : m.number = port)
    BY <1>0, <2>5, <2>6, PortNumbers
  <2>11. Proper(text) => IF given = {} THEN port = Default[n] ELSE port \in given
    BY <2>5, <2>7, <2>8, <2>9, PortNumbers
  <2> QED
    BY <1>2, <2>10, <2>11 DEF text, given, port
<1> QED
  BY <1>1, <1>2

LEMMA PortsInvariance == PortsSpec => []PortsInv
<1>1. PortsInit => PortsInv
  BY DEF PortsInit, PortsInv, PortsTypeOK, ReadsProper, AsksLastNamed
<1>2. PortsInv /\ [PortsNext]_portsVars => PortsInv'
  <2> SUFFICES ASSUME PortsInv, [PortsNext]_portsVars PROVE PortsInv'
    OBVIOUS
  <2>1. ASSUME NEW s, s \in Custom \cup {System}, Resolve(s), server' = s, named' = s
        PROVE  PortsInv'
    <3>1. reply' \in Reply /\ ports' = Read(reply', Start) /\ code' = "KIRIN_OK" /\ asked' = s
      BY <2>1 DEF Resolve
    <3>2. PortsTypeOK'
      BY <2>1, <3>1, ReadPorts DEF PortsTypeOK
    <3>3. ReadsProper'
      BY <3>1, ReadPorts DEF ReadsProper
    <3> QED
      BY <2>1, <3>1, <3>2, <3>3 DEF PortsInv, AsksLastNamed
  <2>2. CASE kirin_resolve
    BY <2>1, <2>2 DEF kirin_resolve, PortsInv, PortsTypeOK
  <2>3. CASE kirin_resolve_with_server
    BY <2>1, <2>3 DEF kirin_resolve_with_server
  <2>4. CASE BadServer
    BY <2>4, PortNumbers DEF BadServer, PortsInv, PortsTypeOK, ReadsProper, AsksLastNamed, Start
  <2>5. CASE ResolveV2
    BY <2>5 DEF ResolveV2, PortsInv, PortsTypeOK, ReadsProper, AsksLastNamed
  <2>6. CASE UNCHANGED portsVars
    BY <2>6 DEF portsVars, PortsInv, PortsTypeOK, ReadsProper, AsksLastNamed, Proper
  <2> QED
    BY <2>2, <2>3, <2>4, <2>5, <2>6 DEF PortsNext
<1> QED
  BY <1>1, <1>2, PTL DEF PortsSpec

\* Whatever a TXT reply holds, no port of an earlier call is left in the
\* caller's structure, and those of a proper record are all read.
THEOREM ReadsProperHolds == PortsSpec => []ReadsProper
<1>1. PortsInv => ReadsProper
  BY DEF PortsInv
<1> QED
  BY <1>1, PortsInvariance, PTL

\* Whatever servers are named, and whichever functions query in between.
THEOREM AsksLastNamedHolds == PortsSpec => []AsksLastNamed
<1>1. PortsInv => AsksLastNamed
  BY DEF PortsInv
<1> QED
  BY <1>1, PortsInvariance, PTL

----
(***************************************************************************)
(* IdentityTxt.                                                            *)
(***************************************************************************)

Chosen == library \in Library /\ records \in Records

LEMMA ProfileType ==
  ASSUME Chosen
  PROVE  Does \in Profiles /\ "true" \in Does.on /\ "false" \notin Does.on
  BY RecordsAssumption DEF Chosen, Does

LEMMA RecordsType ==
  ASSUME Chosen
  PROVE  /\ records \in Seq(Seq(Seq(Pair)))
         /\ \A r \in DOMAIN records : 1 \in DOMAIN records[r] /\ records[r][1] \in Seq(Pair)
<1>1. records \in Seq(TxtRecord)
  BY RecordsAssumption DEF Chosen
<1>2. TxtRecord \subseteq Seq(Seq(Pair))
  <2>1. TxtTexts \subseteq Seq(Pair)
    BY DEF TxtTexts
  <2>2. Seq(TxtTexts) \subseteq Seq(Seq(Pair))
    BY <2>1, SeqMonotonic
  <2> QED
    BY <2>2 DEF TxtRecord
<1>3. records \in Seq(Seq(Seq(Pair)))
  BY <1>1, <1>2, SeqMonotonic
<1>4. ASSUME NEW r \in DOMAIN records
      PROVE  1 \in DOMAIN records[r] /\ records[r][1] \in Seq(Pair)
  <2>1. records[r] \in TxtRecord
    BY <1>1, <1>4
  <2>2. records[r] \in Seq(Seq(Pair)) /\ records[r] # <<>>
    BY <1>2, <2>1 DEF TxtRecord
  <2>3. Len(records[r]) \in Nat \ {0} /\ DOMAIN records[r] = 1..Len(records[r])
    BY <2>2, EmptySeq
  <2> QED
    BY <2>2, <2>3, ElementOfSeq
<1> QED
  BY <1>3, <1>4

LEMMA QuotedPair ==
  ASSUME NEW q \in Pair
  PROVE  [q EXCEPT !.name = "quoted"] \in Pair
<1>1. ASSUME NEW S, NEW B, NEW x \in [name : S, padded : B, lead : B, val : S], NEW n \in S
      PROVE  [x EXCEPT !.name = n] \in [name : S, padded : B, lead : B, val : S]
  OBVIOUS
<1>2. "quoted" \in Word
  BY RecordsAssumption
<1> QED
  BY <1>1, <1>2, Zenon DEF Pair

LEMMA QuotedText ==
  ASSUME NEW t \in Seq(Pair)
  PROVE  [t EXCEPT ![1].name = "quoted"] \in Seq(Pair)
<1>1. CASE 1 \in DOMAIN t
  <2>1. 1 \in 1..Len(t) /\ t[1] \in Pair
    BY <1>1
  <2>2. PICK q \in Pair : q = [t[1] EXCEPT !.name = "quoted"]
    BY <2>1, QuotedPair
  <2>3. [t EXCEPT ![1] = q] \in Seq(Pair)
    BY <2>1, ExceptSeq
  <2>4. [t EXCEPT ![1].name = "quoted"] = [t EXCEPT ![1] = q]
    BY <2>2
  <2> QED
    BY <2>3, <2>4
<1>2. CASE 1 \notin DOMAIN t
  <2>1. [t EXCEPT ![1].name = "quoted"] = t
    BY <1>2
  <2> QED
    BY <2>1
<1> QED
  BY <1>1, <1>2

\* The quotes that Swift leaves between strings make other texts of them.
LEMMA QuotedType ==
  ASSUME Chosen, NEW r \in DOMAIN records
  PROVE  Quoted(r) \in Seq(Seq(Pair))
<1>1. records[r] \in Seq(Seq(Pair))
  BY RecordsType
<1>2. PICK strings : strings = records[r]
  OBVIOUS
<1>4. Quoted(r) = [s \in DOMAIN strings |->
                     IF s = 1 THEN strings[s] ELSE [strings[s] EXCEPT ![1].name = "quoted"]]
  BY <1>2 DEF Quoted
<1>5. strings \in Seq(Seq(Pair))
  BY <1>1, <1>2
<1>6. \A s \in DOMAIN strings :
        (IF s = 1 THEN strings[s] ELSE [strings[s] EXCEPT ![1].name = "quoted"]) \in Seq(Pair)
  BY QuotedText, <1>5
<1>7. DOMAIN strings = 1..Len(strings) /\ Len(strings) \in Nat
  BY <1>5
<1> QED
  BY <1>4, <1>6, <1>7

LEMMA TextsType ==
  ASSUME Chosen
  PROVE  Texts \in Seq(Seq(Pair))
<1>1. /\ DOMAIN records = 1..Len(records) /\ Len(records) \in Nat
      /\ \A r \in DOMAIN records : records[r] \in Seq(Seq(Pair))
  BY RecordsType
<1>2. CASE Does.texts = "strings"
  <2>1. Texts = FlattenSeq(records)
    BY <1>2 DEF Texts
  <2> QED
    BY <2>1, RecordsType, FlattenType, Zenon
<1>3. CASE Does.texts = "first"
  <2>1. Texts = [r \in DOMAIN records |-> records[r][1]]
    BY <1>3 DEF Texts
  <2>2. \A r \in DOMAIN records : records[r][1] \in Seq(Pair)
    BY RecordsType
  <2> QED
    BY <1>1, <2>1, <2>2
<1>4. CASE Does.texts = "joined"
  <2>1. Texts = [r \in DOMAIN records |-> FlattenSeq(records[r])]
    BY <1>4 DEF Texts
  <2>2. \A r \in DOMAIN records : FlattenSeq(records[r]) \in Seq(Pair)
    BY <1>1, FlattenType, Zenon
  <2> QED
    BY <1>1, <2>1, <2>2
<1>5. CASE Does.texts = "quoted"
  <2>1. Texts = [r \in DOMAIN records |-> FlattenSeq(Quoted(r))]
    BY <1>5 DEF Texts
  <2>2. \A r \in DOMAIN records : FlattenSeq(Quoted(r)) \in Seq(Pair)
    BY QuotedType, FlattenType, Zenon
  <2> QED
    BY <1>1, <2>1, <2>2
<1>6. CASE Does.texts = "none"
  <2>1. Texts = <<>>
    BY <1>6 DEF Texts
  <2> QED
    BY <2>1
<1> QED
  BY <1>2, <1>3, <1>4, <1>5, <1>6, ProfileType DEF Profiles

\* Of replies whose records are single strings every library that is shown the
\* reply has the same texts.
LEMMA TextsOfSingles ==
  ASSUME Chosen, Does.texts # "none", \A r \in DOMAIN records : Len(records[r]) = 1
  PROVE  Texts = [r \in DOMAIN records |-> records[r][1]]
<1>1. records \in Seq(Seq(Seq(Pair)))
  BY RecordsType
<1>2. \A r \in DOMAIN records : /\ records[r] \in Seq(Seq(Pair))
                                /\ Len(records[r]) = 1
                                /\ records[r][1] \in Seq(Pair)
  BY RecordsType
<1>3. ASSUME NEW ss \in Seq(Seq(Pair)), Len(ss) = 1 PROVE FlattenSeq(ss) = ss[1]
  <2>1. ss # <<>>
    BY <1>3, NotEmpty, Zenon
  <2>2. PICK f \in [1..Len(ss) -> Seq(Pair)] : Gathers(f, ss, Len(ss)) /\ FlattenSeq(ss) = f[Len(ss)]
    BY <2>1, Flattening
  <2>3. f[1] = ss[1]
    BY <2>2 DEF Gathers
  <2> QED
    BY <1>3, <2>2, <2>3, Zenon
<1>4. CASE Does.texts = "strings"
  <2>1. Texts = FlattenSeq(records)
    BY <1>4 DEF Texts
  <2> QED
    BY <1>1, <2>1, FlattenSingles, Zenon
<1>5. CASE Does.texts = "first"
  BY <1>5 DEF Texts
<1>6. CASE Does.texts = "joined"
  <2>1. Texts = [r \in DOMAIN records |-> FlattenSeq(records[r])]
    BY <1>6 DEF Texts
  <2> QED
    BY <1>2, <1>3, <2>1
<1>7. CASE Does.texts = "quoted"
  <2>1. Texts = [r \in DOMAIN records |-> FlattenSeq(Quoted(r))]
    BY <1>7 DEF Texts
  <2>2. ASSUME NEW r \in DOMAIN records PROVE FlattenSeq(Quoted(r)) = records[r][1]
    <3>1. DOMAIN records[r] = {1} /\ records[r] \in Seq(Seq(Pair))
      BY <1>2
    <3>2. DOMAIN Quoted(r) = {1} /\ Quoted(r)[1] = records[r][1]
      BY <3>1 DEF Quoted
    <3>3. Quoted(r) \in Seq(Seq(Pair)) /\ Len(Quoted(r)) = 1
      BY <3>2, QuotedType
    <3> QED
      BY <1>3, <3>2, <3>3
  <2> QED
    BY <2>1, <2>2
<1> QED
  BY <1>4, <1>5, <1>6, <1>7, ProfileType DEF Profiles

\* What a field is read from: the last pair of its name that sets it.
LEMMA FieldSource ==
  ASSUME Chosen, NEW text \in Seq(Pair), NEW name
  PROVE  \/ /\ Field(text, name) = Unset
            /\ \A j \in DOMAIN text : text[j].name = name => ~Sets(text[j])
         \/ \E at \in DOMAIN text :
              /\ text[at].name = name /\ Sets(text[at])
              /\ Field(text, name) = Value(text[at])
              /\ \A j \in DOMAIN text : text[j].name = name /\ Sets(text[j]) => j <= at
<1> DEFINE T == {x \in 1..Len(text) : text[x].name = name /\ Sets(text[x])}
           w == IF T # {} THEN Max(T) ELSE 0
           v == Field(text, name)
<1>1. v = IF w = 0 THEN Unset ELSE Value(text[w])
  BY Zenon DEF Field, SelectLastInSeq
<1>2. w = IF T # {} THEN Max(T) ELSE 0
  OBVIOUS
<1>3. DOMAIN text = 1..Len(text) /\ Len(text) \in Nat /\ T \subseteq 1..Len(text)
  OBVIOUS
<1>4. \A j \in DOMAIN text : text[j].name = name /\ Sets(text[j]) => j \in T
  BY <1>3
<1>5. \A j \in T : text[j].name = name /\ Sets(text[j]) /\ j \in DOMAIN text
  BY <1>3
<1> HIDE DEF T, w, v
<1>6. \/ T = {} /\ w = 0
      \/ w \in T /\ w \in 1..Len(text) /\ \A x \in T : x <= w
  BY <1>2, <1>3, GreatestIndex
<1>7. CASE T = {} /\ w = 0
  <2>1. v = Unset
    BY <1>1, <1>7
  <2>2. \A j \in DOMAIN text : text[j].name = name => ~Sets(text[j])
    BY <1>4, <1>7
  <2> QED
    BY <2>1, <2>2 DEF v
<1>8. CASE w \in T /\ w \in 1..Len(text) /\ \A x \in T : x <= w
  <2>1. w # 0 /\ w \in DOMAIN text
    BY <1>3, <1>8
  <2>2. v = Value(text[w])
    BY <1>1, <2>1
  <2> QED
    BY <1>4, <1>5, <1>8, <2>1, <2>2 DEF v
<1> QED
  BY <1>6, <1>7, <1>8

LEMMA ValueType ==
  ASSUME NEW pair \in Pair
  PROVE  Value(pair) \in Word
<1>1. pair.val \in Word
  BY DEF Pair
<1> QED
  BY <1>1, RecordsAssumption DEF Value

LEMMA FieldType ==
  ASSUME Chosen, NEW text \in Seq(Pair), NEW name
  PROVE  Field(text, name) \in Word \cup {Unset}
<1>1. CASE Field(text, name) = Unset
  BY <1>1
<1>2. CASE \E at \in DOMAIN text : Field(text, name) = Value(text[at])
  <2>1. PICK at \in DOMAIN text : Field(text, name) = Value(text[at])
    BY <1>2
  <2>2. text[at] \in Pair
    BY <2>1
  <2> QED
    BY <2>1, <2>2, ValueType
<1> QED
  BY <1>1, <1>2, FieldSource

\* Values that every library keeps, and what a library has kept of others.
LEMMA PlainValues ==
  ASSUME NEW pair, NEW name
  PROVE  /\ pair.val \in Plain(name) => Value(pair) = pair.val /\ Value(pair) # ""
         /\ pair.val \in Plain(pair.name) => Sets(pair)
         /\ Value(pair) \in Plain(name) => Value(pair) = pair.val
<1>1. pair.val \in Plain(name) => Value(pair) = pair.val /\ Value(pair) # ""
  BY DEF Plain, Value
<1>2. pair.val \in Plain(pair.name) => Value(pair) = pair.val /\ Value(pair) # ""
  BY DEF Plain, Value
<1>3. pair.val \in Plain(pair.name) => Sets(pair)
  BY <1>2 DEF Plain, Sets
<1>4. Value(pair) \in Plain(name) => Value(pair) = pair.val
  BY DEF Plain, Value
<1> QED
  BY <1>1, <1>3, <1>4

\* A field is read where its name has a plain value.
LEMMA PlainIsRead ==
  ASSUME Chosen, NEW text \in Seq(Pair), NEW j \in DOMAIN text,
         text[j].val \in Plain(text[j].name)
  PROVE  Field(text, text[j].name) # Unset
<1> DEFINE name == text[j].name
<1>1. Sets(text[j])
  BY PlainValues
<1>2. PICK at \in DOMAIN text : Field(text, name) = Value(text[at])
  BY <1>1, FieldSource
<1>3. Value(text[at]) \in Word
  <2>1. text[at] \in Pair
    OBVIOUS
  <2> QED
    BY <2>1, ValueType
<1> QED
  BY <1>2, <1>3, RecordsAssumption

\* What every library takes for an identity record, it takes.
LEMMA TakesWellFormed ==
  ASSUME Chosen, NEW text \in Seq(Pair), WellFormed(text)
  PROVE  Takes(text)
<1>1. PICK j \in DOMAIN text : text[j].name = "key"
  BY DEF WellFormed
<1>2. 1 \in DOMAIN text /\ text # <<>>
  BY <1>1, EmptySeq
<1>3. ASSUME NEW name, \E x \in DOMAIN text : text[x].name = name
      PROVE  Present(Field(text, name))
  <2>1. PICK x \in DOMAIN text : text[x].name = name
    BY <1>3
  <2>2. \A y \in DOMAIN text : Sets(text[y]) /\ Value(text[y]) # ""
    BY PlainValues DEF WellFormed
  <2>3. PICK at \in DOMAIN text : Field(text, name) = Value(text[at])
    BY <2>1, <2>2, FieldSource
  <2>4. text[x].val \in Plain(text[x].name)
    BY DEF WellFormed
  <2>5. Field(text, name) # Unset
    BY <2>1, <2>4, PlainIsRead
  <2> QED
    BY <2>2, <2>3, <2>5 DEF Present
<1>4. Present(Field(text, "id")) /\ Present(Field(text, "key"))
  BY <1>1, <1>2, <1>3 DEF WellFormed
<1>5. StartsWithId(text)
  BY <1>2 DEF WellFormed, StartsWithId
<1> QED
  BY <1>4, <1>5 DEF Takes, Name

\* A text that names no field of an identity is never taken.
LEMMA TakesNoForeign ==
  ASSUME Chosen, NEW text \in Seq(Pair), Foreign(text)
  PROVE  ~Takes(text)
<1>1. ASSUME NEW name \in Name PROVE ~Present(Field(text, name))
  <2>1. \A j \in DOMAIN text : text[j].name # name
    BY DEF Foreign
  <2>2. Field(text, name) = Unset
    BY <2>1, FieldSource
  <2> QED
    BY <2>2 DEF Present
<1> QED
  BY <1>1 DEF Takes, Name

IInv ==
  /\ TypeOK
  /\ records \in Records
  /\ \A j \in 1..(k - 1) : ~Takes(Texts[j])
  /\ result = "found" => Takes(Texts[k]) /\ identity = Parse(Texts[k])
  /\ result = "none" => k > Len(Texts)

LEMMA Invariance == Spec => []IInv
<1>1. Init => IInv
  <2> SUFFICES ASSUME Init PROVE IInv
    OBVIOUS
  <2>1. Len(Texts) \in Nat
    BY TextsType DEF Init, Chosen
  <2> QED
    BY <2>1 DEF Init, IInv, TypeOK, Blank
<1>2. IInv /\ [Next]_vars => IInv'
  <2> SUFFICES ASSUME IInv, [Next]_vars PROVE IInv'
    OBVIOUS
  <2>1. Chosen
    BY DEF IInv, TypeOK, Chosen
  <2>2. Texts \in Seq(Seq(Pair)) /\ Len(Texts) \in Nat /\ k \in Nat \ {0}
    BY <2>1, TextsType DEF IInv, TypeOK
  <2>3. library' = library /\ records' = records
    BY DEF Next, Try, GiveUp, vars
  <2>4. Does' = Does
    BY <2>3 DEF Does
  <2>5. Texts' = Texts
    BY <2>3, <2>4 DEF Texts, Quoted
  <2>6. \A text : Takes(text)' = Takes(text) /\ Parse(text)' = Parse(text)
    <3>1. \A pair : Value(pair)' = Value(pair) /\ (Sets(pair)' <=> Sets(pair))
      BY <2>4 DEF Value, Sets
    <3>2. ASSUME NEW text, NEW name PROVE Field(text, name)' = Field(text, name)
      <4>1. \A x : Value(text[x])' = Value(text[x]) /\ (Sets(text[x])' <=> Sets(text[x]))
        BY <3>1
      <4> QED
        BY <4>1 DEF Field, SelectLastInSeq
    <3>3. \A val : Present(val)' <=> Present(val)
      BY <2>4 DEF Present
    <3>4. \A text : StartsWithId(text)' <=> StartsWithId(text)
      BY <2>4 DEF StartsWithId
    <3>5. \A text : Parse(text)' = Parse(text)
      BY <3>2 DEF Parse
    <3>6. \A text : Takes(text)' = Takes(text)
      <4> TAKE text
      <4>1. \A n : Present(Field(text, n))' <=> Present(Field(text, n))
        BY <3>2, <3>3
      <4> QED
        BY <2>4, <3>4, <4>1 DEF Takes
    <3> QED
      BY <3>5, <3>6
  <2>7. CASE Try
    <3> DEFINE text == Texts[k]
    <3>1. /\ result = "trying" /\ k <= Len(Texts)
          /\ identity' = IF Does.anyPair \/ StartsWithId(text) THEN Parse(text) ELSE identity
          /\ result' = IF Takes(text) THEN "found" ELSE "trying"
          /\ k' = IF Takes(text) THEN k ELSE k + 1
      BY <2>7 DEF Try
    <3>2. text \in Seq(Pair)
      BY <2>2, <3>1, ElementOfSeq
    <3>3. Parse(text) \in [Name -> Word \cup {Unset}]
      BY <2>1, <3>2, FieldType DEF Parse
    <3>4. Takes(text) => Does.anyPair \/ StartsWithId(text)
      BY DEF Takes
    <3>5. identity' \in [Name -> Word \cup {Unset}]
      BY <3>1, <3>3 DEF IInv, TypeOK
    <3>6. CASE Takes(text)
      <4>1. result' = "found" /\ k' = k /\ identity' = Parse(text)
        BY <3>1, <3>4, <3>6
      <4> QED
        BY <2>2, <2>3, <2>5, <2>6, <3>1, <3>5, <3>6, <4>1 DEF IInv, TypeOK
    <3>7. CASE ~Takes(text)
      <4>1. result' = "trying" /\ k' = k + 1
        BY <3>1, <3>7
      <4>2. \A j \in 1..(k' - 1) : ~Takes(Texts[j])
        <5> TAKE j \in 1..(k' - 1)
        <5>1. j \in 1..(k - 1) \/ j = k
          BY <2>2, <4>1
        <5> QED
          BY <3>7, <5>1 DEF IInv
      <4> QED
        BY <2>2, <2>3, <2>5, <2>6, <3>1, <3>5, <4>1, <4>2 DEF IInv, TypeOK
    <3> QED
      BY <3>6, <3>7
  <2>8. CASE GiveUp
    BY <2>2, <2>3, <2>5, <2>6, <2>8 DEF GiveUp, IInv, TypeOK
  <2>9. CASE UNCHANGED vars
    BY <2>2, <2>3, <2>5, <2>6, <2>9 DEF vars, IInv, TypeOK
  <2> QED
    BY <2>7, <2>8, <2>9 DEF Next
<1> QED
  BY <1>1, <1>2, PTL DEF Spec

\* Whatever texts were tried before, and whatever they left in the structure:
\* the identity that a library reports is read from one record.
THEOREM OneRecordsHolds == Spec => []OneRecords
<1>1. IInv => OneRecords
  <2> SUFFICES ASSUME IInv, result = "found", NEW n \in Name
               PROVE  LET vals == {pair.val : pair \in {pair \in Range(Texts[k]) : pair.name = n}} IN
                        /\ identity[n] = Unset => vals \cap Plain(n) = {}
                        /\ identity[n] \in Plain(n) => identity[n] \in vals
    BY Zenon DEF OneRecords
  <2> DEFINE vals == {pair.val : pair \in {pair \in Range(Texts[k]) : pair.name = n}}
  <2>1. Chosen
    BY DEF IInv, TypeOK, Chosen
  <2>2. PICK text : text = Texts[k]
    OBVIOUS
  <2>3. text \in Seq(Pair)
    <3>1. k \in 1..Len(Texts)
      BY DEF IInv, TypeOK
    <3> QED
      BY <2>1, <2>2, <3>1, TextsType, ElementOfSeq
  <2>4. identity[n] = Field(text, n)
    BY <2>2 DEF IInv, Parse
  <2>5. ASSUME identity[n] = Unset PROVE vals \cap Plain(n) = {}
    <3> SUFFICES ASSUME NEW pair \in Range(text), pair.name = n, pair.val \in Plain(n)
                 PROVE  FALSE
      BY <2>2
    <3>1. PICK j \in DOMAIN text : pair = text[j]
      BY DEF Range
    <3> QED
      BY <2>1, <2>3, <2>4, <2>5, <3>1, PlainIsRead
  <2>6. ASSUME identity[n] \in Plain(n) PROVE identity[n] \in vals
    <3>1. Field(text, n) # Unset
      BY <2>4, <2>6, RecordsAssumption DEF Plain
    <3>2. PICK at \in DOMAIN text : text[at].name = n /\ Field(text, n) = Value(text[at])
      BY <2>1, <2>3, <2>4, <2>6, <3>1, FieldSource
    <3>3. identity[n] = text[at].val
      BY <2>4, <2>6, <3>2, PlainValues
    <3>4. text[at] \in Range(text)
      BY <3>2 DEF Range
    <3> QED
      BY <2>2, <3>2, <3>3, <3>4
  <2> QED
    BY <2>5, <2>6
<1> QED
  BY <1>1, Invariance, PTL

\* For every profile and every reply: no library passes over a text that all
\* take for an identity record.
THEOREM NonePassedOverHolds == Spec => []NonePassedOver
<1>1. IInv => NonePassedOver
  <2> SUFFICES ASSUME IInv, NEW j \in 1..(k - 1), WellFormed(Texts[j]) PROVE FALSE
    BY DEF NonePassedOver
  <2>1. Chosen
    BY DEF IInv, TypeOK, Chosen
  <2>2. j \in 1..Len(Texts)
    BY <2>1, TextsType DEF IInv, TypeOK
  <2>3. Texts[j] \in Seq(Pair)
    BY <2>1, <2>2, TextsType, ElementOfSeq
  <2> QED
    BY <2>1, <2>3, TakesWellFormed DEF IInv
<1> QED
  BY <1>1, Invariance, PTL

\* Whatever its profile, a library that is shown the reply resolves well-formed
\* identity records and foreign texts to the same identity as every other.
THEOREM AllReadAlikeHolds == Spec => []AllReadAlike
<1>1. ASSUME IInv, Does.texts = "none" PROVE AllReadAlike
  <2>1. Texts = <<>> /\ Len(Texts) = 0
    BY <1>1 DEF Texts
  <2>2. result # "found"
    BY <1>1, <2>1 DEF IInv, TypeOK
  <2>3. result # "trying" => result = "none"
    BY <1>1, <2>2 DEF IInv, TypeOK
  <2> QED
    BY <1>1, <2>3, Zenon DEF AllReadAlike
<1>2. ASSUME Does.texts # "none" PROVE IInv => AllReadAlike
  <2> DEFINE texts == [r \in DOMAIN records |-> records[r][1]]
             first == SelectInSeq(texts, WellFormed)
  <2> SUFFICES ASSUME IInv, result # "trying",
                      \A r \in DOMAIN records :
                        Len(records[r]) = 1 /\ (WellFormed(texts[r]) \/ Foreign(texts[r]))
               PROVE  IF first = 0 THEN result = "none"
                      ELSE /\ result = "found"
                           /\ \A j \in DOMAIN texts[first] :
                                LET pair == texts[first][j] IN
                                pair.name \in Name /\ LastOfName(texts[first], j) =>
                                  IF pair.name = "ipfs"
                                  THEN identity["ipfs"] \in Does.on <=> pair.val = "true"
                                  ELSE identity[pair.name] = pair.val
    BY <1>2, Zenon DEF AllReadAlike
  <2>1. Chosen
    BY DEF IInv, TypeOK, Chosen
  <2>2. Texts = texts
    BY <1>2, <2>1, TextsOfSingles
  <2>3. texts \in Seq(Seq(Pair)) /\ Len(texts) \in Nat
    BY <2>1, <2>2, TextsType
  <2>4. \A r \in 1..Len(texts) : WellFormed(texts[r]) \/ Foreign(texts[r])
    BY <2>3
  <2> DEFINE T == {x \in 1..Len(texts) : WellFormed(texts[x])}
  <2>5. first = IF T # {} THEN Min(T) ELSE 0
    BY Zenon DEF SelectInSeq
  <2> HIDE DEF texts, first
  <2>6. \/ T = {} /\ first = 0
        \/ first \in T /\ first \in 1..Len(texts) /\ \A x \in T : first <= x
    <3>1. T \subseteq 1..Len(texts)
      OBVIOUS
    <3> HIDE DEF T
    <3> QED
      BY <2>3, <2>5, <3>1, LeastIndex
  <2>7. ASSUME NEW x \in 1..Len(texts) PROVE Takes(texts[x]) <=> x \in T
    <3>1. texts[x] \in Seq(Pair)
      BY <2>3, ElementOfSeq
    <3>2. CASE WellFormed(texts[x])
      BY <2>1, <3>1, <3>2, TakesWellFormed
    <3>3. CASE ~WellFormed(texts[x])
      <4>1. Foreign(texts[x])
        BY <2>4, <3>3
      <4> QED
        BY <2>1, <3>1, <3>3, <4>1, TakesNoForeign
    <3> QED
      BY <3>2, <3>3
  <2>8. /\ k \in 1..(Len(texts) + 1)
        /\ \A j \in 1..(k - 1) : ~Takes(texts[j])
        /\ result = "found" => k <= Len(texts) /\ Takes(texts[k]) /\ identity = Parse(texts[k])
        /\ result = "none" => k > Len(texts)
        /\ result \in {"found", "none"}
    BY <2>2 DEF IInv, TypeOK
  <2> HIDE DEF T
  <2>9. CASE T = {} /\ first = 0
    <3>1. result # "found"
      BY <2>3, <2>7, <2>8, <2>9
    <3> QED
      BY <2>8, <2>9, <3>1
  <2>10. CASE first \in T /\ first \in 1..Len(texts) /\ \A x \in T : first <= x
    <3>1. Takes(texts[first])
      BY <2>7, <2>10
    <3>2. result = "found"
      <4>1. CASE result = "none"
        <5>1. first \in 1..(k - 1)
          BY <2>3, <2>8, <2>10, <4>1
        <5> QED
          BY <2>8, <3>1, <5>1
      <4> QED
        BY <2>8, <4>1
    <3>3. k = first
      <4>1. k \in T
        BY <2>3, <2>7, <2>8, <3>2
      <4>2. first <= k
        BY <2>10, <4>1
      <4>3. ~(first < k)
        <5> SUFFICES ASSUME first < k PROVE FALSE
          OBVIOUS
        <5>1. first \in 1..(k - 1)
          BY <2>3, <2>8, <2>10
        <5> QED
          BY <2>8, <3>1, <5>1
      <4> QED
        BY <2>3, <2>8, <2>10, <4>2, <4>3
    <3>4. PICK text \in Seq(Pair) : text = texts[first] /\ WellFormed(text)
      <4>1. texts[first] \in Seq(Pair)
        BY <2>3, <2>10, ElementOfSeq
      <4> QED
        BY <2>10, <4>1 DEF T
    <3>5. ASSUME NEW j \in DOMAIN text, text[j].name \in Name, LastOfName(text, j)
          PROVE  /\ identity[text[j].name] = text[j].val
                 /\ text[j].name = "ipfs" => text[j].val \in {"true", "false"}
      <4> DEFINE name == text[j].name
      <4>1. identity[name] = Field(text, name)
        BY <2>8, <3>2, <3>3, <3>4, <3>5 DEF Parse
      <4>2. text[j].val \in Plain(name)
        BY <3>4 DEF WellFormed
      <4>3. Sets(text[j]) /\ Value(text[j]) = text[j].val
        BY <4>2, PlainValues
      <4>4. PICK at \in DOMAIN text :
              /\ text[at].name = name /\ Field(text, name) = Value(text[at])
              /\ \A x \in DOMAIN text : text[x].name = name /\ Sets(text[x]) => x <= at
        BY <2>1, <4>3, FieldSource
      <4>5. at = j
        <5>1. j <= at /\ at \in 1..Len(text) /\ j \in 1..Len(text)
          BY <4>3, <4>4
        <5>2. ~(at \in (j + 1)..Len(text))
          BY <3>5, <4>4 DEF LastOfName
        <5> QED
          BY <5>1, <5>2
      <4> QED
        BY <4>1, <4>2, <4>3, <4>4, <4>5 DEF Plain
    <3>6. "true" \in Does.on /\ "false" \notin Does.on
      BY <2>1, ProfileType
    <3>7. first # 0
      BY <2>3, <2>10
    <3> QED
      BY <3>2, <3>4, <3>5, <3>6, <3>7
  <2> QED
    BY <2>6, <2>9, <2>10
<1>3. IInv => AllReadAlike
  BY <1>1, <1>2
<1> QED
  BY <1>3, Invariance, PTL

----
(***************************************************************************)
(* TxtBuffer.                                                              *)
(***************************************************************************)

\* Where places have a head and a next place, each has a sequence: its head and
\* then the sequence of the next place.
Chains(f, n, W, hd, nx) ==
  \A a \in 1..(n + 1) : f[a] = IF a \in W THEN <<hd[a]>> \o f[nx[a]] ELSE <<>>

LEMMA Chained ==
  ASSUME NEW S, NEW n \in Nat, NEW W \in SUBSET (1..n), NEW hd \in [W -> S],
         NEW nx \in [W -> Nat], \A a \in W : nx[a] \in (a + 1)..(n + 1)
  PROVE  \E f \in [1..(n + 1) -> Seq(S)] : Chains(f, n, W, hd, nx)
<1> DEFINE Pre(h, s) == <<h>> \o s
           Right(f, a) == f[a] = IF a \in W THEN Pre(hd[a], f[nx[a]]) ELSE <<>>
           T == {m \in 1..(n + 1) :
                   \E f \in [1..(n + 1) -> Seq(S)] : \A a \in (n + 2 - m)..(n + 1) : Right(f, a)}
<1>1. \A h \in S, s \in Seq(S) : Pre(h, s) \in Seq(S)
  OBVIOUS
<1>2. <<>> \in Seq(S)
  OBVIOUS
<1>3. \A f : Chains(f, n, W, hd, nx) <=> \A a \in 1..(n + 1) : Right(f, a)
  BY Zenon DEF Chains
<1> HIDE DEF Pre
<1>4. 1 \in T
  <2> DEFINE f == [a \in 1..(n + 1) |-> <<>>]
  <2>1. f \in [1..(n + 1) -> Seq(S)]
    BY <1>2
  <2>2. ASSUME NEW a \in (n + 1)..(n + 1) PROVE Right(f, a)
    <3>1. a \notin W /\ f[a] = <<>>
      OBVIOUS
    <3> QED
      BY <3>1
  <2> HIDE DEF f, Right
  <2>3. n + 2 - 1 = n + 1 /\ 1 \in 1..(n + 1)
    OBVIOUS
  <2> QED
    BY <2>1, <2>2, <2>3
<1>5. ASSUME NEW m \in 1..((n + 1) - 1), m \in T PROVE m + 1 \in T
  <2>1. PICK f \in [1..(n + 1) -> Seq(S)] : \A a \in (n + 2 - m)..(n + 1) : Right(f, a)
    BY <1>5
  <2> DEFINE b == n + 1 - m
             new == IF b \in W THEN Pre(hd[b], f[nx[b]]) ELSE <<>>
             g == [f EXCEPT ![b] = new]
  <2>2. b \in 1..n /\ b \in 1..(n + 1)
    OBVIOUS
  <2>3. new \in Seq(S)
    BY <1>1, <1>2, <2>2
  <2> HIDE DEF new
  <2>4. g \in [1..(n + 1) -> Seq(S)]
    BY <2>2, <2>3
  <2>5. g[b] = new /\ \A a \in (b + 1)..(n + 1) : g[a] = f[a]
    BY <2>2
  <2>6. ASSUME NEW a \in b..(n + 1) PROVE Right(g, a)
    <3>1. a \in W => nx[a] \in (b + 1)..(n + 1)
      BY <2>2
    <3>2. a \in W => g[nx[a]] = f[nx[a]]
      BY <2>5, <3>1
    <3>3. CASE a = b
      BY <2>5, <3>2, <3>3 DEF new
    <3>4. CASE a # b
      <4>1. a \in (b + 1)..(n + 1) /\ a \in (n + 2 - m)..(n + 1)
        BY <2>2, <3>4
      <4> QED
        BY <2>1, <2>5, <3>2, <4>1
    <3> QED
      BY <3>3, <3>4
  <2>7. n + 2 - (m + 1) = b /\ m + 1 \in 1..(n + 1)
    OBVIOUS
  <2> HIDE DEF g, b, Right
  <2> QED
    BY <2>4, <2>6, <2>7
<1>6. n + 1 \in T
  <2> HIDE DEF T
  <2>1. 1..(n + 1) \subseteq T
    BY <1>4, <1>5, UpTo
  <2> QED
    BY <2>1
<1> HIDE DEF Right
<1>7. PICK f \in [1..(n + 1) -> Seq(S)] : \A a \in (n + 2 - (n + 1))..(n + 1) : Right(f, a)
  BY <1>6
<1>8. \A a \in 1..(n + 1) : Right(f, a)
  BY <1>7
<1> QED
  BY <1>3, <1>8

LEMMA ChainsUnique ==
  ASSUME NEW n \in Nat, NEW W \in SUBSET (1..n), NEW hd, NEW nx,
         \A a \in W : nx[a] \in (a + 1)..(n + 1),
         NEW f, Chains(f, n, W, hd, nx), NEW g, Chains(g, n, W, hd, nx)
  PROVE  \A a \in 1..(n + 1) : f[a] = g[a]
<1> DEFINE U == {a \in 1..(n + 1) : f[a] # g[a]}
<1>1. SUFFICES ASSUME U # {} PROVE FALSE
  OBVIOUS
<1>2. U \subseteq 1..(n + 1) /\ n + 1 \in Nat
  OBVIOUS
<1>3. PICK m \in U : \A a \in U : a <= m
  <2> HIDE DEF U
  <2> QED
    BY <1>1, <1>2, GreatestOf
<1>4. m \in 1..(n + 1) /\ f[m] # g[m]
  OBVIOUS
<1>5. m \in W
  BY <1>4 DEF Chains
<1>6. nx[m] \in 1..(n + 1) /\ nx[m] > m
  BY <1>5
<1>7. f[nx[m]] = g[nx[m]]
  <2>1. nx[m] \notin U
    BY <1>3, <1>4, <1>6
  <2> QED
    BY <1>6, <2>1
<1> QED
  BY <1>4, <1>5, <1>7, Zenon DEF Chains

\* What the recursive function of Strings is, for it exists.
Splits(f, rdata) ==
  \A a \in 1..(Len(rdata) + 1) :
    f[a] = IF StringAt(rdata, a) THEN <<String(rdata, a)>> \o f[a + 1 + rdata[a]] ELSE <<>>

LEMMA BytesType == Byte \subseteq Nat /\ Byte \subseteq 0..255 /\ NUL \in Byte /\ NUL = 0 /\ Junk = -1
<1>1. Byte \subseteq 0..255 /\ 0 \in Byte
  BY TxtAssumption
<1> QED
  BY <1>1 DEF NUL, Junk

LEMMA StringType ==
  ASSUME NEW rdata \in Seq(Byte), NEW a \in Nat \ {0}, StringAt(rdata, a)
  PROVE  /\ a \in 1..Len(rdata) /\ rdata[a] \in Nat \ {0}
         /\ a + 1 + rdata[a] \in (a + 1)..(Len(rdata) + 1)
         /\ String(rdata, a) \in Seq(Byte) /\ Len(String(rdata, a)) = rdata[a]
         /\ \A x \in 1..rdata[a] : String(rdata, a)[x] = rdata[a + x]
<1>1. Len(rdata) \in Nat
  OBVIOUS
<1>2. a \in 1..Len(rdata)
  BY <1>1 DEF StringAt
<1>3. rdata[a] \in Byte
  BY <1>2
<1>4. rdata[a] \in Nat \ {0} /\ a + rdata[a] <= Len(rdata)
  <2>1. rdata[a] \in Nat
    BY <1>3, BytesType, Zenon
  <2> QED
    BY <2>1 DEF StringAt
<1> DEFINE l == rdata[a]
<1>5. a + 1 + l \in (a + 1)..(Len(rdata) + 1)
  BY <1>1, <1>2, <1>4
<1>6. \A x \in (a + 1)..(a + l) : rdata[x] \in Byte
  BY <1>1, <1>2, <1>4
<1>7. /\ SubSeq(rdata, a + 1, a + l) \in Seq(Byte)
      /\ Len(SubSeq(rdata, a + 1, a + l)) = l
      /\ \A x \in 1..l : SubSeq(rdata, a + 1, a + l)[x] = rdata[a + x]
  <2>1. a + 1 \in Int /\ a + l \in Int
    BY <1>2, <1>4
  <2> HIDE DEF l
  <2> QED
    BY <1>2, <1>4, <1>6, <2>1 DEF l
<1> QED
  BY <1>2, <1>4, <1>5, <1>7 DEF String

LEMMA StringsOf ==
  ASSUME NEW answer \in Answer
  PROVE  \E f \in [1..(Len(answer.rdata) + 1) -> Seq(Seq(Byte))] :
           /\ Splits(f, answer.rdata)
           /\ Strings(answer) = IF answer.txt THEN f[1] ELSE <<>>
<1> DEFINE rdata == answer.rdata
           n == Len(rdata)
           W == {a \in 1..n : StringAt(rdata, a)}
           hd == [a \in W |-> String(rdata, a)]
           nx == [a \in W |-> a + 1 + rdata[a]]
           Body(f, a) == IF StringAt(rdata, a)
                         THEN <<String(rdata, a)>> \o f[a + 1 + rdata[a]]
                         ELSE <<>>
           Fits(f) == f = [a \in 1..(n + 1) |-> Body(f, a)]
           F == CHOOSE f : Fits(f)
<1>1. Strings(answer) = IF answer.txt THEN F[1] ELSE <<>>
  BY Zenon DEF Strings
<1>2. \A f : Splits(f, rdata) <=> \A a \in 1..(n + 1) : f[a] = Body(f, a)
  BY Zenon DEF Splits
<1>3. rdata \in Seq(Byte) /\ n \in Nat
  BY DEF Answer
<1>4. W \in SUBSET (1..n) /\ \A a \in 1..(n + 1) : a \in W <=> StringAt(rdata, a)
  BY <1>3 DEF StringAt
<1> HIDE DEF rdata
<1>5. /\ hd \in [W -> Seq(Byte)] /\ nx \in [W -> Nat]
      /\ \A a \in W : nx[a] \in (a + 1)..(n + 1)
      /\ \A a \in W : hd[a] = String(rdata, a) /\ nx[a] = a + 1 + rdata[a]
  <2>1. ASSUME NEW a \in W
        PROVE  String(rdata, a) \in Seq(Byte) /\ a + 1 + rdata[a] \in (a + 1)..(n + 1)
    <3>1. a \in Nat \ {0} /\ StringAt(rdata, a)
      BY <1>3
    <3> QED
      BY <1>3, <3>1, StringType
  <2>2. \A a \in W : a \in Nat
    BY <1>3
  <2> HIDE DEF W
  <2>3. hd \in [W -> Seq(Byte)] /\ nx \in [W -> Nat]
    BY <1>3, <2>1, <2>2
  <2> QED
    BY <2>1, <2>3
<1> HIDE DEF n, W, hd, nx
<1>6. \A f : Chains(f, n, W, hd, nx) <=> \A a \in 1..(n + 1) : f[a] = Body(f, a)
  BY <1>4, <1>5, Zenon DEF Chains
<1>7. PICK g \in [1..(n + 1) -> Seq(Seq(Byte))] : Chains(g, n, W, hd, nx)
  BY <1>3, <1>4, <1>5, Chained
<1> HIDE DEF Body
<1>8. Fits(g)
  BY <1>6, <1>7
<1>9. Fits(F)
  <2> HIDE DEF Fits
  <2> QED
    BY <1>8
<1> HIDE DEF F
<1>10. \A a \in 1..(n + 1) : F[a] = Body(F, a)
  BY <1>9
<1>11. Chains(F, n, W, hd, nx)
  BY <1>6, <1>10
<1>12. F[1] = g[1]
  <2>1. 1 \in 1..(n + 1)
    BY <1>3
  <2>2. \A a \in 1..(n + 1) : F[a] = g[a]
      <3>1. n \in Nat /\ W \in SUBSET (1..n) /\ \A a \in W : nx[a] \in (a + 1)..(n + 1)
      BY <1>3, <1>4, <1>5
    <3> QED
      BY <1>7, <1>11, <3>1, ChainsUnique
  <2> QED
    BY <2>1, <2>2
<1>13. Splits(g, rdata)
  BY <1>2, <1>6, <1>7
<1> QED
  BY <1>1, <1>7, <1>12, <1>13 DEF n, rdata

\* Where each of the sequences ss begins in the sequence s they come to.
BasesOf(b, ss, n, s) ==
  /\ b[1] = 0 /\ b[n + 1] = Len(s)
  /\ \A r \in 1..n : /\ b[r + 1] = b[r] + Len(ss[r])
                     /\ \A x \in 1..Len(ss[r]) : s[b[r] + x] = ss[r][x]

LEMMA GatheredBases ==
  ASSUME NEW S, NEW n \in Nat \ {0}, NEW ss, NEW f \in [1..n -> Seq(S)],
         \A m \in 1..n : ss[m] \in Seq(S), Gathers(f, ss, n)
  PROVE  \E b \in [1..(n + 1) -> Nat] : BasesOf(b, ss, n, f[n])
<1> DEFINE b == [r \in 1..(n + 1) |-> IF r = 1 THEN 0 ELSE Len(f[r - 1])]
<1>1. \A m \in 1..n : f[m] \in Seq(S) /\ Len(f[m]) \in Nat /\ ss[m] \in Seq(S) /\ Len(ss[m]) \in Nat
  OBVIOUS
<1>2. b \in [1..(n + 1) -> Nat] /\ b[1] = 0 /\ \A m \in 1..n : b[m + 1] = Len(f[m])
  <2>1. \A m \in 1..n : m + 1 \in 1..(n + 1) /\ m + 1 # 1 /\ (m + 1) - 1 = m
    OBVIOUS
  <2>2. \A r \in 1..(n + 1) : r # 1 => r - 1 \in 1..n
    OBVIOUS
  <2>3. 1 \in 1..(n + 1)
    OBVIOUS
  <2> QED
    BY <1>1, <2>1, <2>2, <2>3
<1> HIDE DEF b
<1>3. ASSUME NEW m \in 1..(n - 1)
      PROVE  /\ m \in 1..n /\ m + 1 \in 1..n
             /\ Len(f[m + 1]) = Len(f[m]) + Len(ss[m + 1])
             /\ \A x \in 1..Len(f[m]) : f[m + 1][x] = f[m][x]
             /\ \A x \in 1..Len(ss[m + 1]) : f[m + 1][Len(f[m]) + x] = ss[m + 1][x]
  <2>1. m \in 1..n /\ m + 1 \in 1..n /\ m + 1 \in 2..n /\ (m + 1) - 1 = m
    OBVIOUS
  <2>2. f[m + 1] = f[m] \o ss[m + 1]
    BY <2>1 DEF Gathers
  <2>3. f[m] \in Seq(S) /\ ss[m + 1] \in Seq(S)
    BY <1>1, <2>1
  <2> QED
    BY <2>1, <2>2, <2>3, Glued
<1>4. ASSUME NEW r \in 1..n
      PROVE  /\ b[r + 1] = b[r] + Len(ss[r])
             /\ \A x \in 1..Len(ss[r]) : f[r][b[r] + x] = ss[r][x]
  <2>1. CASE r = 1
    <3>1. f[1] = ss[1] /\ b[1] = 0 /\ b[2] = Len(f[1]) /\ Len(f[1]) \in Nat
      BY <1>1, <1>2 DEF Gathers
    <3> QED
      BY <2>1, <3>1
  <2>2. CASE r # 1
    <3>1. r - 1 \in 1..(n - 1) /\ r - 1 \in 1..n /\ (r - 1) + 1 = r
      BY <2>2
    <3>2. b[r] = Len(f[r - 1]) /\ b[r + 1] = Len(f[r])
      BY <1>2, <3>1
    <3>3. /\ Len(f[(r - 1) + 1]) = Len(f[r - 1]) + Len(ss[(r - 1) + 1])
          /\ \A x \in 1..Len(ss[(r - 1) + 1]) :
               f[(r - 1) + 1][Len(f[r - 1]) + x] = ss[(r - 1) + 1][x]
      BY <1>3, <3>1
    <3> QED
      BY <3>1, <3>2, <3>3
  <2> QED
    BY <2>1, <2>2
<1>5. ASSUME NEW r \in 1..n, NEW x \in 1..Len(ss[r])
      PROVE  f[n][b[r] + x] = ss[r][x]
  <2> DEFINE y == b[r] + x
             T == {m \in 1..n : m >= r => y \in 1..Len(f[m]) /\ f[m][y] = ss[r][x]}
  <2>1. y \in 1..Len(f[r]) /\ f[r][y] = ss[r][x]
    <3>1. b[r] \in Nat /\ b[r + 1] = Len(f[r])
      BY <1>2
    <3>2. Len(ss[r]) \in Nat /\ Len(f[r]) = b[r] + Len(ss[r])
      BY <1>1, <1>4, <3>1
    <3>3. f[r][b[r] + x] = ss[r][x]
      BY <1>4
    <3> QED
      BY <3>1, <3>2, <3>3
  <2> HIDE DEF y
  <2>2. 1 \in T
    <3>1. 1 >= r => r = 1
      OBVIOUS
    <3> QED
      BY <2>1, <3>1
  <2>3. ASSUME NEW m \in 1..(n - 1), m \in T PROVE m + 1 \in T
    <3>1. m + 1 >= r => m >= r \/ m + 1 = r
      OBVIOUS
    <3>2. CASE m >= r
      <4>1. y \in 1..Len(f[m]) /\ f[m][y] = ss[r][x] /\ Len(f[m]) \in Nat /\ Len(ss[m + 1]) \in Nat
        BY <1>1, <1>3, <2>3, <3>2
      <4>2. Len(f[m + 1]) = Len(f[m]) + Len(ss[m + 1]) /\ f[m + 1][y] = f[m][y] /\ m + 1 \in 1..n
        BY <1>3, <4>1
      <4>3. y \in 1..Len(f[m + 1])
        <5> DEFINE u == Len(f[m])
                   v == Len(ss[m + 1])
        <5>1. u \in Nat /\ v \in Nat /\ y \in 1..u /\ Len(f[m + 1]) = u + v
          BY <4>1, <4>2
        <5> HIDE DEF u, v
        <5>2. y \in 1..(u + v)
          BY <5>1
        <5> QED
          BY <5>1, <5>2, Zenon
      <4>4. f[m + 1][y] = ss[r][x]
        BY <4>1, <4>2
      <4> QED
        BY <4>2, <4>3, <4>4
    <3>3. CASE m + 1 = r
      BY <1>3, <2>1, <3>3
    <3>4. CASE ~(m + 1 >= r)
      BY <1>3, <3>4
    <3> QED
      BY <3>1, <3>2, <3>3, <3>4
  <2>4. n \in T
    <3> HIDE DEF T
    <3>1. 1..n \subseteq T
      BY <2>2, <2>3, UpTo
    <3> QED
      BY <3>1
  <2> QED
    BY <2>4 DEF y
<1>6. b[n + 1] = Len(f[n])
  BY <1>2
<1> QED
  BY <1>2, <1>4, <1>5, <1>6 DEF BasesOf

LEMMA FlattenBases ==
  ASSUME NEW S, NEW ss \in Seq(Seq(S)), NEW n, n = Len(ss)
  PROVE  \E b \in [1..(n + 1) -> Nat] : BasesOf(b, ss, n, FlattenSeq(ss))
<1>1. CASE ss = <<>>
  <2> DEFINE b == [x \in 1..1 |-> 0]
  <2>1. FlattenSeq(ss) = <<>> /\ n = 0
    BY <1>1, Zenon, EmptyLength DEF FlattenSeq
  <2>2. b \in [1..1 -> Nat] /\ b[1] = 0
    OBVIOUS
  <2> HIDE DEF b
  <2>3. BasesOf(b, ss, 0, <<>>)
    BY <2>2, EmptyLength DEF BasesOf
  <2>4. 0 + 1 = 1
    OBVIOUS
  <2> QED
    BY <2>1, <2>2, <2>3, <2>4
<1>2. CASE ss # <<>>
  <2>1. PICK f \in [1..n -> Seq(S)] : Gathers(f, ss, n) /\ FlattenSeq(ss) = f[n]
    BY <1>2, Flattening
  <2>2. n \in Nat \ {0} /\ \A m \in 1..n : ss[m] \in Seq(S)
    BY <1>2, EmptySeq, ElementOfSeq
  <2>3. \E b \in [1..(n + 1) -> Nat] : BasesOf(b, ss, n, f[n])
    BY <2>1, <2>2, GatheredBases, Zenon
  <2> QED
    BY <2>1, <2>3
<1> QED
  BY <1>1, <1>2

LEMMA Ascending ==
  ASSUME NEW n \in Nat, NEW b \in [1..(n + 1) -> Nat], \A r \in 1..n : b[r] <= b[r + 1],
         NEW x \in 1..(n + 1), NEW y \in 1..(n + 1), x <= y
  PROVE  b[x] <= b[y]
<1> DEFINE T == {m \in 1..(n + 1) : m >= x => b[x] <= b[m]}
<1>1. 1 \in T
  <2>1. 1 >= x => x = 1
    OBVIOUS
  <2>2. 1 \in 1..(n + 1) /\ b[1] <= b[1]
    OBVIOUS
  <2> QED
    BY <2>1, <2>2
<1>2. ASSUME NEW m \in 1..((n + 1) - 1), m \in T PROVE m + 1 \in T
  <2>1. m \in 1..n /\ m + 1 \in 1..(n + 1) /\ b[m] <= b[m + 1] /\ m \in 1..(n + 1)
    OBVIOUS
  <2>2. b[m] \in Int /\ b[m + 1] \in Int /\ b[x] \in Int
    BY <2>1
  <2>3. m + 1 >= x => m >= x \/ m + 1 = x
    BY <2>1
  <2>4. CASE m >= x
    <3>1. b[x] <= b[m]
      BY <1>2, <2>4
    <3>2. b[x] <= b[m + 1]
      BY <2>1, <2>2, <3>1
    <3> QED
      BY <2>1, <3>2
  <2>5. CASE m + 1 = x
    <3>1. b[x] <= b[m + 1]
      BY <2>2, <2>5
    <3> QED
      BY <2>1, <3>1
  <2>6. CASE ~(m + 1 >= x)
    BY <2>1, <2>6
  <2> QED
    BY <2>3, <2>4, <2>5, <2>6
<1>3. y \in T
  <2> HIDE DEF T
  <2>1. n + 1 \in Nat
    OBVIOUS
  <2>2. 1..(n + 1) \subseteq T
    BY <1>1, <1>2, <2>1, UpTo
  <2> QED
    BY <2>2
<1> QED
  BY <1>3

\* The places that a pass comes to in an answer, each with the number of the
\* string to come.
AnswerVisits(Q, answer) ==
  LET rdata == answer.rdata
      s     == Strings(answer)
  IN
  /\ <<1, 1>> \in Q
  /\ \A a, j : <<a, j>> \in Q =>
       /\ a \in Nat \ {0} /\ j \in Nat \ {0}
       /\ IF answer.txt /\ StringAt(rdata, a)
          THEN /\ j <= Len(s) /\ s[j] = String(rdata, a)
               /\ <<a + 1 + rdata[a], j + 1>> \in Q
          ELSE j = Len(s) + 1

LEMMA AnswerVisit ==
  ASSUME NEW Q, NEW answer, AnswerVisits(Q, answer), NEW a, NEW j, <<a, j>> \in Q
  PROVE  /\ a \in Nat \ {0} /\ j \in Nat \ {0}
         /\ IF answer.txt /\ StringAt(answer.rdata, a)
            THEN /\ j <= Len(Strings(answer)) /\ Strings(answer)[j] = String(answer.rdata, a)
                 /\ <<a + 1 + answer.rdata[a], j + 1>> \in Q
            ELSE j = Len(Strings(answer)) + 1
  BY DEF AnswerVisits

LEMMA VisitingAnswer ==
  ASSUME NEW answer \in Answer
  PROVE  Strings(answer) \in Seq(Seq(Byte)) /\ \E Q : AnswerVisits(Q, answer)
<1> DEFINE rdata == answer.rdata
           n == Len(rdata)
           s == Strings(answer)
<1>1. rdata \in Seq(Byte) /\ n \in Nat /\ answer.txt \in BOOLEAN
  BY DEF Answer
<1>2. PICK f \in [1..(n + 1) -> Seq(Seq(Byte))] :
        Splits(f, rdata) /\ s = IF answer.txt THEN f[1] ELSE <<>>
  BY StringsOf
<1>3. <<>> \in Seq(Seq(Byte)) /\ Len(<<>>) = 0
  BY EmptySeq
<1>4. 1 \in 1..(n + 1) /\ f[1] \in Seq(Seq(Byte))
  BY <1>1, <1>2
<1> DEFINE Body(a) == IF StringAt(rdata, a)
                      THEN <<String(rdata, a)>> \o f[a + 1 + rdata[a]]
                      ELSE <<>>
<1>5. \A a \in 1..(n + 1) : f[a] = Body(a)
  BY <1>2, Zenon DEF Splits
<1> HIDE DEF rdata, n, s
<1>6. CASE ~answer.txt
  <2>1. s = <<>>
    BY <1>2, <1>6
  <2> DEFINE Q == {<<1, 1>>}
  <2>2. <<1, 1>> \in Q /\ \A a, j : <<a, j>> \in Q => a = 1 /\ j = 1
    OBVIOUS
  <2> HIDE DEF Q
  <2>3. AnswerVisits(Q, answer)
    BY <1>3, <1>6, <2>1, <2>2 DEF AnswerVisits, s
  <2> QED
    BY <1>3, <2>1, <2>3 DEF s
<1>7. CASE answer.txt
  <2>1. s = f[1] /\ s \in Seq(Seq(Byte))
    BY <1>2, <1>4, <1>7
  <2> DEFINE Rest(a, j) == /\ a \in 1..(n + 1) /\ j \in Nat \ {0}
                           /\ Len(s) = (j - 1) + Len(f[a])
                           /\ \A x \in 1..Len(f[a]) : s[(j - 1) + x] = f[a][x]
             Q == {v \in (1..(n + 1)) \X (Nat \ {0}) : Rest(v[1], v[2])}
  <2>2. \A a, j : <<a, j>> \in Q <=> Rest(a, j)
    OBVIOUS
  <2> HIDE DEF Q
  <2>3. Rest(1, 1)
    BY <1>4, <2>1
  <2>4. ASSUME NEW a, NEW j, Rest(a, j), ~StringAt(rdata, a) PROVE j = Len(s) + 1
    <3>1. f[a] = <<>>
      BY <1>5, <2>4
    <3> QED
      BY <1>3, <2>4, <3>1
  <2>5. ASSUME NEW a, NEW j, Rest(a, j), StringAt(rdata, a)
        PROVE  j <= Len(s) /\ s[j] = String(rdata, a) /\ Rest(a + 1 + rdata[a], j + 1)
    <3> DEFINE h == String(rdata, a)
               c == a + 1 + rdata[a]
               t == f[c]
    <3>1. a \in Nat \ {0} /\ a \in 1..(n + 1) /\ j \in Nat \ {0}
      BY <1>1, <2>5
    <3>2. h \in Seq(Byte) /\ c \in 1..(n + 1)
      <4>1. String(rdata, a) \in Seq(Byte) /\ a + 1 + rdata[a] \in (a + 1)..(Len(rdata) + 1)
        BY <1>1, <2>5, <3>1, StringType
      <4> QED
        BY <1>1, <3>1, <4>1 DEF n
    <3>3. f[a] = <<h>> \o t
      BY <1>5, <2>5, <3>1
    <3>4. t \in Seq(Seq(Byte)) /\ Len(t) \in Nat
      BY <3>2
    <3> HIDE DEF h, c, t
    <3>7. /\ Len(f[a]) = 1 + Len(t) /\ f[a][1] = h
          /\ \A x \in 1..Len(t) : f[a][1 + x] = t[x]
      <4> DEFINE both == <<h>> \o t
      <4>1. Len(both) = 1 + Len(t) /\ both[1] = h /\ \A x \in 1..Len(t) : both[1 + x] = t[x]
        BY <3>2, <3>4, Prefixed
      <4> QED
        BY <3>3, <4>1, Zenon
    <3>8. Len(s) = (j - 1) + (1 + Len(t)) /\ j <= Len(s) /\ s[j] = h
      <4>1. 1 \in 1..Len(f[a]) /\ Len(s) = (j - 1) + (1 + Len(t))
        BY <2>5, <3>4, <3>7
      <4>2. s[(j - 1) + 1] = h
        BY <2>5, <3>7, <4>1
      <4> QED
        BY <3>1, <3>4, <4>1, <4>2
    <3>9. \A x \in 1..Len(t) : s[((j + 1) - 1) + x] = t[x]
      <4> TAKE x \in 1..Len(t)
      <4>1. 1 + x \in 1..Len(f[a]) /\ (j - 1) + (1 + x) = ((j + 1) - 1) + x
        BY <3>1, <3>4, <3>7
      <4>2. s[(j - 1) + (1 + x)] = f[a][1 + x]
        BY <2>5, <4>1
      <4> QED
        BY <3>7, <4>1, <4>2
    <3>10. Rest(c, j + 1)
      <4>1. Len(s) = ((j + 1) - 1) + Len(t) /\ j + 1 \in Nat \ {0}
        BY <3>1, <3>4, <3>8
      <4> QED
        BY <3>2, <3>9, <4>1 DEF t
    <3> QED
      BY <3>8, <3>10 DEF h, c
  <2>6. \A a, j : Rest(a, j) => a \in Nat \ {0} /\ j \in Nat \ {0}
    BY <1>1
  <2> HIDE DEF Rest
  <2>7. AnswerVisits(Q, answer)
    BY <1>7, <2>2, <2>3, <2>4, <2>5, <2>6 DEF AnswerVisits, s, rdata
  <2> QED
    BY <2>1, <2>7 DEF s
<1> QED
  BY <1>1, <1>6, <1>7

\* The strings of a reply, one after the other.
StringsIn(R) == FlattenSeq([r \in DOMAIN R |-> Strings(R[r])])

\* The places that a pass comes to in a reply, each with the number of the
\* string to come, of the strings s of the reply.
Visits(P, s, R) ==
  /\ <<1, 1, 1>> \in P
  /\ \A r, a, n : <<r, a, n>> \in P =>
       /\ r \in Nat \ {0} /\ a \in Nat \ {0} /\ n \in Nat \ {0}
       /\ IF r > Len(R) THEN n = Len(s) + 1
          ELSE IF R[r].txt /\ StringAt(R[r].rdata, a)
          THEN /\ n <= Len(s) /\ s[n] = String(R[r].rdata, a)
               /\ <<r, a + 1 + R[r].rdata[a], n + 1>> \in P
          ELSE <<r + 1, 1, n>> \in P

\* Where each of the strings s begins in the buffer.
Offsets(o, s) ==
  /\ o \in [1..(Len(s) + 1) -> Nat] /\ o[1] = 0
  /\ \A n \in 1..Len(s) : o[n + 1] = o[n] + Len(s[n]) + 1

LEMMA StringsInType ==
  ASSUME NEW R \in Seq(Answer), NEW ss, ss = [r \in DOMAIN R |-> Strings(R[r])]
  PROVE  /\ ss \in Seq(Seq(Seq(Byte))) /\ Len(ss) = Len(R)
         /\ \A r \in 1..Len(R) : ss[r] = Strings(R[r])
         /\ StringsIn(R) = FlattenSeq(ss) /\ StringsIn(R) \in Seq(Seq(Byte))
<1>1. DOMAIN R = 1..Len(R) /\ Len(R) \in Nat
  OBVIOUS
<1>2. ASSUME NEW r \in 1..Len(R) PROVE Strings(R[r]) \in Seq(Seq(Byte))
  <2>1. R[r] \in Answer
    BY ElementOfSeq
  <2> QED
    BY <2>1, VisitingAnswer
<1>3. ss \in Seq(Seq(Seq(Byte))) /\ Len(ss) = Len(R) /\ \A r \in 1..Len(R) : ss[r] = Strings(R[r])
  BY <1>1, <1>2
<1>4. StringsIn(R) = FlattenSeq(ss)
  BY DEF StringsIn
<1>5. FlattenSeq(ss) \in Seq(Seq(Byte))
  BY <1>3, FlattenType, Zenon
<1> QED
  BY <1>3, <1>4, <1>5

LEMMA Visiting ==
  ASSUME NEW R \in Seq(Answer), NEW s, s = StringsIn(R)
  PROVE  \E P : Visits(P, s, R)
<1>1. PICK N \in Nat : N = Len(R)
  OBVIOUS
<1>2. PICK b \in [1..(N + 1) -> Nat] :
        /\ b[1] = 0 /\ b[N + 1] = Len(s)
        /\ \A r \in 1..N : /\ b[r + 1] = b[r] + Len(Strings(R[r]))
                           /\ \A x \in 1..Len(Strings(R[r])) : s[b[r] + x] = Strings(R[r])[x]
  <2> DEFINE ss == [r \in DOMAIN R |-> Strings(R[r])]
  <2>1. /\ ss \in Seq(Seq(Seq(Byte))) /\ Len(ss) = N
        /\ \A r \in 1..N : ss[r] = Strings(R[r])
        /\ s = FlattenSeq(ss)
    BY <1>1, StringsInType
  <2> HIDE DEF ss
  <2>2. PICK b \in [1..(N + 1) -> Nat] : BasesOf(b, ss, N, s)
    BY <2>1, FlattenBases, Zenon
  <2>3. b[1] = 0 /\ b[N + 1] = Len(s)
    BY <2>2 DEF BasesOf
  <2>4. ASSUME NEW r \in 1..N
        PROVE  /\ b[r + 1] = b[r] + Len(Strings(R[r]))
               /\ \A x \in 1..Len(Strings(R[r])) : s[b[r] + x] = Strings(R[r])[x]
    BY <2>1, <2>2, Zenon DEF BasesOf
  <2> QED
    BY <2>2, <2>3, <2>4
<1>3. \A r \in 1..N : Len(Strings(R[r])) \in Nat /\ \E Q : AnswerVisits(Q, R[r])
  <2> TAKE r \in 1..N
  <2>1. R[r] \in Answer
    BY <1>1, ElementOfSeq
  <2>2. Strings(R[r]) \in Seq(Seq(Byte)) /\ \E Q : AnswerVisits(Q, R[r])
    BY <2>1, VisitingAnswer
  <2> QED
    BY <2>2
<1>4. \A r \in 1..N : b[r] \in Nat /\ b[r + 1] \in Nat /\ b[r + 1] <= Len(s)
  <2> TAKE r \in 1..N
  <2>1. \A x \in 1..N : b[x] <= b[x + 1]
    BY <1>2, <1>3
  <2>2. r + 1 \in 1..(N + 1) /\ N + 1 \in 1..(N + 1) /\ r + 1 <= N + 1
    OBVIOUS
  <2>3. b[r + 1] <= b[N + 1]
    BY <2>1, <2>2, Ascending
  <2> QED
    BY <1>2, <2>2, <2>3
<1> DEFINE Within(r, a, n) == /\ r \in 1..N /\ a \in Nat \ {0} /\ n \in Nat \ {0}
                              /\ \E Q : AnswerVisits(Q, R[r]) /\ <<a, n - b[r]>> \in Q
           Past(r, a, n) == r = N + 1 /\ a = 1 /\ n = Len(s) + 1
           P == {v \in (Nat \ {0}) \X (Nat \ {0}) \X (Nat \ {0}) :
                   Within(v[1], v[2], v[3]) \/ Past(v[1], v[2], v[3])}
<1>5. Len(s) \in Nat /\ Len(s) = b[N + 1]
  BY <1>2
<1>6. \A r, a, n : <<r, a, n>> \in P <=> Within(r, a, n) \/ Past(r, a, n)
  <2>1. \A r, a, n : Within(r, a, n) \/ Past(r, a, n) =>
          r \in Nat \ {0} /\ a \in Nat \ {0} /\ n \in Nat \ {0}
    BY <1>5
  <2> HIDE DEF Within, Past
  <2> QED
    BY <2>1
<1> HIDE DEF P
<1>7. ASSUME NEW r \in 1..(N + 1) PROVE <<r, 1, b[r] + 1>> \in P
  <2>1. CASE r = N + 1
    BY <1>5, <1>6, <2>1
  <2>2. CASE r \in 1..N
    <3>1. PICK Q : AnswerVisits(Q, R[r])
      BY <1>3, <2>2
    <3>2. <<1, 1>> \in Q
      BY <3>1 DEF AnswerVisits
    <3>3. b[r] + 1 \in Nat \ {0} /\ (b[r] + 1) - b[r] = 1
      BY <1>4, <2>2
    <3>4. Within(r, 1, b[r] + 1)
      <4>1. AnswerVisits(Q, R[r]) /\ <<1, (b[r] + 1) - b[r]>> \in Q
        BY <3>1, <3>2, <3>3, Zenon
      <4>2. 1 \in Nat \ {0}
        OBVIOUS
      <4> QED
        BY <2>2, <3>3, <4>1, <4>2, Zenon
    <3> QED
      BY <1>6, <3>4
  <2> QED
    BY <2>1, <2>2
<1>8. <<1, 1, 1>> \in P
  <2>1. 1 \in 1..(N + 1) /\ b[1] + 1 = 1
    BY <1>2
  <2> QED
    BY <1>7, <2>1
<1>9. ASSUME NEW r, NEW a, NEW n, Within(r, a, n)
      PROVE  IF R[r].txt /\ StringAt(R[r].rdata, a)
             THEN /\ n <= Len(s) /\ s[n] = String(R[r].rdata, a)
                  /\ <<r, a + 1 + R[r].rdata[a], n + 1>> \in P
             ELSE <<r + 1, 1, n>> \in P
  <2>1. PICK Q : AnswerVisits(Q, R[r]) /\ <<a, n - b[r]>> \in Q
    BY <1>9
  <2> DEFINE j == n - b[r]
             t == Strings(R[r])
             next == a + 1 + R[r].rdata[a]
  <2>2. /\ a \in Nat \ {0} /\ j \in Nat \ {0}
        /\ IF R[r].txt /\ StringAt(R[r].rdata, a)
           THEN j <= Len(t) /\ t[j] = String(R[r].rdata, a) /\ <<next, j + 1>> \in Q
           ELSE j = Len(t) + 1
    BY <2>1, AnswerVisit, SMTT(30)
  <2>3. b[r] \in Nat /\ Len(t) \in Nat /\ b[r + 1] = b[r] + Len(t) /\ b[r + 1] <= Len(s) /\ n \in Nat
    BY <1>2, <1>3, <1>4, <1>9
  <2>4. n = b[r] + j
    BY <2>3
  <2>5. CASE R[r].txt /\ StringAt(R[r].rdata, a)
    <3>1. j <= Len(t) /\ t[j] = String(R[r].rdata, a) /\ <<next, j + 1>> \in Q
      BY <2>2, <2>5
    <3>2. n <= Len(s) /\ j \in 1..Len(t) /\ (n + 1) - b[r] = j + 1
      <4>1. j \in Nat \ {0} /\ b[r] + Len(t) <= Len(s)
        BY <2>2, <2>3, Zenon
      <4> HIDE DEF j, t
      <4> QED
        BY <1>5, <2>3, <2>4, <3>1, <4>1
    <3>3. s[n] = t[j]
      BY <1>2, <1>9, <2>4, <3>2
    <3>4. next \in Nat \ {0}
      BY <2>1, <3>1 DEF AnswerVisits
    <3>5. n + 1 \in Nat \ {0}
      BY <2>3
    <3>6. Within(r, next, n + 1)
      <4> HIDE DEF next, j
      <4> QED
        BY <1>9, <2>1, <3>1, <3>2, <3>4, <3>5
    <3>7. <<r, next, n + 1>> \in P
      BY <1>6, <3>6
    <3> QED
      BY <2>5, <3>1, <3>2, <3>3, <3>7
  <2>6. CASE ~(R[r].txt /\ StringAt(R[r].rdata, a))
    <3>1. j = Len(t) + 1
      BY <2>2, <2>6
    <3>2. n = b[r + 1] + 1 /\ r + 1 \in 1..(N + 1)
      <4>1. r \in 1..N
        BY <1>9
      <4> HIDE DEF j, t
      <4> QED
        BY <2>3, <2>4, <3>1, <4>1
    <3>3. <<r + 1, 1, n>> \in P
      BY <1>7, <3>2
    <3> QED
      BY <2>6, <3>3
  <2> QED
    BY <2>5, <2>6
<1>10. ASSUME NEW r, NEW a, NEW n, <<r, a, n>> \in P
       PROVE  /\ r \in Nat \ {0} /\ a \in Nat \ {0} /\ n \in Nat \ {0}
              /\ IF r > Len(R) THEN n = Len(s) + 1
                 ELSE IF R[r].txt /\ StringAt(R[r].rdata, a)
                 THEN /\ n <= Len(s) /\ s[n] = String(R[r].rdata, a)
                      /\ <<r, a + 1 + R[r].rdata[a], n + 1>> \in P
                 ELSE <<r + 1, 1, n>> \in P
  <2>1. Within(r, a, n) \/ Past(r, a, n)
    BY <1>6, <1>10
  <2>2. CASE Within(r, a, n)
    <3>1. r \in Nat \ {0} /\ ~(r > Len(R)) /\ a \in Nat \ {0} /\ n \in Nat \ {0}
      BY <1>1, <2>2
    <3> HIDE DEF Within
    <3> QED
      BY <1>9, <2>2, <3>1, Zenon
  <2>3. CASE Past(r, a, n)
    BY <1>1, <1>5, <2>3
  <2> HIDE DEF Within, Past
  <2> QED
    BY <2>1, <2>2, <2>3
<1>11. Visits(P, s, R)
  BY <1>8, <1>10 DEF Visits
<1> QED
  BY <1>11

LEMMA OffsetsExist ==
  ASSUME NEW s \in Seq(Seq(Byte))
  PROVE  \E o : Offsets(o, s)
<1>1. PICK N \in Nat : N = Len(s)
  OBVIOUS
<1>2. PICK b \in [1..(N + 1) -> Nat] : BasesOf(b, s, N, FlattenSeq(s))
  BY <1>1, FlattenBases, Zenon
<1>3. b[1] = 0 /\ \A n \in 1..N : b[n + 1] = b[n] + Len(s[n])
  BY <1>2 DEF BasesOf
<1> DEFINE o == [n \in 1..(N + 1) |-> b[n] + (n - 1)]
<1>4. o \in [1..(N + 1) -> Nat]
  OBVIOUS
<1>5. o[1] = 0
  BY <1>3
<1>6. ASSUME NEW n \in 1..N PROVE o[n + 1] = o[n] + Len(s[n]) + 1
  <2>1. n \in 1..(N + 1) /\ n + 1 \in 1..(N + 1) /\ (n + 1) - 1 = n
    OBVIOUS
  <2>2. b[n] \in Nat /\ b[n + 1] = b[n] + Len(s[n]) /\ Len(s[n]) \in Nat
    <3>1. s[n] \in Seq(Byte)
      BY <1>1, ElementOfSeq
    <3> QED
      BY <1>3, <2>1, <3>1
  <2>3. o[n] = b[n] + (n - 1) /\ o[n + 1] = b[n + 1] + n
    BY <2>1
  <2> HIDE DEF o
  <2> QED
    BY <2>2, <2>3
<1> HIDE DEF o
<1> QED
  BY <1>1, <1>4, <1>5, <1>6 DEF Offsets

\* (The provers are slow where they see sequences of sequences.)
AreStrings(s) == s \in Seq(Seq(Byte))

LEMMA StringAmong ==
  ASSUME NEW s, AreStrings(s)
  PROVE  Len(s) \in Nat /\ \A n \in 1..Len(s) : s[n] \in Seq(Byte)
<1>1. s \in Seq(Seq(Byte))
  BY DEF AreStrings
<1> QED
  BY <1>1, ElementOfSeq

LEMMA VisitOther ==
  ASSUME NEW R, NEW s, NEW P, Visits(P, s, R), NEW r, NEW a, NEW n, <<r, a, n>> \in P,
         Len(R) \in Nat
  PROVE  /\ r > Len(R) => n = Len(s) + 1
         /\ r <= Len(R) /\ ~(R[r].txt /\ StringAt(R[r].rdata, a)) => <<r + 1, 1, n>> \in P
<1>1. /\ r \in Nat
      /\ IF r > Len(R) THEN n = Len(s) + 1
         ELSE IF R[r].txt /\ StringAt(R[r].rdata, a)
         THEN /\ n <= Len(s) /\ s[n] = String(R[r].rdata, a)
              /\ <<r, a + 1 + R[r].rdata[a], n + 1>> \in P
         ELSE <<r + 1, 1, n>> \in P
  BY DEF Visits
<1>2. r <= Len(R) => ~(r > Len(R))
  BY <1>1
<1> QED
  BY <1>1, <1>2, Zenon

LEMMA OffsetsType ==
  ASSUME NEW s, AreStrings(s), NEW o, Offsets(o, s)
  PROVE  /\ Len(s) \in Nat /\ \A n \in 1..Len(s) : Len(s[n]) \in Nat
         /\ \A n \in 1..(Len(s) + 1) : o[n] \in Nat
         /\ \A n \in 1..Len(s) : o[n + 1] = o[n] + Len(s[n]) + 1
         /\ \A x, y \in 1..(Len(s) + 1) : x <= y => o[x] <= o[y]
<1>1. PICK N \in Nat : N = Len(s)
  BY StringAmong
<1>2. \A n \in 1..N : Len(s[n]) \in Nat
  <2> TAKE n \in 1..N
  <2>1. s[n] \in Seq(Byte)
    BY <1>1, StringAmong
  <2> QED
    BY <2>1
<1>3. o \in [1..(N + 1) -> Nat] /\ \A n \in 1..N : o[n + 1] = o[n] + Len(s[n]) + 1
  BY <1>1 DEF Offsets
<1>4. \A n \in 1..N : o[n] <= o[n + 1]
  <2> TAKE n \in 1..N
  <2>1. o[n] \in Nat /\ Len(s[n]) \in Nat
    BY <1>2, <1>3
  <2> QED
    BY <1>3, <2>1
<1>5. \A x, y \in 1..(N + 1) : x <= y => o[x] <= o[y]
  BY <1>3, <1>4, Ascending
<1> QED
  BY <1>1, <1>2, <1>3, <1>5

\* The first n strings are in the buffer b, each followed by its NUL.
Filled(b, o, s, n) ==
  \A m \in 1..n : /\ Len(s[m]) \in Nat \ {0}
                  /\ \A x \in 1..Len(s[m]) : b[o[m] + x - 1] = s[m][x]
                  /\ b[o[m] + Len(s[m])] = NUL

\* malloc's bytes are overwritten, up to a place.
NoJunk(b, e) == \A x \in 0..(e - 1) : b[x] # Junk

\* c is b with string n copied to its place.
Copied(c, b, o, s, n) ==
  \A x \in 0..o[Len(s) + 1] :
    c[x] = IF x \in o[n]..((o[n] + Len(s[n])) - 1) THEN s[n][x - o[n] + 1]
           ELSE IF x = o[n] + Len(s[n]) THEN NUL ELSE b[x]

LEMMA CopiedFills ==
  ASSUME NEW s, AreStrings(s), NEW o, Offsets(o, s), NEW n \in 1..Len(s),
         Len(s[n]) \in Nat \ {0},
         NEW b, NEW c, Filled(b, o, s, n - 1), NoJunk(b, o[n]), Copied(c, b, o, s, n)
  PROVE  Filled(c, o, s, n) /\ NoJunk(c, o[n + 1])
<1> DEFINE l == Len(s[n])
           d == o[n]
           end == d + l
           T == o[Len(s) + 1]
<1>1. /\ Len(s) \in Nat
      /\ \A m \in 1..Len(s) : Len(s[m]) \in Nat /\ o[m] \in Nat /\ o[m + 1] = o[m] + Len(s[m]) + 1
      /\ T \in Nat
      /\ \A x, y \in 1..(Len(s) + 1) : x <= y => o[x] <= o[y]
  BY OffsetsType
<1>2. d \in Nat /\ l \in Nat \ {0} /\ o[n + 1] = end + 1 /\ end < T /\ T \in Nat
  <2>1. n + 1 \in 1..(Len(s) + 1) /\ Len(s) + 1 \in 1..(Len(s) + 1) /\ n + 1 <= Len(s) + 1
    BY <1>1
  <2>2. o[n + 1] <= T
    BY <1>1, <2>1
  <2> QED
    BY <1>1, <2>2
<1>3. \A x \in 1..l : s[n][x] \in Byte
  <2>1. s[n] \in Seq(Byte)
    BY StringAmong
  <2> QED
    BY <2>1
<1>12. \A x \in 0..(d - 1) : b[x] # Junk
  BY Zenon DEF NoJunk
<1> HIDE DEF l, d, end, T
<1>5. end = d + l /\ l = Len(s[n]) /\ d = o[n]
  BY DEF end, l, d
<1>4. \A x \in 0..T : c[x] = IF x \in d..(end - 1) THEN s[n][x - d + 1]
                             ELSE IF x = end THEN NUL ELSE b[x]
  <2>1. T = o[Len(s) + 1]
    BY DEF T
  <2> QED
    BY <1>5, <2>1, Zenon DEF Copied
<1>15. end \in Nat
  BY <1>2, <1>5
<1>13. /\ d \in Nat /\ l \in Nat \ {0} /\ end \in Nat /\ end = d + l /\ end < T /\ T \in Nat
       /\ o[n + 1] = end + 1
  BY <1>2, <1>5, <1>15, Zenon
<1>6. \A x \in 1..l : c[d + x - 1] = s[n][x]
  <2> TAKE x \in 1..l
  <2>1. d + x - 1 \in d..(end - 1) /\ d + x - 1 \in 0..T /\ (d + x - 1) - d + 1 = x
    BY <1>13
  <2> QED
    BY <1>4, <2>1
<1>7. c[end] = NUL
  <2>1. end \in 0..T /\ end \notin d..(end - 1)
    BY <1>13
  <2> QED
    BY <1>4, <2>1
<1>8. \A x \in 0..(d - 1) : c[x] = b[x]
  <2> TAKE x \in 0..(d - 1)
  <2>1. x \in 0..T /\ x \notin d..(end - 1) /\ x # end
    BY <1>13
  <2> QED
    BY <1>4, <2>1
<1>9. ASSUME NEW m \in 1..(n - 1)
      PROVE  /\ Len(s[m]) \in Nat \ {0}
             /\ \A x \in 1..Len(s[m]) : c[o[m] + x - 1] = s[m][x]
             /\ c[o[m] + Len(s[m])] = NUL
  <2>1. /\ Len(s[m]) \in Nat \ {0}
        /\ \A x \in 1..Len(s[m]) : b[o[m] + x - 1] = s[m][x]
        /\ b[o[m] + Len(s[m])] = NUL
    BY DEF Filled
  <2>2. o[m] \in Nat /\ o[m] + Len(s[m]) + 1 <= d
    <3>1. m \in 1..Len(s) /\ m + 1 \in 1..(Len(s) + 1) /\ n \in 1..(Len(s) + 1) /\ m + 1 <= n
      BY <1>1
    <3>2. o[m + 1] <= o[n] /\ o[m + 1] = o[m] + Len(s[m]) + 1
      BY <1>1, <3>1
    <3> QED
      BY <1>1, <1>5, <3>1, <3>2
  <2> DEFINE e == o[m]
             z == Len(s[m])
  <2> HIDE DEF e, z
  <2>5. e \in Nat /\ z \in Nat \ {0} /\ e + z + 1 <= d /\ d \in Nat
    BY <1>13, <2>1, <2>2 DEF e, z
  <2>3. e + z \in 0..(d - 1) /\ \A x \in 1..z : e + x - 1 \in 0..(d - 1)
    BY <2>5
  <2>4. ASSUME NEW x \in 1..Len(s[m]) PROVE c[o[m] + x - 1] = s[m][x]
    <3>1. e + x - 1 \in 0..(d - 1)
      BY <2>3 DEF z
    <3> QED
      BY <1>8, <2>1, <3>1 DEF e
  <2> QED
    BY <1>8, <2>1, <2>3, <2>4 DEF e, z
<1>10. Filled(c, o, s, n)
  <2>1. \A m \in 1..n : m = n \/ m \in 1..(n - 1)
    BY <1>1
  <2> QED
    BY <1>13, <1>5, <1>6, <1>7, <1>9, <2>1 DEF Filled
<1>11. ASSUME NEW x \in 0..end PROVE c[x] # Junk
  <2>1. x \in 0..(d - 1) \/ x \in d..(end - 1) \/ x = end
    BY <1>13
  <2>2. CASE x \in d..(end - 1)
    <3>1. x - d + 1 \in 1..l /\ x \in 0..T
      BY <1>13, <2>2
    <3>2. c[x] \in Byte
      BY <1>3, <1>4, <2>2, <3>1
    <3> QED
      BY <3>2, BytesType
  <2>3. NUL # Junk
    BY BytesType
  <2> QED
    BY <1>7, <1>8, <1>12, <2>1, <2>2, <2>3
<1>14. NoJunk(c, o[n + 1])
  <2>1. o[n + 1] - 1 = end
    BY <1>13
  <2> QED
    BY <1>11, <2>1 DEF NoJunk
<1> QED
  BY <1>10, <1>14

\* strlen finds the first NUL from a place on.
IsEnd(at, e) == buf[e] = NUL /\ \A x \in at..(e - 1) : buf[x] # NUL

LEMMA EndUnique ==
  ASSUME total \in Nat, DOMAIN buf = 0..total, NEW at \in 0..total,
         NEW e \in at..total, IsEnd(at, e)
  PROVE  EndOf(at) = e
<1> DEFINE Is(y) == y \in DOMAIN buf /\ y >= at /\ IsEnd(at, y)
<1>1. Is(e)
  OBVIOUS
<1>2. ASSUME NEW y, Is(y) PROVE y = e
  <2>1. y \in Int /\ e \in Int /\ y >= at /\ e >= at /\ buf[y] = NUL /\ buf[e] = NUL
    BY <1>2 DEF IsEnd
  <2>2. \A x \in at..(e - 1) : x # y
    BY <2>1 DEF IsEnd
  <2>3. \A x \in at..(y - 1) : x # e
    BY <1>2, <2>1 DEF IsEnd
  <2> QED
    BY <2>1, <2>2, <2>3
<1>3. EndOf(at) = CHOOSE y \in DOMAIN buf : y >= at /\ IsEnd(at, y)
  BY Zenon DEF EndOf, IsEnd
<1>4. EndOf(at) \in DOMAIN buf /\ EndOf(at) >= at /\ IsEnd(at, EndOf(at))
  <2> HIDE DEF IsEnd
  <2>1. \E y \in DOMAIN buf : y >= at /\ IsEnd(at, y)
    BY <1>1
  <2> QED
    BY <1>3, <2>1, Zenon
<1> QED
  BY <1>2, <1>4

LEMMA EndExists ==
  ASSUME total \in Nat, DOMAIN buf = 0..total, buf[total] = NUL, NEW at \in 0..total
  PROVE  EndOf(at) \in at..total /\ IsEnd(at, EndOf(at))
<1> DEFINE T == {x \in at..total : buf[x] = NUL}
<1>1. T \subseteq Nat /\ total \in T
  OBVIOUS
<1>2. PICK e \in T : \A x \in T : e <= x
  <2> HIDE DEF T
  <2> QED
    BY <1>1, NatMin
<1>3. e \in at..total /\ buf[e] = NUL
  OBVIOUS
<1>4. \A x \in at..(e - 1) : buf[x] # NUL
  <2> TAKE x \in at..(e - 1)
  <2>1. x \in at..total /\ ~(e <= x)
    BY <1>3
  <2> QED
    BY <1>2, <2>1
<1>5. IsEnd(at, e)
  BY <1>3, <1>4 DEF IsEnd
<1> HIDE DEF T
<1>6. EndOf(at) = e
  BY <1>3, <1>5, EndUnique
<1> QED
  BY <1>3, <1>5, <1>6

----
\* None of the first n strings is an identity.
NoneOf(s, n) == \A m \in 1..n : s[m] \notin IdentityText

NulFreeStrings(s) == \A n \in DOMAIN s : NUL \notin Range(s[n])

InBuffer(o, s) ==
  /\ total = o[Len(s) + 1] /\ total > 0
  /\ buf \in [0..total -> Int]

Counting(P, o, s) ==
  /\ pass = "count" /\ buf = <<>> /\ off = 0 /\ p = 0 /\ tried = <<>> /\ outcome = "none"
  /\ \E n \in 1..(Len(s) + 1) : <<i, pos, n>> \in P /\ total = o[n]

Copying(P, o, s) ==
  /\ pass = "copy" /\ p = 0 /\ tried = <<>> /\ outcome = "none"
  /\ InBuffer(o, s)
  /\ \E n \in 1..(Len(s) + 1) :
       /\ <<i, pos, n>> \in P /\ off = o[n]
       /\ Filled(buf, o, s, n - 1) /\ NoJunk(buf, o[n])

Walking(o, s) ==
  /\ pass = "walk" /\ outcome = "none" /\ off = total /\ p \in 0..total
  /\ InBuffer(o, s) /\ Filled(buf, o, s, Len(s)) /\ NoJunk(buf, total + 1)
  /\ buf[total - 1] = NUL /\ buf[total] = NUL
  /\ NulFreeStrings(s) =>
       \E n \in 1..(Len(s) + 1) :
         p = o[n] /\ tried = SubSeq(s, 1, n - 1) /\ NoneOf(s, n - 1)

\* What the walk comes to.
Comes(s) ==
  \/ /\ outcome = "KIRIN_OK"
     /\ \E n \in 1..Len(s) :
          tried = SubSeq(s, 1, n) /\ s[n] \in IdentityText /\ NoneOf(s, n - 1)
  \/ outcome = "KIRIN_ERR_DNS" /\ tried = s /\ NoneOf(s, Len(s))

Through(s) ==
  /\ pass = "done" /\ total \in Nat
  /\ \/ off = 0 /\ outcome = "KIRIN_ERR_DNS" /\ buf = <<>>
     \/ /\ off = total /\ buf \in [0..total -> Int] /\ p \in 0..total
        /\ outcome \in {"KIRIN_OK", "KIRIN_ERR_DNS"}
        /\ NulFreeStrings(s) => Comes(s)

\* The strings s of the reply, the places P that both passes come to, and the
\* offsets o of the strings in the buffer, do not change; the passes count and
\* copy up to the same string at the same place.
Tracks(P, o, s) ==
  /\ response \in Seq(Answer) /\ s = StringsIn(response) /\ AreStrings(s)
  /\ Visits(P, s, response) /\ Offsets(o, s)

BufferInv(P, o, s) ==
  /\ Tracks(P, o, s)
  /\ Counting(P, o, s) \/ Copying(P, o, s) \/ Walking(o, s) \/ Through(s)

LEMMA BufferStarts == BufferInit => \E P, o, s : BufferInv(P, o, s)
<1> SUFFICES ASSUME BufferInit PROVE \E P, o, s : BufferInv(P, o, s)
  OBVIOUS
<1>1. response \in Seq(Answer)
  BY TxtAssumption DEF BufferInit
<1> DEFINE s == StringsIn(response)
<1>2. s \in Seq(Seq(Byte))
  BY <1>1, StringsInType
<1>3. PICK P : Visits(P, s, response)
  BY <1>1, Visiting
<1>4. PICK o : Offsets(o, s)
  <2> HIDE DEF s
  <2> QED
    BY <1>2, OffsetsExist
<1>5. AreStrings(s)
  BY <1>2 DEF AreStrings
<1>6. Tracks(P, o, s)
  BY <1>1, <1>3, <1>4, <1>5 DEF Tracks
<1>7. Counting(P, o, s)
  <2> HIDE DEF s
  <2>1. Len(s) \in Nat /\ <<1, 1, 1>> \in P /\ o[1] = 0
    BY <1>3, <1>4, <1>5, StringAmong DEF Visits, Offsets
  <2>2. 1 \in 1..(Len(s) + 1)
    BY <2>1
  <2> QED
    BY <2>1, <2>2 DEF Counting, BufferInit
<1>8. BufferInv(P, o, s)
  BY <1>6, <1>7 DEF BufferInv
<1> QED
  BY <1>8

LEMMA TracksOn ==
  ASSUME NEW P, NEW o, NEW s, Tracks(P, o, s), response' = response
  PROVE  Tracks(P, o, s)'
  BY DEF Tracks

\* What the passes have at a string, and elsewhere.
LEMMA TracksString ==
  ASSUME NEW P, NEW o, NEW s, Tracks(P, o, s), AtString, NEW n, <<i, pos, n>> \in P
  PROVE  /\ n \in 1..Len(s) /\ n + 1 \in 1..(Len(s) + 1)
         /\ <<i, pos + 1 + Here[pos], n + 1>> \in P
         /\ i \in Nat /\ pos \in Nat /\ Here[pos] \in Nat \ {0}
         /\ Len(s[n]) = Here[pos] /\ o[n + 1] = o[n] + Here[pos] + 1
         /\ \A x \in 1..Here[pos] : s[n][x] = Here[pos + x]
<1>1. /\ response \in Seq(Answer) /\ AreStrings(s) /\ Visits(P, s, response) /\ Offsets(o, s)
      /\ i <= Len(response) /\ response[i].txt /\ StringAt(Here, pos)
      /\ Len(response) \in Nat
  BY DEF Tracks, AtString, Here
<1>2. /\ i \in Nat \ {0} /\ pos \in Nat \ {0} /\ n \in Nat \ {0}
      /\ IF i > Len(response) THEN n = Len(s) + 1
         ELSE IF response[i].txt /\ StringAt(Here, pos)
         THEN /\ n <= Len(s) /\ s[n] = String(Here, pos)
              /\ <<i, pos + 1 + Here[pos], n + 1>> \in P
         ELSE <<i + 1, 1, n>> \in P
  BY <1>1 DEF Visits, Here
<1>3. i \in 1..Len(response) /\ ~(i > Len(response)) /\ Len(s) \in Nat
  BY <1>1, <1>2, StringAmong
<1>4. n <= Len(s) /\ s[n] = String(Here, pos) /\ <<i, pos + 1 + Here[pos], n + 1>> \in P
  BY <1>1, <1>2, <1>3, Zenon
<1>5. n \in 1..Len(s) /\ n + 1 \in 1..(Len(s) + 1)
  BY <1>2, <1>3, <1>4
<1>6. Here \in Seq(Byte)
  <2>1. response[i] \in Answer
    BY <1>1, <1>3, ElementOfSeq
  <2> QED
    BY <2>1 DEF Answer, Here
<1>7. /\ Here[pos] \in Nat \ {0} /\ Len(String(Here, pos)) = Here[pos]
      /\ \A x \in 1..Here[pos] : String(Here, pos)[x] = Here[pos + x]
  BY <1>1, <1>2, <1>6, StringType, Zenon
<1>8. o[n + 1] = o[n] + Len(s[n]) + 1
  BY <1>1, <1>5 DEF Offsets
<1> QED
  BY <1>2, <1>4, <1>5, <1>7, <1>8, Zenon

LEMMA TracksOther ==
  ASSUME NEW P, NEW o, NEW s, Tracks(P, o, s), NEW n, <<i, pos, n>> \in P
  PROVE  /\ i > Len(response) => n = Len(s) + 1
         /\ i <= Len(response) /\ ~AtString => <<i + 1, 1, n>> \in P
<1>1. /\ Visits(P, s, response) /\ Len(response) \in Nat
      /\ i <= Len(response) /\ ~AtString =>
           ~(response[i].txt /\ StringAt(response[i].rdata, pos))
  BY DEF Tracks, AtString, Here
<1> QED
  BY <1>1, VisitOther

LEMMA TracksOffsets ==
  ASSUME NEW P, NEW o, NEW s, Tracks(P, o, s)
  PROVE  /\ Len(s) \in Nat /\ \A n \in 1..Len(s) : s[n] \in Seq(Byte) /\ Len(s[n]) \in Nat
         /\ \A n \in 1..(Len(s) + 1) : o[n] \in Nat
         /\ o[1] = 0 /\ <<1, 1, 1>> \in P
         /\ \A n \in 1..Len(s) : o[n + 1] = o[n] + Len(s[n]) + 1
         /\ \A x, y \in 1..(Len(s) + 1) : x <= y => o[x] <= o[y]
<1>1. AreStrings(s) /\ Offsets(o, s) /\ Visits(P, s, response)
  BY DEF Tracks
<1>2. o[1] = 0 /\ <<1, 1, 1>> \in P
  BY <1>1 DEF Offsets, Visits
<1> QED
  BY <1>1, <1>2, OffsetsType, StringAmong

LEMMA CountStep ==
  ASSUME NEW P, NEW o, NEW s, BufferInv(P, o, s), Count
  PROVE  BufferInv(P, o, s)'
<1>1. Tracks(P, o, s) /\ Counting(P, o, s)
  BY DEF BufferInv, Count, Counting, Copying, Walking, Through
<1>2. PICK n \in 1..(Len(s) + 1) : <<i, pos, n>> \in P /\ total = o[n]
  BY <1>1 DEF Counting
<1>3. /\ n + 1 \in 1..(Len(s) + 1) /\ <<i, pos + 1 + Here[pos], n + 1>> \in P
      /\ o[n + 1] = o[n] + Here[pos] + 1
  BY <1>1, <1>2, TracksString DEF Count
<1>4. i' = i /\ pos' = pos + 1 + Here[pos] /\ total' = o[n + 1]
  BY <1>2, <1>3 DEF Count, Step
<1>5. Counting(P, o, s)'
  BY <1>1, <1>3, <1>4 DEF Counting, Count
<1>6. Tracks(P, o, s)'
  BY <1>1, TracksOn DEF Count
<1> QED
  BY <1>5, <1>6 DEF BufferInv

LEMMA NextAnswerStep ==
  ASSUME NEW P, NEW o, NEW s, BufferInv(P, o, s), NextAnswer
  PROVE  BufferInv(P, o, s)'
<1>1. Tracks(P, o, s)
  BY DEF BufferInv
<1>2. Tracks(P, o, s)'
  BY <1>1, TracksOn DEF NextAnswer
<1>3. ASSUME NEW n, <<i, pos, n>> \in P PROVE <<i', pos', n>> \in P
  BY <1>1, <1>3, TracksOther DEF NextAnswer
<1>4. CASE Counting(P, o, s)
  <2>1. Counting(P, o, s)'
    BY <1>3, <1>4 DEF Counting, NextAnswer
  <2> QED
    BY <1>2, <2>1 DEF BufferInv
<1>5. CASE Copying(P, o, s)
  <2>1. Copying(P, o, s)'
    BY <1>3, <1>5 DEF Copying, InBuffer, NextAnswer
  <2> QED
    BY <1>2, <2>1 DEF BufferInv
<1> QED
  BY <1>4, <1>5 DEF BufferInv, NextAnswer, Walking, Through

LEMMA ExtractFailsStep ==
  ASSUME NEW P, NEW o, NEW s, BufferInv(P, o, s), ExtractFails
  PROVE  BufferInv(P, o, s)'
<1>1. Tracks(P, o, s) /\ Counting(P, o, s)
  BY DEF BufferInv, ExtractFails, Counting, Copying, Walking, Through
<1>2. Tracks(P, o, s)'
  BY <1>1, TracksOn DEF ExtractFails
<1>3. total \in Nat
  BY <1>1, TracksOffsets DEF Counting
<1>4. Through(s)'
  BY <1>1, <1>3 DEF Through, Counting, ExtractFails, Fail
<1> QED
  BY <1>2, <1>4 DEF BufferInv

LEMMA AllocateStep ==
  ASSUME NEW P, NEW o, NEW s, BufferInv(P, o, s), Allocate
  PROVE  BufferInv(P, o, s)'
<1>1. Tracks(P, o, s) /\ Counting(P, o, s)
  BY DEF BufferInv, Allocate, Counting, Copying, Walking, Through
<1>2. Tracks(P, o, s)'
  BY <1>1, TracksOn DEF Allocate
<1>3. PICK n \in 1..(Len(s) + 1) : <<i, pos, n>> \in P /\ total = o[n]
  BY <1>1 DEF Counting
<1>4. /\ n = Len(s) + 1 /\ total \in Nat /\ o[1] = 0 /\ <<1, 1, 1>> \in P
      /\ 1 \in 1..(Len(s) + 1)
  <2>1. i > Len(response)
    BY DEF Allocate
  <2>2. n = Len(s) + 1
    BY <1>1, <1>3, <2>1, TracksOther, Zenon
  <2>3. /\ Len(s) \in Nat /\ \A x \in 1..(Len(s) + 1) : o[x] \in Nat
        /\ o[1] = 0 /\ <<1, 1, 1>> \in P
    BY <1>1, TracksOffsets, Zenon
  <2> QED
    BY <1>3, <2>2, <2>3
<1>5. CASE total = 0
  <2>1. Through(s)'
    BY <1>1, <1>4, <1>5 DEF Through, Counting, Allocate, Fail
  <2> QED
    BY <1>2, <2>1 DEF BufferInv
<1>6. CASE total # 0
  <2>1. /\ buf' = [x \in 0..total |-> Junk] /\ pass' = "copy" /\ i' = 1 /\ pos' = 1
        /\ outcome' = outcome /\ total' = total /\ off' = off /\ p' = p /\ tried' = tried
    BY <1>6 DEF Allocate
  <2>2. Junk \in Int
    BY BytesType
  <2>3. InBuffer(o, s)'
    BY <1>3, <1>4, <1>6, <2>1, <2>2 DEF InBuffer
  <2>4. Filled(buf, o, s, 1 - 1)' /\ NoJunk(buf, o[1])'
    BY <1>4 DEF Filled, NoJunk
  <2>5. Copying(P, o, s)'
    BY <1>1, <1>4, <2>1, <2>3, <2>4 DEF Copying, Counting
  <2> QED
    BY <1>2, <2>5 DEF BufferInv
<1> QED
  BY <1>5, <1>6

LEMMA CopyStep ==
  ASSUME NEW P, NEW o, NEW s, BufferInv(P, o, s), Copy
  PROVE  BufferInv(P, o, s)'
<1>1. Tracks(P, o, s) /\ Copying(P, o, s) /\ AtString
  BY DEF BufferInv, Copy, Counting, Copying, Walking, Through
<1>2. Tracks(P, o, s)'
  BY <1>1, TracksOn DEF Copy
<1>3. PICK n \in 1..(Len(s) + 1) :
        /\ <<i, pos, n>> \in P /\ off = o[n]
        /\ Filled(buf, o, s, n - 1) /\ NoJunk(buf, o[n])
  BY <1>1 DEF Copying
<1> DEFINE l == Here[pos]
           end == off + l
           T == o[Len(s) + 1]
<1>4. /\ n \in 1..Len(s) /\ n + 1 \in 1..(Len(s) + 1) /\ <<i, pos + 1 + l, n + 1>> \in P
      /\ l \in Nat \ {0} /\ Len(s[n]) = l /\ o[n + 1] = o[n] + l + 1 /\ pos \in Nat
      /\ \A x \in 1..l : s[n][x] = Here[pos + x]
  <2>1. <<i, pos, n>> \in P
    BY <1>3
  <2>2. /\ n \in 1..Len(s) /\ n + 1 \in 1..(Len(s) + 1)
        /\ <<i, pos + 1 + Here[pos], n + 1>> \in P
        /\ i \in Nat /\ pos \in Nat /\ Here[pos] \in Nat \ {0}
        /\ Len(s[n]) = Here[pos] /\ o[n + 1] = o[n] + Here[pos] + 1
        /\ \A x \in 1..Here[pos] : s[n][x] = Here[pos + x]
    BY <1>1, <2>1, TracksString
  <2> QED
    BY <2>2, Zenon
<1>5. /\ total = T /\ buf \in [0..total -> Int] /\ DOMAIN buf = 0..T
  BY <1>1 DEF Copying, InBuffer
<1>6. s[n] \in Seq(Byte) /\ off \in Nat /\ T \in Nat /\ Len(s) \in Nat
  BY <1>1, <1>3, <1>4, TracksOffsets
<1>7. /\ i' = i /\ pos' = pos + 1 + l /\ off' = end + 1 /\ total' = total /\ pass' = pass
      /\ p' = p /\ tried' = tried /\ outcome' = outcome
      /\ buf' = [x \in DOMAIN buf |-> IF x \in off..(end - 1) THEN Here[pos + 1 + x - off]
                                      ELSE IF x = end THEN NUL ELSE buf[x]]
  BY DEF Copy, Step
<1> HIDE DEF l, T
<1>8. ASSUME NEW x \in off..(end - 1)
      PROVE  Here[pos + 1 + x - off] = s[n][x - off + 1] /\ s[n][x - off + 1] \in Int
  <2>1. x - off + 1 \in 1..l /\ pos + (x - off + 1) = pos + 1 + x - off
    <3>1. l \in Nat /\ pos \in Nat /\ off \in Nat /\ x \in off..((off + l) - 1)
      BY <1>4, <1>6
    <3> QED
      BY <3>1
  <2>2. s[n][x - off + 1] \in Byte
    BY <1>4, <1>6, <2>1
  <2>3. s[n][x - off + 1] = Here[pos + (x - off + 1)]
    BY <1>4, <2>1, Zenon
  <2>4. s[n][x - off + 1] \in Int
    <3>1. s[n][x - off + 1] \in Nat
      BY <2>2, BytesType, Zenon
    <3> QED
      BY <3>1
  <2>5. Here[pos + 1 + x - off] = Here[pos + (x - off + 1)]
    BY <2>1, Zenon
  <2> QED
    BY <2>3, <2>4, <2>5, Zenon
<1> HIDE DEF end
<1>9. \A x \in 0..T : buf'[x] = IF x \in off..(end - 1) THEN s[n][x - off + 1]
                               ELSE IF x = end THEN NUL ELSE buf[x]
  BY <1>5, <1>7, <1>8
<1>10. buf' \in [0..total -> Int]
  <2>1. \A x \in 0..T : buf'[x] \in Int
    BY <1>5, <1>8, <1>9, BytesType
  <2>2. buf' = [x \in 0..T |-> buf'[x]]
    BY <1>5, <1>7
  <2> QED
    BY <1>5, <2>1, <2>2
<1>11. Copied(buf', buf, o, s, n)
  <2>1. T = o[Len(s) + 1] /\ end = o[n] + Len(s[n]) /\ off = o[n]
    BY <1>3, <1>4 DEF T, end
  <2> QED
    BY <1>9, <2>1 DEF Copied
<1>12. Filled(buf', o, s, n) /\ NoJunk(buf', o[n + 1])
  <2>1. AreStrings(s) /\ Offsets(o, s) /\ Len(s[n]) \in Nat \ {0}
    BY <1>1, <1>4 DEF Tracks
  <2> QED
    BY <1>3, <1>4, <1>11, <2>1, CopiedFills
<1>13. off' = o[n + 1] /\ (n + 1) - 1 = n
  BY <1>3, <1>4, <1>6, <1>7 DEF end
<1>14. InBuffer(o, s)'
  BY <1>1, <1>7, <1>10 DEF Copying, InBuffer
<1>15. Copying(P, o, s)'
  <2>1. <<i, pos, n + 1>>' \in P /\ n + 1 \in 1..(Len(s) + 1)
    BY <1>4, <1>7
  <2>2. Filled(buf', o, s, (n + 1) - 1) /\ NoJunk(buf', o[n + 1])
    BY <1>12, <1>13
  <2>3. \E m \in 1..(Len(s) + 1) :
          /\ <<i', pos', m>> \in P /\ off' = o[m]
          /\ Filled(buf', o, s, m - 1) /\ NoJunk(buf', o[m])
    BY <1>13, <2>1, <2>2
  <2>4. pass' = "copy" /\ p' = 0 /\ tried' = <<>> /\ outcome' = "none"
    BY <1>1, <1>7 DEF Copying
  <2> QED
    BY <1>14, <2>3, <2>4 DEF Copying, Filled, NoJunk
<1> QED
  BY <1>2, <1>15 DEF BufferInv

LEMMA TerminateStep ==
  ASSUME NEW P, NEW o, NEW s, BufferInv(P, o, s), Terminate
  PROVE  BufferInv(P, o, s)'
<1>1. Tracks(P, o, s) /\ Copying(P, o, s)
  BY DEF BufferInv, Terminate, Counting, Copying, Walking, Through
<1>2. Tracks(P, o, s)'
  BY <1>1, TracksOn DEF Terminate
<1>3. PICK n \in 1..(Len(s) + 1) :
        /\ <<i, pos, n>> \in P /\ off = o[n]
        /\ Filled(buf, o, s, n - 1) /\ NoJunk(buf, o[n])
  BY <1>1 DEF Copying
<1>4. n = Len(s) + 1
  BY <1>1, <1>3, TracksOther DEF Terminate
<1>5. /\ Len(s) \in Nat /\ \A m \in 1..Len(s) : Len(s[m]) \in Nat
      /\ \A m \in 1..(Len(s) + 1) : o[m] \in Nat
      /\ o[1] = 0
      /\ \A m \in 1..Len(s) : o[m + 1] = o[m] + Len(s[m]) + 1
      /\ \A x, y \in 1..(Len(s) + 1) : x <= y => o[x] <= o[y]
  BY <1>1, TracksOffsets
<1>6. /\ total = o[Len(s) + 1] /\ total > 0 /\ off = total /\ total \in Nat
      /\ buf \in [0..total -> Int]
      /\ Filled(buf, o, s, Len(s)) /\ NoJunk(buf, total)
  <2>1. total = o[Len(s) + 1] /\ total > 0 /\ buf \in [0..total -> Int]
    BY <1>1 DEF Copying, InBuffer
  <2>2. n - 1 = Len(s)
    BY <1>4, <1>5
  <2> QED
    BY <1>3, <1>4, <1>5, <2>1, <2>2
<1>7. /\ buf' \in [0..total -> Int] /\ buf'[total] = NUL
      /\ \A x \in 0..(total - 1) : buf'[x] = buf[x]
      /\ pass' = "walk" /\ total' = total /\ off' = off /\ p' = p
      /\ tried' = tried /\ outcome' = outcome
  BY <1>6, BytesType DEF Terminate
<1>8. ASSUME NEW m \in 1..Len(s)
      PROVE  /\ Len(s[m]) \in Nat \ {0}
             /\ \A x \in 1..Len(s[m]) : buf'[o[m] + x - 1] = s[m][x]
             /\ buf'[o[m] + Len(s[m])] = NUL
             /\ o[m] + Len(s[m]) \in 0..(total - 1)
  <2> DEFINE e == o[m]
             z == Len(s[m])
  <2>1. /\ z \in Nat \ {0}
        /\ \A x \in 1..z : buf[e + x - 1] = s[m][x]
        /\ buf[e + z] = NUL
    BY <1>6 DEF Filled
  <2>2. m + 1 \in 1..(Len(s) + 1) /\ Len(s) + 1 \in 1..(Len(s) + 1) /\ m + 1 <= Len(s) + 1
        /\ m \in 1..(Len(s) + 1)
    BY <1>5
  <2>3. e \in Nat /\ o[m + 1] <= total /\ o[m + 1] = e + z + 1
    <3>1. o[m + 1] <= o[Len(s) + 1]
      BY <1>5, <2>2
    <3> QED
      BY <1>5, <1>6, <2>2, <3>1
  <2> HIDE DEF e, z
  <2>6. e \in Nat /\ z \in Nat \ {0} /\ total \in Nat /\ e + z + 1 <= total
    BY <1>6, <2>1, <2>3
  <2>4. e + z \in 0..(total - 1) /\ \A x \in 1..z : e + x - 1 \in 0..(total - 1)
    BY <2>6
  <2>5. buf'[e + z] = NUL /\ \A x \in 1..z : buf'[e + x - 1] = s[m][x]
    BY <1>7, <2>1, <2>4
  <2> QED
    BY <2>1, <2>4, <2>5 DEF e, z
<1>9. Filled(buf', o, s, Len(s))
  BY <1>8 DEF Filled
<1>10. NoJunk(buf', total + 1)
  <2> SUFFICES ASSUME NEW x \in 0..((total + 1) - 1) PROVE buf'[x] # Junk
    BY DEF NoJunk
  <2>1. x \in 0..(total - 1) \/ x = total
    BY <1>6
  <2> QED
    BY <1>6, <1>7, <2>1, BytesType DEF NoJunk
<1>11. buf'[total - 1] = NUL
  <2>1. Len(s) # 0
    BY <1>5, <1>6
  <2>2. Len(s) \in 1..Len(s)
    BY <1>5, <2>1
  <2>3. total = o[Len(s)] + Len(s[Len(s)]) + 1 /\ o[Len(s)] \in Nat /\ Len(s[Len(s)]) \in Nat
    BY <1>5, <1>6, <2>2
  <2>4. total - 1 = o[Len(s)] + Len(s[Len(s)])
    BY <2>3
  <2> QED
    BY <1>8, <2>2, <2>4
<1>12. p = 0 /\ tried = <<>> /\ outcome = "none"
  BY <1>1 DEF Copying
<1>13. 1 \in 1..(Len(s) + 1) /\ p = o[1] /\ tried = SubSeq(s, 1, 1 - 1) /\ NoneOf(s, 1 - 1)
  <2>1. SubSeq(s, 1, 0) = <<>>
    BY SubSeqEmpty
  <2> QED
    BY <1>5, <1>12, <2>1 DEF NoneOf
<1>14. InBuffer(o, s)'
  BY <1>6, <1>7 DEF InBuffer
<1>15. Walking(o, s)'
  <2>1. p \in 0..total
    BY <1>6, <1>12
  <2>2. (\E m \in 1..(Len(s) + 1) : p = o[m] /\ tried = SubSeq(s, 1, m - 1) /\ NoneOf(s, m - 1))'
    BY <1>7, <1>13
  <2> QED
    BY <1>6, <1>7, <1>9, <1>10, <1>11, <1>12, <1>14, <2>1, <2>2 DEF Walking
<1> QED
  BY <1>2, <1>15 DEF BufferInv

LEMMA SubSeqOne ==
  ASSUME NEW S, NEW s \in Seq(S), NEW n \in 1..Len(s)
  PROVE  Append(SubSeq(s, 1, n - 1), s[n]) = SubSeq(s, 1, n)
<1>1. \A x \in 1..n : s[x] \in S
  OBVIOUS
<1> QED
  BY <1>1

LEMMA WholeSubSeq ==
  ASSUME NEW S, NEW s \in Seq(S)
  PROVE  SubSeq(s, 1, Len(s)) = s
  OBVIOUS

\* What the walk has at a text, and at the end of them.
LEMMA WalkAt ==
  ASSUME NEW P, NEW o, NEW s, Tracks(P, o, s), Walking(o, s), NulFreeStrings(s),
         NEW n \in 1..(Len(s) + 1), p = o[n]
  PROVE  /\ n \in 1..Len(s) => /\ buf[p] # NUL /\ EndOf(p) = p + Len(s[n])
                               /\ Text(p) = s[n] /\ o[n + 1] = EndOf(p) + 1
         /\ n = Len(s) + 1 => buf[p] = NUL
<1>1. /\ Len(s) \in Nat
      /\ \A m \in 1..Len(s) : s[m] \in Seq(Byte) /\ Len(s[m]) \in Nat
      /\ \A m \in 1..(Len(s) + 1) : o[m] \in Nat
      /\ \A m \in 1..Len(s) : o[m + 1] = o[m] + Len(s[m]) + 1
      /\ \A x, y \in 1..(Len(s) + 1) : x <= y => o[x] <= o[y]
  <2>1. /\ Len(s) \in Nat /\ \A m \in 1..Len(s) : s[m] \in Seq(Byte) /\ Len(s[m]) \in Nat
        /\ \A m \in 1..(Len(s) + 1) : o[m] \in Nat
        /\ o[1] = 0 /\ <<1, 1, 1>> \in P
        /\ \A m \in 1..Len(s) : o[m + 1] = o[m] + Len(s[m]) + 1
        /\ \A x, y \in 1..(Len(s) + 1) : x <= y => o[x] <= o[y]
    BY TracksOffsets, Zenon
  <2> QED
    BY <2>1, Zenon
<1>2. total = o[Len(s) + 1] /\ buf \in [0..total -> Int] /\ Filled(buf, o, s, Len(s)) /\ buf[total] = NUL
  BY DEF Walking, InBuffer
<1>3. CASE n = Len(s) + 1
  <2>1. n \notin 1..Len(s)
    <3>1. Len(s) \in Nat
      BY <1>1
    <3> QED
      BY <1>3, <3>1
  <2>2. p = total
    BY <1>2, <1>3, Zenon
  <2> QED
    BY <1>2, <2>1, <2>2, Zenon
<1>4. CASE n \in 1..Len(s)
  <2> DEFINE z == Len(s[n])
             t == s[n]
             e == p + z
  <2>1. /\ z \in Nat \ {0} /\ t \in Seq(Byte) /\ z = Len(t)
        /\ \A x \in 1..z : buf[p + x - 1] = t[x]
        /\ buf[e] = NUL
    BY <1>1, <1>2, <1>4 DEF Filled
  <2>2. p \in Nat /\ o[n + 1] = e + 1 /\ total \in Nat /\ e + 1 <= total
    <3>1. n + 1 \in 1..(Len(s) + 1) /\ Len(s) + 1 \in 1..(Len(s) + 1) /\ n + 1 <= Len(s) + 1
      BY <1>1, <1>4
    <3>2. o[n + 1] <= o[Len(s) + 1] /\ o[Len(s) + 1] \in Nat
      BY <1>1, <3>1
    <3>3. o[n] \in Nat /\ o[n + 1] = o[n] + Len(s[n]) + 1
      BY <1>1, <1>4
    <3> QED
      BY <1>2, <3>2, <3>3
  <2>3. \A x \in 1..z : t[x] # NUL
    <3>1. n \in DOMAIN s
      <4>1. s \in Seq(Seq(Byte))
        BY DEF Tracks, AreStrings
      <4> QED
        BY <1>4, <4>1
    <3>2. NUL \notin Range(t)
      BY <3>1 DEF NulFreeStrings
    <3>3. DOMAIN t = 1..z
      BY <2>1
    <3> QED
      BY <3>2, <3>3 DEF Range
  <2> HIDE DEF z, t
  <2>4. IsEnd(p, e)
    <3>1. ASSUME NEW x \in p..(e - 1) PROVE buf[x] # NUL
      <4>3. z \in Nat /\ p \in Nat /\ x \in p..((p + z) - 1)
        BY <2>1, <2>2
      <4>1. x - p + 1 \in 1..z /\ p + (x - p + 1) - 1 = x
        BY <4>3
      <4>2. buf[x] = t[x - p + 1]
        BY <2>1, <4>1
      <4> QED
        BY <2>3, <4>1, <4>2
    <3> QED
      BY <2>1, <3>1 DEF IsEnd
  <2>5. EndOf(p) = e
    <3>1. DOMAIN buf = 0..total /\ p \in 0..total /\ e \in p..total
      BY <1>2, <2>1, <2>2
    <3> QED
      BY <2>2, <2>4, <3>1, EndUnique
  <2>6. buf[p] # NUL
    <3>1. p \in p..(e - 1)
      BY <2>1, <2>2
    <3> QED
      BY <2>4, <3>1 DEF IsEnd
  <2>7. Text(p) = t
    <3>1. Text(p) = [x \in 1..z |-> buf[p + x - 1]]
      <4>1. EndOf(p) - p = z
        BY <2>1, <2>2, <2>5
      <4> QED
        BY <4>1 DEF Text
    <3>2. t = [x \in 1..z |-> t[x]]
      BY <2>1
    <3> QED
      BY <2>1, <3>1, <3>2
  <2> QED
    BY <1>1, <1>4, <2>2, <2>5, <2>6, <2>7 DEF z, t
<1> QED
  BY <1>1, <1>3, <1>4

LEMMA TryTextStep ==
  ASSUME NEW P, NEW o, NEW s, BufferInv(P, o, s), TryText
  PROVE  BufferInv(P, o, s)'
<1>1. Tracks(P, o, s) /\ Walking(o, s)
  BY DEF BufferInv, TryText, Counting, Copying, Walking, Through
<1>2. Tracks(P, o, s)'
  BY <1>1, TracksOn DEF TryText
<1>3. /\ Len(s) \in Nat /\ total \in Nat /\ total > 0 /\ off = total
      /\ buf \in [0..total -> Int] /\ DOMAIN buf = 0..total /\ p \in 0..total
      /\ buf[total - 1] = NUL /\ buf[total] = NUL /\ buf[p] # NUL
  <2>1. Len(s) \in Nat /\ o[Len(s) + 1] \in Nat
    BY <1>1, TracksOffsets
  <2> QED
    BY <1>1, <2>1 DEF Walking, InBuffer, TryText
<1>4. EndOf(p) \in 0..(total - 1)
  <2>1. EndOf(p) \in p..total /\ IsEnd(p, EndOf(p))
    BY <1>3, EndExists
  <2> DEFINE e == EndOf(p)
  <2> HIDE DEF e
  <2>2. e \in p..total /\ IsEnd(p, e)
    BY <2>1 DEF e
  <2>3. p # total
    BY <1>3
  <2>4. e # total
    <3> SUFFICES ASSUME e = total PROVE FALSE
      OBVIOUS
    <3>1. total - 1 \in p..(e - 1)
      BY <1>3, <2>3
    <3> QED
      BY <1>3, <2>2, <3>1 DEF IsEnd
  <2>5. e \in 0..(total - 1)
    BY <1>3, <2>2, <2>4
  <2> QED
    BY <2>5 DEF e
<1>5. tried' = Append(tried, Text(p)) /\ UNCHANGED <<response, place, total, buf, off>>
  BY DEF TryText
<1>6. ASSUME NulFreeStrings(s)
      PROVE  \E n \in 1..Len(s) :
               /\ Text(p) = s[n] /\ o[n + 1] = EndOf(p) + 1
               /\ tried' = SubSeq(s, 1, n) /\ NoneOf(s, n - 1)
  <2>1. PICK n \in 1..(Len(s) + 1) :
          p = o[n] /\ tried = SubSeq(s, 1, n - 1) /\ NoneOf(s, n - 1)
    BY <1>1, <1>6 DEF Walking
  <2>2. /\ n \in 1..Len(s) => Text(p) = s[n] /\ o[n + 1] = EndOf(p) + 1
        /\ n = Len(s) + 1 => buf[p] = NUL
    BY <1>1, <1>6, <2>1, WalkAt
  <2>3. n \in 1..Len(s)
    BY <1>3, <2>1, <2>2
  <2>4. Append(SubSeq(s, 1, n - 1), s[n]) = SubSeq(s, 1, n)
    <3>1. s \in Seq(Seq(Byte))
      BY <1>1 DEF Tracks, AreStrings
    <3> QED
      BY <2>3, <3>1, SubSeqOne, Zenon
  <2> QED
    BY <1>5, <2>1, <2>2, <2>3, <2>4
<1>7. CASE Text(p) \in IdentityText
  <2>1. outcome' = "KIRIN_OK" /\ pass' = "done" /\ p' = p
    BY <1>7 DEF TryText
  <2>2. ASSUME NulFreeStrings(s) PROVE Comes(s)'
    <3>1. \E n \in 1..Len(s) :
            tried' = SubSeq(s, 1, n) /\ s[n] \in IdentityText /\ NoneOf(s, n - 1)
      BY <1>6, <1>7, <2>2
    <3> QED
      BY <2>1, <3>1 DEF Comes, NoneOf
  <2>3. Through(s)'
    BY <1>3, <1>5, <2>1, <2>2 DEF Through, NulFreeStrings
  <2> QED
    BY <1>2, <2>3 DEF BufferInv
<1>8. CASE Text(p) \notin IdentityText
  <2>1. p' = EndOf(p) + 1 /\ pass' = pass /\ outcome' = outcome
    BY <1>8 DEF TryText
  <2>2. p' \in 0..total
    BY <1>3, <1>4, <2>1
  <2>3. ASSUME NulFreeStrings(s)
        PROVE  \E n \in 1..(Len(s) + 1) :
                 p' = o[n] /\ tried' = SubSeq(s, 1, n - 1) /\ NoneOf(s, n - 1)
    <3>1. PICK n \in 1..Len(s) :
            /\ Text(p) = s[n] /\ o[n + 1] = EndOf(p) + 1
            /\ tried' = SubSeq(s, 1, n) /\ NoneOf(s, n - 1)
      BY <1>6, <2>3
    <3>2. n + 1 \in 1..(Len(s) + 1) /\ (n + 1) - 1 = n
      BY <1>3
    <3>3. NoneOf(s, n)
      <4>1. \A m \in 1..n : m = n \/ m \in 1..(n - 1)
        BY <1>3
      <4> QED
        BY <1>8, <3>1, <4>1 DEF NoneOf
    <3> QED
      BY <2>1, <3>1, <3>2, <3>3
  <2>4. Walking(o, s)'
    <3>1. InBuffer(o, s)'
      BY <1>1, <1>5 DEF Walking, InBuffer
    <3>2. Filled(buf', o, s, Len(s)) /\ NoJunk(buf', total' + 1)
      BY <1>1, <1>5 DEF Walking
    <3>3. pass' = "walk" /\ outcome' = "none" /\ off' = total' /\ p' \in 0..total'
          /\ buf'[total' - 1] = NUL /\ buf'[total'] = NUL
      BY <1>1, <1>3, <1>5, <2>1, <2>2 DEF Walking
    <3> QED
      BY <2>3, <3>1, <3>2, <3>3 DEF Walking, Filled, NoJunk, NulFreeStrings, NoneOf
  <2> QED
    BY <1>2, <2>4 DEF BufferInv
<1> QED
  BY <1>7, <1>8

LEMMA EndOfTextsStep ==
  ASSUME NEW P, NEW o, NEW s, BufferInv(P, o, s), EndOfTexts
  PROVE  BufferInv(P, o, s)'
<1>1. Tracks(P, o, s) /\ Walking(o, s)
  BY DEF BufferInv, EndOfTexts, Counting, Copying, Walking, Through
<1>2. Tracks(P, o, s)'
  BY <1>1, TracksOn DEF EndOfTexts
<1>3. /\ Len(s) \in Nat /\ total \in Nat /\ off = total
      /\ buf \in [0..total -> Int] /\ p \in 0..total /\ buf[p] = NUL
  <2>1. Len(s) \in Nat /\ o[Len(s) + 1] \in Nat
    BY <1>1, TracksOffsets
  <2> QED
    BY <1>1, <2>1 DEF Walking, InBuffer, EndOfTexts
<1>4. ASSUME NulFreeStrings(s) PROVE tried = s /\ NoneOf(s, Len(s))
  <2>1. PICK n \in 1..(Len(s) + 1) :
          p = o[n] /\ tried = SubSeq(s, 1, n - 1) /\ NoneOf(s, n - 1)
    BY <1>1, <1>4 DEF Walking
  <2>2. n \in 1..Len(s) => buf[p] # NUL
    BY <1>1, <1>4, <2>1, WalkAt
  <2>3. n = Len(s) + 1 /\ n - 1 = Len(s)
    BY <1>3, <2>1, <2>2
  <2>4. SubSeq(s, 1, Len(s)) = s
    <3>1. s \in Seq(Seq(Byte))
      BY <1>1 DEF Tracks, AreStrings
    <3> QED
      BY <3>1, WholeSubSeq, Zenon
  <2> QED
    BY <2>1, <2>3, <2>4
<1>5. /\ outcome' = "KIRIN_ERR_DNS" /\ pass' = "done"
      /\ UNCHANGED <<response, place, total, buf, off, p, tried>>
  BY DEF EndOfTexts, Fail
<1>6. Through(s)'
  BY <1>3, <1>4, <1>5 DEF Through, Comes, NulFreeStrings, NoneOf
<1> QED
  BY <1>2, <1>6 DEF BufferInv

LEMMA StutterStep ==
  ASSUME NEW P, NEW o, NEW s, BufferInv(P, o, s), UNCHANGED bufferVars
  PROVE  BufferInv(P, o, s)'
<1>1. /\ response' = response /\ pass' = pass /\ i' = i /\ pos' = pos /\ total' = total
      /\ buf' = buf /\ off' = off /\ p' = p /\ tried' = tried /\ outcome' = outcome
  BY DEF bufferVars, place
<1>2. Tracks(P, o, s)'
  BY <1>1, TracksOn DEF BufferInv
<1>3. CASE Counting(P, o, s)
  <2>1. Counting(P, o, s)'
    BY <1>1, <1>3 DEF Counting
  <2> QED
    BY <1>2, <2>1 DEF BufferInv
<1>4. CASE Copying(P, o, s)
  <2>1. Copying(P, o, s)'
    BY <1>1, <1>4 DEF Copying, InBuffer, Filled, NoJunk
  <2> QED
    BY <1>2, <2>1 DEF BufferInv
<1>5. CASE Walking(o, s)
  <2>1. Walking(o, s)'
    BY <1>1, <1>5 DEF Walking, InBuffer, Filled, NoJunk
  <2> QED
    BY <1>2, <2>1 DEF BufferInv
<1>6. CASE Through(s)
  <2>1. Through(s)'
    BY <1>1, <1>6 DEF Through, Comes
  <2> QED
    BY <1>2, <2>1 DEF BufferInv
<1> QED
  BY <1>3, <1>4, <1>5, <1>6 DEF BufferInv

LEMMA BufferInvariance == BufferSpec => [](\E P, o, s : BufferInv(P, o, s))
<1> DEFINE Inv == \E P, o, s : BufferInv(P, o, s)
<1>1. BufferInit => Inv
  BY BufferStarts
<1>2. Inv /\ [BufferNext]_bufferVars => Inv'
  <2> SUFFICES ASSUME NEW P, NEW o, NEW s, BufferInv(P, o, s), [BufferNext]_bufferVars
               PROVE  BufferInv(P, o, s)'
    OBVIOUS
  <2>1. CASE ExtractFails
    BY <2>1, ExtractFailsStep
  <2>2. CASE Count
    BY <2>2, CountStep
  <2>3. CASE NextAnswer
    BY <2>3, NextAnswerStep
  <2>4. CASE Allocate
    BY <2>4, AllocateStep
  <2>5. CASE Copy
    BY <2>5, CopyStep
  <2>6. CASE Terminate
    BY <2>6, TerminateStep
  <2>7. CASE TryText
    BY <2>7, TryTextStep
  <2>8. CASE EndOfTexts
    BY <2>8, EndOfTextsStep
  <2>9. CASE UNCHANGED bufferVars
    BY <2>9, StutterStep
  <2> QED
    BY <2>1, <2>2, <2>3, <2>4, <2>5, <2>6, <2>7, <2>8, <2>9 DEF BufferNext
<1> HIDE DEF Inv
<1>3. BufferSpec => []Inv
  BY <1>1, <1>2, PTL DEF BufferSpec
<1> QED
  BY <1>3 DEF Inv

\* The types of the buffer, and what they say of the C library's two passes over
\* a reply: the second one never writes past the buffer that the first one has
\* sized, and leaves no byte of it as malloc did.  The three specifications share
\* no state.
THEOREM TypesCorrect == TxtSpec => []TypesOK
<1>1. ASSUME NEW P, NEW o, NEW s, BufferInv(P, o, s) PROVE BufferTypeOK
  <2>1. /\ Tracks(P, o, s)
        /\ Len(s) \in Nat /\ \A n \in 1..(Len(s) + 1) : o[n] \in Nat
        /\ \A x, y \in 1..(Len(s) + 1) : x <= y => o[x] <= o[y]
    <3>1. Tracks(P, o, s)
      BY <1>1 DEF BufferInv
    <3> QED
      BY <3>1, TracksOffsets, Zenon
  <2>2. Len(s) + 1 \in 1..(Len(s) + 1)
    BY <2>1
  <2>3. CASE Counting(P, o, s)
    <3>1. total \in Nat /\ off = 0 /\ buf = <<>> /\ pass = "count" /\ outcome = "none"
      BY <2>1, <2>3 DEF Counting
    <3> QED
      BY <3>1 DEF BufferTypeOK
  <2>4. CASE Copying(P, o, s)
    <3>1. PICK n \in 1..(Len(s) + 1) : off = o[n]
      BY <2>4 DEF Copying
    <3>2. total = o[Len(s) + 1] /\ DOMAIN buf = 0..total /\ p = 0 /\ pass = "copy" /\ outcome = "none"
      BY <2>4 DEF Copying, InBuffer
    <3>3. n <= Len(s) + 1 /\ o[n] \in Nat /\ o[Len(s) + 1] \in Nat
      BY <2>1, <2>2
    <3>4. o[n] <= o[Len(s) + 1]
      BY <2>1, <2>2, <3>3
    <3>5. off \in 0..total /\ p \in 0..total
      BY <3>1, <3>2, <3>3, <3>4
    <3> QED
      BY <3>2, <3>5 DEF BufferTypeOK
  <2>5. CASE Walking(o, s)
    <3>1. /\ total \in Nat /\ DOMAIN buf = 0..total /\ p \in 0..total
          /\ off = total /\ pass = "walk" /\ outcome = "none"
      BY <2>1, <2>2, <2>5 DEF Walking, InBuffer
    <3>2. \A x \in 0..total : buf[x] # Junk
      <4>1. (total + 1) - 1 = total
        BY <3>1
      <4> QED
        BY <2>5, <4>1 DEF Walking, NoJunk
    <3> QED
      BY <3>1, <3>2 DEF BufferTypeOK
  <2>6. CASE Through(s)
    BY <2>6 DEF Through, BufferTypeOK
  <2> QED
    BY <1>1, <2>3, <2>4, <2>5, <2>6 DEF BufferInv
<1>2. (\E P, o, s : BufferInv(P, o, s)) => BufferTypeOK
  BY <1>1
<1>3. IInv => TypeOK
  BY DEF IInv
<1>4. PortsInv => PortsTypeOK
  BY DEF PortsInv
<1> QED
  BY <1>2, <1>3, <1>4, BufferInvariance, Invariance, PortsInvariance, PTL DEF TxtSpec, TypesOK

\* What the C++ library takes of an answer.
CppText(answer) ==
  IF answer.txt /\ StringAt(answer.rdata, 1) THEN <<String(answer.rdata, 1)>> ELSE <<>>

LEMMA CppAlike ==
  ASSUME NEW answer \in Answer, Len(Strings(answer)) <= 1
  PROVE  CppText(answer) = Strings(answer)
<1> DEFINE rdata == answer.rdata
           h == String(rdata, 1)
           next == 1 + 1 + rdata[1]
<1>1. rdata \in Seq(Byte) /\ Len(rdata) \in Nat /\ answer.txt \in BOOLEAN
  BY DEF Answer
<1>2. PICK f \in [1..(Len(rdata) + 1) -> Seq(Seq(Byte))] :
        Splits(f, rdata) /\ Strings(answer) = IF answer.txt THEN f[1] ELSE <<>>
  BY StringsOf
<1>3. f[1] = IF StringAt(rdata, 1) THEN <<h>> \o f[next] ELSE <<>>
  <2>1. 1 \in 1..(Len(rdata) + 1)
    BY <1>1
  <2> QED
    BY <1>2, <2>1, Zenon DEF Splits
<1>4. CASE answer.txt /\ StringAt(rdata, 1)
  <2>1. h \in Seq(Byte) /\ next \in (1 + 1)..(Len(rdata) + 1)
    <3>1. 1 \in Nat \ {0}
      OBVIOUS
    <3> QED
      BY <1>1, <1>4, <3>1, StringType
  <2>2. f[next] \in Seq(Seq(Byte)) /\ Len(f[next]) \in Nat
    <3>1. next \in 1..(Len(rdata) + 1)
      BY <1>1, <2>1
    <3>2. f[next] \in Seq(Seq(Byte))
      BY <3>1
    <3> QED
      BY <3>2
  <2> DEFINE g == f[next]
  <2>3. Strings(answer) = <<h>> \o g /\ h \in Seq(Byte) /\ g \in Seq(Seq(Byte)) /\ Len(g) \in Nat
    BY <1>2, <1>3, <1>4, <2>1, <2>2, Zenon
  <2> HIDE DEF g, h, next, rdata
  <2>4. Len(<<h>> \o g) = 1 + Len(g)
    BY <2>3, Prefixed, Zenon
  <2>5. g = <<>>
    <3>1. Len(g) = 0
      BY <2>3, <2>4
    <3> QED
      BY <2>3, <3>1, EmptySeq
  <2>6. <<h>> \o <<>> = <<h>>
    BY <2>3, ConcatEmptySeq
  <2> QED
    BY <1>4, <2>3, <2>5, <2>6 DEF CppText, h, rdata
<1>5. CASE ~(answer.txt /\ StringAt(rdata, 1))
  <2>1. Strings(answer) = <<>>
    BY <1>1, <1>2, <1>3, <1>5
  <2> QED
    BY <1>5, <2>1 DEF CppText
<1> QED
  BY <1>4, <1>5

LEMMA CppTextsAlike ==
  ASSUME response \in Seq(Answer), \A r \in DOMAIN response : Len(Strings(response[r])) <= 1
  PROVE  CppTexts = AllStrings
<1>1. ASSUME NEW r \in DOMAIN response PROVE CppText(response[r]) = Strings(response[r])
  <2>1. response[r] \in Answer
    OBVIOUS
  <2> QED
    BY <1>1, <2>1, CppAlike
<1>2. CppTexts = FlattenSeq([r \in DOMAIN response |-> CppText(response[r])])
  BY Zenon DEF CppTexts, CppText
<1>3. [r \in DOMAIN response |-> CppText(response[r])] = [r \in DOMAIN response |-> Strings(response[r])]
  BY <1>1
<1> QED
  BY <1>2, <1>3, Zenon DEF AllStrings

LEMMA FirstIndex ==
  ASSUME NEW s, Len(s) \in Nat
  PROVE  \/ First(s) = 0 /\ NoneOf(s, Len(s))
         \/ /\ First(s) \in 1..Len(s) /\ s[First(s)] \in IdentityText
            /\ \A x \in 1..Len(s) : s[x] \in IdentityText => First(s) <= x
<1> DEFINE T == {x \in 1..Len(s) : s[x] \in IdentityText}
           w == First(s)
<1>1. w = IF T # {} THEN Min(T) ELSE 0
  BY Zenon DEF First, SelectInSeq
<1>2. T \subseteq 1..Len(s)
  OBVIOUS
<1>3. \A x \in 1..Len(s) : x \in T <=> s[x] \in IdentityText
  OBVIOUS
<1> HIDE DEF T, w
<1>4. \/ T = {} /\ w = 0
      \/ w \in T /\ w \in 1..Len(s) /\ \A x \in T : w <= x
  BY <1>1, <1>2, LeastIndex
<1> QED
  BY <1>3, <1>4 DEF w, NoneOf

\* kirin_resolve_identity reports the first text of the reply that is an
\* identity, and fails only if none is, whatever else surrounds it; and the C++
\* library finds the same one if every record is a single string.
THEOREM FindsFirstHolds == BufferSpec => []FindsFirst
<1>1. ASSUME NEW P, NEW o, NEW s, BufferInv(P, o, s), pass = "done", off # 0, NulFree
      PROVE  /\ IF First(AllStrings) = 0 THEN outcome = "KIRIN_ERR_DNS" /\ tried = AllStrings
                ELSE outcome = "KIRIN_OK" /\ tried = SubSeq(AllStrings, 1, First(AllStrings))
             /\ (\A r \in DOMAIN response : Len(Strings(response[r])) <= 1) =>
                  IF First(CppTexts) = 0 THEN outcome = "KIRIN_ERR_DNS"
                  ELSE outcome = "KIRIN_OK" /\ Last(tried) = CppTexts[First(CppTexts)]
  <2>1. Tracks(P, o, s) /\ Through(s)
    BY <1>1 DEF BufferInv, Counting, Copying, Walking
  <2>2. s = AllStrings /\ response \in Seq(Answer) /\ s \in Seq(Seq(Byte))
    BY <2>1, Zenon DEF Tracks, StringsIn, AllStrings, AreStrings
  <2>3. Comes(s)
    BY <1>1, <2>1, <2>2 DEF Through, NulFree, NulFreeStrings
  <2>4. Len(s) \in Nat
    BY <2>2
  <2> DEFINE w == First(s)
  <2>5. \/ w = 0 /\ NoneOf(s, Len(s))
        \/ /\ w \in 1..Len(s) /\ s[w] \in IdentityText
           /\ \A x \in 1..Len(s) : s[x] \in IdentityText => w <= x
    BY <2>4, FirstIndex
  <2> HIDE DEF w
  <2>6. IF w = 0 THEN outcome = "KIRIN_ERR_DNS" /\ tried = s
        ELSE outcome = "KIRIN_OK" /\ tried = SubSeq(s, 1, w)
    <3>1. CASE /\ outcome = "KIRIN_OK"
               /\ \E n \in 1..Len(s) :
                    tried = SubSeq(s, 1, n) /\ s[n] \in IdentityText /\ NoneOf(s, n - 1)
      <4>1. PICK n \in 1..Len(s) :
              tried = SubSeq(s, 1, n) /\ s[n] \in IdentityText /\ NoneOf(s, n - 1)
        BY <3>1
      <4>2. w # 0 /\ w \in 1..Len(s) /\ s[w] \in IdentityText /\ w <= n
        BY <2>4, <2>5, <4>1 DEF NoneOf
      <4>3. w \notin 1..(n - 1)
        BY <4>1, <4>2 DEF NoneOf
      <4>4. w = n
        BY <2>4, <4>2, <4>3
      <4> QED
        BY <3>1, <4>1, <4>2, <4>4
    <3>2. CASE outcome = "KIRIN_ERR_DNS" /\ tried = s /\ NoneOf(s, Len(s))
      <4>1. w = 0
        BY <2>4, <2>5, <3>2 DEF NoneOf
      <4> QED
        BY <3>2, <4>1
    <3> QED
      BY <2>3, <3>1, <3>2 DEF Comes
  <2>7. ASSUME \A r \in DOMAIN response : Len(Strings(response[r])) <= 1
        PROVE  CppTexts = s
    BY <2>2, <2>7, CppTextsAlike
  <2>8. w # 0 => Last(SubSeq(s, 1, w)) = s[w]
    <3> SUFFICES ASSUME w # 0 PROVE Last(SubSeq(s, 1, w)) = s[w]
      OBVIOUS
    <3>1. w \in 1..Len(s)
      BY <2>5
    <3>2. Len(SubSeq(s, 1, w)) = w /\ SubSeq(s, 1, w)[w] = s[w]
      BY <2>2, <2>4, <3>1
    <3> QED
      BY <3>2 DEF Last
  <2> QED
    BY <2>2, <2>6, <2>7, <2>8 DEF w
<1>2. (\E P, o, s : BufferInv(P, o, s)) => FindsFirst
  BY <1>1, Zenon DEF FindsFirst
<1> QED
  BY <1>2, BufferInvariance, PTL
====
