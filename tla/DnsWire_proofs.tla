---- MODULE DnsWire_proofs ----
(***************************************************************************)
(* What is proved of the parsers of DNS replies, for sections of every     *)
(* length, with any names, numbers and strings: the parsers stay on the    *)
(* boundaries of the answers, and return the best record or the texts.     *)
(*                                                                         *)
(* AfterName, NameAt, Message and FlattenSeq are recursive functions.      *)
(* That each exists, and what it comes to, follows from the least number   *)
(* principle, in the form of UpTo.                                         *)
(***************************************************************************)
EXTENDS DnsWire, SequenceTheorems, WellFoundedInduction, TLAPS

----
(***************************************************************************)
(* Numbers and sequences.                                                  *)
(***************************************************************************)

LEMMA NatMin ==
  ASSUME NEW T, T \subseteq Nat, T # {}
  PROVE  \E m \in T : \A n \in T : m <= n
<1> DEFINE R == OpToRel(<, Nat)
<1>1. IsWellFoundedOn(R, Nat)
  BY NatLessThanWellFounded
<1>2. ASSUME NEW a \in Nat, NEW b \in Nat, a < b PROVE <<a, b>> \in R
  BY <1>2, Zenon DEF OpToRel
<1> HIDE DEF R
<1>3. PICK m \in T : \A n \in T : ~ (<<n, m>> \in R)
  BY <1>1, WFMin, Zenon
<1>4. ASSUME NEW n \in T PROVE m <= n
  <2>1. ~ (n < m)
    BY <1>2, <1>3, <1>4
  <2> QED
    BY <2>1
<1> QED
  BY <1>3, <1>4

\* What holds of 1 and passes on from each number to the next.
LEMMA UpTo ==
  ASSUME NEW n \in Nat, NEW T, 1 \in T, \A m \in 1..(n - 1) : m \in T => m + 1 \in T
  PROVE  1..n \subseteq T
<1> SUFFICES ASSUME NEW x \in 1..n, x \notin T PROVE FALSE
  OBVIOUS
<1> DEFINE U == {y \in 1..n : y \notin T}
<1>1. U \subseteq Nat /\ U # {}
  OBVIOUS
<1>2. PICK m \in U : \A y \in U : m <= y
  BY <1>1, NatMin
<1>3. m # 1 /\ m - 1 \in 1..(n - 1)
  BY <1>2
<1>4. m - 1 \in T
  BY <1>2, <1>3
<1>5. (m - 1) + 1 \in T
  BY <1>3, <1>4
<1> QED
  BY <1>2, <1>5

\* ConcatProperties, for single places.
LEMMA Glued ==
  ASSUME NEW S, NEW a \in Seq(S), NEW b \in Seq(S)
  PROVE  /\ a \o b \in Seq(S)
         /\ Len(a \o b) = Len(a) + Len(b)
         /\ \A x \in 1..Len(a) : (a \o b)[x] = a[x]
         /\ \A x \in 1..Len(b) : (a \o b)[Len(a) + x] = b[x]
<1>1. Len(a) \in Nat /\ Len(b) \in Nat
  OBVIOUS
<1> QED
  BY <1>1

LEMMA GluedSecond ==
  ASSUME NEW S, NEW a \in Seq(S), NEW b \in Seq(S)
  PROVE  \A x \in 1..Len(b) : (a \o b)[Len(a) + x] = b[x]
  BY Glued

LEMMA GluedToOne ==
  ASSUME NEW S, NEW e \in Seq(S), Len(e) = 1, NEW t \in Seq(S)
  PROVE  /\ Len(e \o t) = 1 + Len(t)
         /\ (e \o t)[1] = e[1]
         /\ \A x \in 1..Len(t) : (e \o t)[1 + x] = t[x]
<1> DEFINE c == e \o t
<1>1. Len(c) = Len(e) + Len(t)
  BY Glued, Zenon
<1>2. \A x \in 1..Len(e) : c[x] = e[x]
  BY Glued, Zenon
<1>3. \A x \in 1..Len(t) : c[Len(e) + x] = t[x]
  BY GluedSecond, Zenon
<1> HIDE DEF c
<1>4. 1 \in 1..Len(e)
  OBVIOUS
<1>5. /\ Len(c) = 1 + Len(t)
      /\ c[1] = e[1]
      /\ \A x \in 1..Len(t) : c[1 + x] = t[x]
  BY <1>1, <1>2, <1>3, <1>4
<1> QED
  BY <1>5 DEF c

\* A sequence is told by its length and its elements.
LEMMA Elements ==
  ASSUME NEW S, NEW s \in Seq(S), NEW n, Len(s) = n
  PROVE  s = [x \in 1..n |-> s[x]]
  OBVIOUS

LEMMA EmptyLength == Len(<<>>) = 0
  BY EmptySeq

\* f gathers the first n sequences one after the other.
Gathers(f, ss, n) ==
  /\ f[1] = ss[1]
  /\ \A m \in 2..n : f[m] = f[m - 1] \o ss[m]

\* The recursive function that defines FlattenSeq exists, and is what it says.
LEMMA Flattening ==
  ASSUME NEW S, NEW ss \in Seq(Seq(S)), ss # <<>>
  PROVE  \E f \in [1..Len(ss) -> Seq(S)] : Gathers(f, ss, Len(ss)) /\ FlattenSeq(ss) = f[Len(ss)]
<1> DEFINE N == Len(ss)
           Cat(a, b) == a \o b
<1>1. N \in Nat \ {0} /\ \A m \in 1..N : ss[m] \in Seq(S)
  BY EmptySeq
<1>2. \A a, b \in Seq(S) : Cat(a, b) \in Seq(S)
  OBVIOUS
<1>3. /\ FlattenSeq(ss) = LET F[x \in 1..N] == IF x = 1 THEN ss[x] ELSE Cat(F[x - 1], ss[x]) IN F[N]
      /\ \A f : Gathers(f, ss, N) <=> f[1] = ss[1] /\ \A m \in 2..N : f[m] = Cat(f[m - 1], ss[m])
  BY <1>1, Zenon DEF FlattenSeq, Gathers
<1> HIDE DEF N, Cat
<1> DEFINE Upto(g, m) == g[1] = ss[1] /\ \A x \in 2..m : g[x] = Cat(g[x - 1], ss[x])
           T == {m \in 1..N : \E g \in [1..m -> Seq(S)] : Upto(g, m)}
<1>4. 1 \in T
  <2> DEFINE h == [x \in 1..1 |-> ss[1]]
  <2>1. h \in [1..1 -> Seq(S)]
    BY <1>1
  <2>2. Upto(h, 1)
    OBVIOUS
  <2> HIDE DEF h, Upto
  <2> QED
    BY <1>1, <2>1, <2>2
<1>5. ASSUME NEW m \in 1..(N - 1), m \in T PROVE m + 1 \in T
  <2>1. PICK g \in [1..m -> Seq(S)] : Upto(g, m)
    BY <1>5
  <2> DEFINE h == [x \in 1..(m + 1) |-> IF x <= m THEN g[x] ELSE Cat(g[m], ss[m + 1])]
  <2>2. Cat(g[m], ss[m + 1]) \in Seq(S)
    BY <1>1, <1>2, <2>1
  <2>3. h \in [1..(m + 1) -> Seq(S)]
    BY <1>1, <2>1, <2>2
  <2>4. h[1] = ss[1]
    BY <1>1, <2>1
  <2>5. ASSUME NEW x \in 2..(m + 1) PROVE h[x] = Cat(h[x - 1], ss[x])
    <3>1. CASE x <= m
      <4>1. x \in 2..m /\ x - 1 \in 1..m /\ x - 1 <= m /\ m \in Int /\ x \in 1..(m + 1) /\ x - 1 \in 1..(m + 1)
        BY <1>1, <2>5, <3>1
      <4>2. h[x] = g[x] /\ h[x - 1] = g[x - 1]
        BY <4>1
      <4> QED
        BY <2>1, <4>1, <4>2
    <3>2. CASE x = m + 1
      <4>1. m \in Int /\ x \in 1..(m + 1) /\ m \in 1..(m + 1) /\ ~(x <= m) /\ x - 1 = m /\ m <= m
        BY <1>1, <2>5, <3>2
      <4>2. h[x] = Cat(g[m], ss[x]) /\ h[m] = g[m]
        BY <3>2, <4>1
      <4> QED
        BY <4>1, <4>2
    <3>3. x <= m \/ x = m + 1
      BY <1>1, <2>5
    <3> QED
      BY <3>1, <3>2, <3>3
  <2>6. Upto(h, m + 1)
    BY <2>4, <2>5
  <2>7. m + 1 \in 1..N
    BY <1>1
  <2> QED
    BY <2>3, <2>6, <2>7
<1>6. N \in T
  <2> HIDE DEF T
  <2>1. 1..N \subseteq T
    BY <1>1, <1>4, <1>5, UpTo
  <2> QED
    BY <1>1, <2>1
<1>7. PICK g \in [1..N -> Seq(S)] : Upto(g, N)
  BY <1>6
<1> DEFINE Solves(f) == f = [x \in 1..N |-> IF x = 1 THEN ss[x] ELSE Cat(f[x - 1], ss[x])]
           F == CHOOSE f : Solves(f)
<1>8. Solves(g)
  <2>1. ASSUME NEW x \in 1..N PROVE g[x] = IF x = 1 THEN ss[x] ELSE Cat(g[x - 1], ss[x])
    <3>1. x = 1 \/ x \in 2..N
      BY <1>1
    <3> QED
      BY <1>7, <3>1
  <2> HIDE DEF Upto
  <2> QED
    BY <2>1, <1>7
<1>9. Solves(F)
  <2> HIDE DEF Solves
  <2> QED
    BY <1>8
<1>10. FlattenSeq(ss) = F[N]
  BY <1>3, Zenon
<1> HIDE DEF F
<1>11. Upto(F, N)
  <2>1. \A x \in 1..N : F[x] = IF x = 1 THEN ss[x] ELSE Cat(F[x - 1], ss[x])
    BY <1>9
  <2>2. F[1] = ss[1]
    BY <1>1, <2>1
  <2>3. \A x \in 2..N : F[x] = Cat(F[x - 1], ss[x])
    <3> TAKE x \in 2..N
    <3>1. x \in 1..N /\ x # 1
      BY <1>1
    <3> QED
      BY <2>1, <3>1
  <2> QED
    BY <2>2, <2>3
<1>12. F[N] = g[N]
  <2> DEFINE E == {x \in 1..N : F[x] = g[x]}
  <2>1. 1 \in E
    BY <1>1, <1>7, <1>11
  <2>2. ASSUME NEW m \in 1..(N - 1), m \in E PROVE m + 1 \in E
    <3>1. m + 1 \in 2..N /\ m + 1 \in 1..N /\ (m + 1) - 1 = m
      BY <1>1
    <3>2. F[m + 1] = Cat(F[m], ss[m + 1]) /\ g[m + 1] = Cat(g[m], ss[m + 1])
      BY <1>7, <1>11, <3>1
    <3> QED
      BY <2>2, <3>1, <3>2
  <2> HIDE DEF E
  <2>3. 1..N \subseteq E
    BY <1>1, <2>1, <2>2, UpTo
  <2> QED
    BY <1>1, <2>3 DEF E
<1>13. \A f : Gathers(f, ss, N) <=> Upto(f, N)
  BY <1>3
<1>14. N = Len(ss)
  BY DEF N
<1> HIDE DEF Upto
<1> QED
  BY <1>7, <1>10, <1>12, <1>13, <1>14

LEMMA FlattenType ==
  ASSUME NEW S, NEW ss \in Seq(Seq(S))
  PROVE  FlattenSeq(ss) \in Seq(S)
<1>1. CASE ss = <<>>
  <2>1. FlattenSeq(ss) = <<>>
    BY <1>1, Zenon, EmptyLength DEF FlattenSeq
  <2> QED
    BY <2>1, EmptySeq, Zenon
<1>2. CASE ss # <<>>
  <2>1. PICK f \in [1..Len(ss) -> Seq(S)] : FlattenSeq(ss) = f[Len(ss)]
    BY <1>2, Flattening
  <2>2. Len(ss) \in 1..Len(ss)
    BY <1>2, EmptySeq
  <2> QED
    BY <2>1, <2>2
<1> QED
  BY <1>1, <1>2

----
(***************************************************************************)
(* Recursion towards an end.                                               *)
(***************************************************************************)

\* f is what the recursion says from q on.
Follows(f, q, stop, base, comb, next) ==
  f[q] = IF q \in stop THEN base[q] ELSE comb[<<q, f[next[q]]>>]

\* A function on positions that looks further on, and stops at L at the latest.
LEMMA Settles ==
  ASSUME NEW L \in Nat, NEW S, NEW stop, NEW base \in [Nat -> S], NEW next,
         NEW comb \in [Nat \X S -> S],
         \A q \in Nat : q >= L => q \in stop,
         \A q \in Nat : q \notin stop => next[q] \in Nat /\ next[q] > q
  PROVE  \E f \in [Nat -> S] : \A q \in Nat : Follows(f, q, stop, base, comb, next)
<1> DEFINE Good(f, q) == Follows(f, q, stop, base, comb, next)
           T == {n \in 1..(L + 1) :
                  \E f \in [Nat -> S] : \A q \in Nat : q > L - n => Good(f, q)}
<1>1. 1 \in T
  <2>1. \A q \in Nat : q > L - 1 => Good(base, q)
    BY DEF Follows
  <2> QED
    BY <2>1
<1>2. ASSUME NEW n \in 1..((L + 1) - 1), n \in T PROVE n + 1 \in T
  <2>1. PICK f \in [Nat -> S] : \A q \in Nat : q > L - n => Good(f, q)
    BY <1>2
  <2> DEFINE p == L - n
             v == IF p \in stop THEN base[p] ELSE comb[<<p, f[next[p]]>>]
             g == [f EXCEPT ![p] = v]
  <2>2. p \in Nat
    OBVIOUS
  <2>3. v \in S
    <3>1. CASE p \in stop
      BY <2>2, <3>1
    <3>2. CASE p \notin stop
      <4>1. next[p] \in Nat
        BY <2>2, <3>2
      <4>2. f[next[p]] \in S
        BY <4>1
      <4>3. <<p, f[next[p]]>> \in Nat \X S
        BY <2>2, <4>2
      <4> HIDE DEF p
      <4> QED
        BY <3>2, <4>3
    <3> QED
      BY <3>1, <3>2
  <2> HIDE DEF p, v
  <2>4. g \in [Nat -> S] /\ g[p] = v /\ \A q \in Nat : q # p => g[q] = f[q]
    BY <2>2, <2>3
  <2> HIDE DEF g
  <2>5. ASSUME NEW q \in Nat, q >= p PROVE Good(g, q)
    <3>1. q \notin stop => next[q] \in Nat /\ next[q] # p
      BY <2>2, <2>5
    <3>2. q \notin stop => g[next[q]] = f[next[q]]
      BY <2>4, <3>1
    <3>3. CASE q = p
      <4>1. g[q] = IF p \in stop THEN base[p] ELSE comb[<<p, f[next[p]]>>]
        BY <2>4, <3>3 DEF v
      <4> QED
        BY <3>2, <3>3, <4>1, Zenon DEF Follows
    <3>4. CASE q # p
      <4>1. q > L - n
        BY <2>2, <2>5, <3>4 DEF p
      <4>2. Good(f, q)
        BY <2>1, <4>1
      <4>3. g[q] = f[q]
        BY <2>4, <3>4
      <4> QED
        BY <3>2, <4>2, <4>3, Zenon DEF Follows
    <3> QED
      BY <3>3, <3>4
  <2>6. \A q \in Nat : q > L - (n + 1) => q >= p
    BY DEF p
  <2>7. n + 1 \in 1..(L + 1)
    OBVIOUS
  <2> HIDE DEF Good
  <2> QED
    BY <2>4, <2>5, <2>6, <2>7
<1>3. 1..(L + 1) \subseteq T
  <2> HIDE DEF T
  <2>1. L + 1 \in Nat
    OBVIOUS
  <2> QED
    BY <1>1, <1>2, <2>1, UpTo
<1>4. PICK f \in [Nat -> S] : \A q \in Nat : q > L - (L + 1) => Good(f, q)
  <2>1. L + 1 \in T
    BY <1>3
  <2> QED
    BY <2>1
<1>5. \A q \in Nat : q > L - (L + 1)
  OBVIOUS
<1> QED
  BY <1>4, <1>5

----
(***************************************************************************)
(* Names, as the parsers skip and read them.                               *)
(***************************************************************************)

\* Where no label begins.
Ends(q) == q >= Len(msg) \/ At(q) = 0 \/ IsPointer(At(q))

LEMMA OctetsOfMessage ==
  ASSUME msg \in Seq(Octet), NEW q \in Nat, q < Len(msg)
  PROVE  At(q) \in Octet
  BY DEF At

LEMMA LabelAhead ==
  ASSUME msg \in Seq(Octet), NEW q \in Nat, ~Ends(q)
  PROVE  q + At(q) + 1 \in Nat /\ q + At(q) + 1 > q
<1>1. q < Len(msg)
  BY DEF Ends
<1> DEFINE a == At(q)
<1>2. a \in Octet
  BY <1>1, OctetsOfMessage
<1> HIDE DEF a
<1>3. q + a + 1 \in Nat /\ q + a + 1 > q
  BY <1>2 DEF Octet
<1> QED
  BY <1>3 DEF a

\* AfterName is what its recursion says.
LEMMA AfterNameIs ==
  ASSUME msg \in Seq(Octet)
  PROVE  \A p \in Nat :
           /\ AfterName(p) \in Nat
           /\ AfterName(p) = IF p >= Len(msg) THEN p
                             ELSE IF At(p) = 0 THEN p + 1
                             ELSE IF IsPointer(At(p)) THEN p + 2
                             ELSE AfterName(p + At(p) + 1)
<1> DEFINE Rule(f, q) == IF q >= Len(msg) THEN q
                         ELSE IF At(q) = 0 THEN q + 1
                         ELSE IF IsPointer(At(q)) THEN q + 2
                         ELSE f[q + At(q) + 1]
           Solves(f) == f = [q \in Nat |-> Rule(f, q)]
           F == CHOOSE f : Solves(f)
           stop == {q \in Nat : Ends(q)}
           base == [q \in Nat |-> IF q >= Len(msg) THEN q ELSE IF At(q) = 0 THEN q + 1 ELSE q + 2]
           comb == [t \in Nat \X Nat |-> t[2]]
           next == [q \in Nat |-> q + At(q) + 1]
<1>1. PICK g \in [Nat -> Nat] : \A q \in Nat : Follows(g, q, stop, base, comb, next)
  <2>1. base \in [Nat -> Nat] /\ comb \in [Nat \X Nat -> Nat]
    OBVIOUS
  <2>2. Len(msg) \in Nat /\ \A q \in Nat : q >= Len(msg) => q \in stop
    BY DEF Ends
  <2>3. \A q \in Nat : q \notin stop => next[q] \in Nat /\ next[q] > q
    BY LabelAhead
  <2> HIDE DEF stop, base, comb, next
  <2> QED
    BY <2>1, <2>2, <2>3, Settles
<1>2. ASSUME NEW q \in Nat PROVE g[q] = Rule(g, q)
  <2>1. CASE Ends(q)
    <3>1. g[q] = base[q]
      BY <1>1, <2>1 DEF Follows
    <3> QED
      BY <2>1, <3>1 DEF Ends
  <2>2. CASE ~Ends(q)
    <3>1. next[q] \in Nat /\ next[q] = q + At(q) + 1
      BY <2>2, LabelAhead
    <3>2. g[q] = comb[<<q, g[next[q]]>>]
      BY <1>1, <2>2 DEF Follows
    <3>3. <<q, g[next[q]]>> \in Nat \X Nat
      BY <1>1, <3>1
    <3>4. comb[<<q, g[next[q]]>>] = g[next[q]]
      BY <3>3
    <3> QED
      BY <2>2, <3>1, <3>2, <3>4 DEF Ends
  <2> QED
    BY <2>1, <2>2
<1> HIDE DEF stop, base, comb, next
<1>3. Solves(F)
  <2>1. Solves(g)
    <3> HIDE DEF Rule
    <3> QED
      BY <1>1, <1>2
  <2> HIDE DEF Solves
  <2> QED
    BY <2>1
<1>4. \A p : AfterName(p) = F[p]
  BY Zenon DEF AfterName
<1> HIDE DEF F
<1>5. \A q \in Nat : F[q] = Rule(F, q)
  <2> HIDE DEF Rule
  <2> QED
    BY <1>3
<1>6. \A q \in Nat : F[q] = g[q]
  <2> DEFINE T == {n \in 1..(Len(msg) + 1) : \A q \in Nat : q > Len(msg) - n => F[q] = g[q]}
  <2>1. 1 \in T
    BY <1>2, <1>5
  <2>2. ASSUME NEW n \in 1..((Len(msg) + 1) - 1), n \in T PROVE n + 1 \in T
    <3>1. ASSUME NEW q \in Nat, q > Len(msg) - (n + 1) PROVE F[q] = g[q]
      <4>1. CASE Ends(q)
        BY <1>2, <1>5, <4>1 DEF Ends
      <4>2. CASE ~Ends(q)
        <5> DEFINE r == q + At(q) + 1
        <5>1. r \in Nat /\ r > Len(msg) - n
          BY <3>1, <4>2, LabelAhead
        <5>2. F[r] = g[r]
          BY <2>2, <5>1
        <5>3. F[q] = F[r] /\ g[q] = g[r]
          BY <1>2, <1>5, <4>2 DEF Ends
        <5> QED
          BY <5>2, <5>3
      <4> QED
        BY <4>1, <4>2
    <3> QED
      BY <3>1
  <2>3. 1..(Len(msg) + 1) \subseteq T
    <3> HIDE DEF T
    <3>1. Len(msg) + 1 \in Nat
      OBVIOUS
    <3> QED
      BY <2>1, <2>2, <3>1, UpTo
  <2>4. Len(msg) + 1 \in T
    <3>1. Len(msg) + 1 \in 1..(Len(msg) + 1)
      OBVIOUS
    <3> HIDE DEF T
    <3> QED
      BY <2>3, <3>1, Zenon
  <2>5. ASSUME NEW q \in Nat PROVE F[q] = g[q]
    <3>1. q > Len(msg) - (Len(msg) + 1)
      OBVIOUS
    <3> QED
      BY <2>4, <3>1
  <2> QED
    BY <2>5
<1> QED
  BY <1>1, <1>4, <1>5, <1>6

Piece(q) == SubSeq(msg, q + 2, q + 1 + At(q))
Pieces == {Piece(q) : q \in Nat}
Pointed(q) == (At(q) % 64) * 256 + At(q + 1)
Followed(q, jumps) == ~(Library = "csharp" \/ jumps = MaxJumps \/ q + 1 = Len(msg))

\* What is read at q after so many jumps, by f, if g is what is read after one more.
Layer(f, g, q, jumps) ==
  f[q] = IF q >= Len(msg) \/ At(q) = 0 THEN <<>>
         ELSE IF IsPointer(At(q)) THEN
           IF Followed(q, jumps) THEN g[Pointed(q)] ELSE <<>>
         ELSE <<Piece(q)>> \o f[q + At(q) + 1]

LEMMA PointsAhead ==
  ASSUME msg \in Seq(Octet), NEW q \in Nat, q < Len(msg), NEW jumps, Followed(q, jumps)
  PROVE  Pointed(q) \in Nat
<1> DEFINE a == At(q)
           b == At(q + 1)
<1>1. q + 1 \in Nat /\ q + 1 < Len(msg)
  <2>1. Len(msg) \in Nat /\ q + 1 # Len(msg)
    BY DEF Followed
  <2> QED
    BY <2>1
<1>2. a \in Octet /\ b \in Octet
  BY <1>1, OctetsOfMessage
<1> HIDE DEF a, b
<1>3. (a % 64) * 256 + b \in Nat
  BY <1>2 DEF Octet
<1> QED
  BY <1>3 DEF Pointed, a, b

LEMMA LayerExists ==
  ASSUME msg \in Seq(Octet), NEW jumps, NEW g \in [Nat -> Seq(Pieces)]
  PROVE  \E f \in [Nat -> Seq(Pieces)] : \A q \in Nat : Layer(f, g, q, jumps)
<1> DEFINE S == Seq(Pieces)
           stop == {q \in Nat : Ends(q)}
           base == [q \in Nat |-> IF q < Len(msg) /\ At(q) # 0 /\ Followed(q, jumps)
                                  THEN g[Pointed(q)] ELSE <<>>]
           comb == [t \in Nat \X S |-> <<Piece(t[1])>> \o t[2]]
           next == [q \in Nat |-> q + At(q) + 1]
<1>1. base \in [Nat -> S]
  <2>1. \A q \in Nat : base[q] \in S
    <3> TAKE q \in Nat
    <3>1. CASE q < Len(msg) /\ At(q) # 0 /\ Followed(q, jumps)
      <4>1. g[Pointed(q)] \in S
        BY <3>1, PointsAhead
      <4> QED
        BY <3>1, <4>1
    <3>2. CASE ~(q < Len(msg) /\ At(q) # 0 /\ Followed(q, jumps))
      BY <3>2
    <3> QED
      BY <3>1, <3>2
  <2> QED
    BY <2>1
<1>2. comb \in [Nat \X S -> S]
  <2>1. ASSUME NEW t \in Nat \X S PROVE <<Piece(t[1])>> \o t[2] \in S
    <3>1. t[1] \in Nat /\ t[2] \in S
      BY <2>1
    <3>2. Piece(t[1]) \in Pieces
      BY <3>1, Zenon DEF Pieces
    <3>3. <<Piece(t[1])>> \in S
      BY <3>2
    <3> HIDE DEF S
    <3>4. \A x, y \in S : x \o y \in S
      BY DEF S
    <3> QED
      BY <3>1, <3>3, <3>4
  <2> HIDE DEF S
  <2> QED
    BY <2>1
<1>3. Len(msg) \in Nat /\ \A q \in Nat : q >= Len(msg) => q \in stop
  BY DEF Ends
<1>4. \A q \in Nat : q \notin stop => next[q] \in Nat /\ next[q] > q
  BY LabelAhead
<1>5. PICK f \in [Nat -> S] : \A q \in Nat : Follows(f, q, stop, base, comb, next)
  <2> HIDE DEF stop, base, comb, next, S
  <2> QED
    BY <1>1, <1>2, <1>3, <1>4, Settles
<1>6. ASSUME NEW q \in Nat PROVE Layer(f, g, q, jumps)
  <2>1. CASE Ends(q)
    <3>1. f[q] = base[q]
      BY <1>5, <2>1 DEF Follows
    <3>2. f[q] = IF q < Len(msg) /\ At(q) # 0 /\ Followed(q, jumps) THEN g[Pointed(q)] ELSE <<>>
      BY <3>1
    <3>3. q < Len(msg) <=> ~(q >= Len(msg))
      <4> DEFINE n == Len(msg)
      <4>1. n \in Nat
        BY <1>3
      <4> HIDE DEF n
      <4>2. q < n <=> ~(q >= n)
        BY <4>1
      <4> QED
        BY <4>2 DEF n
    <3> QED
      BY <2>1, <3>2, <3>3, Zenon DEF Ends, Layer
  <2>2. CASE ~Ends(q)
    <3>1. next[q] \in Nat /\ next[q] = q + At(q) + 1
      BY <2>2, LabelAhead
    <3>2. f[q] = comb[<<q, f[next[q]]>>]
      BY <1>5, <2>2 DEF Follows
    <3>3. f[next[q]] \in S
      BY <1>5, <3>1
    <3>4. comb[<<q, f[next[q]]>>] = <<Piece(q)>> \o f[next[q]]
      <4> DEFINE v == f[next[q]]
      <4> HIDE DEF v, S
      <4>1. <<q, v>> \in Nat \X S
        BY <3>3 DEF v
      <4>2. comb[<<q, v>>] = <<Piece(q)>> \o v
        BY <4>1
      <4> QED
        BY <4>2 DEF v
    <3> HIDE DEF next, comb
    <3>5. f[q] = <<Piece(q)>> \o f[q + At(q) + 1]
      BY <3>1, <3>2, <3>4
    <3> QED
      BY <2>2, <3>5 DEF Ends, Layer
  <2> QED
    BY <2>1, <2>2
<1> QED
  BY <1>5, <1>6

\* The next layer, for the last one itself.
Under(jumps) == IF jumps = MaxJumps THEN jumps ELSE jumps + 1

LEMMA LayersExist ==
  ASSUME msg \in Seq(Octet)
  PROVE  \E t \in [0..MaxJumps -> [Nat -> Seq(Pieces)]] :
           \A jumps \in 0..MaxJumps, q \in Nat : Layer(t[jumps], t[Under(jumps)], q, jumps)
<1> DEFINE R == [Nat -> Seq(Pieces)]
           Good(t, jumps) == \A q \in Nat : Layer(t[jumps], t[Under(jumps)], q, jumps)
           T == {n \in 1..(MaxJumps + 1) :
                  \E t \in [0..MaxJumps -> R] : \A jumps \in 0..MaxJumps :
                    jumps > MaxJumps - n => Good(t, jumps)}
<1>0. MaxJumps = 10
  BY DEF MaxJumps
<1>1. 1 \in T
  <2> DEFINE g == [q \in Nat |-> <<>>]
  <2>1. g \in R
    OBVIOUS
  <2>2. PICK f \in R : \A q \in Nat : Layer(f, g, q, MaxJumps)
    BY <2>1, LayerExists
  <2>3. \A q \in Nat : Layer(f, f, q, MaxJumps)
    BY <2>2, Zenon DEF Layer, Followed
  <2> DEFINE t == [jumps \in 0..MaxJumps |-> f]
  <2> HIDE DEF R
  <2>4. t \in [0..MaxJumps -> R]
    OBVIOUS
  <2>5. t[MaxJumps] = f
    BY <1>0
  <2> HIDE DEF t
  <2>6. Good(t, MaxJumps)
    BY <2>3, <2>5, Zenon DEF Under
  <2>7. \A jumps \in 0..MaxJumps : jumps > MaxJumps - 1 => jumps = MaxJumps
    BY <1>0
  <2>8. 1 \in 1..(MaxJumps + 1)
    BY <1>0
  <2> HIDE DEF Good
  <2> QED
    BY <2>4, <2>6, <2>7, <2>8
<1>2. ASSUME NEW n \in 1..((MaxJumps + 1) - 1), n \in T PROVE n + 1 \in T
  <2>1. PICK t \in [0..MaxJumps -> R] : \A jumps \in 0..MaxJumps :
               jumps > MaxJumps - n => Good(t, jumps)
    BY <1>2
  <2> DEFINE j == MaxJumps - n
  <2>2. j \in 0..MaxJumps /\ j + 1 \in 0..MaxJumps /\ j + 1 > MaxJumps - n /\ j # MaxJumps
    <3> HIDE DEF T
    <3>1. n \in 1..10
      BY <1>0
    <3>2. 10 - n \in 0..10 /\ 10 - n + 1 \in 0..10 /\ 10 - n + 1 > 10 - n /\ 10 - n # 10
      BY <3>1
    <3> QED
      BY <1>0, <3>2
  <2>3. PICK f \in R : \A q \in Nat : Layer(f, t[j + 1], q, j)
    <3>1. t[j + 1] \in R
      BY <2>1, <2>2
    <3> HIDE DEF j
    <3> QED
      BY <3>1, LayerExists
  <2> DEFINE u == [t EXCEPT ![j] = f]
  <2> HIDE DEF R, Good
  <2>4. u \in [0..MaxJumps -> R] /\ u[j] = f /\ \A jumps \in 0..MaxJumps : jumps # j => u[jumps] = t[jumps]
    BY <2>1, <2>2
  <2>5. ASSUME NEW jumps \in 0..MaxJumps, jumps > MaxJumps - (n + 1) PROVE Good(u, jumps)
    <3>1. Under(jumps) \in 0..MaxJumps /\ Under(jumps) # j
      BY <1>0, <2>5 DEF Under
    <3>2. u[Under(jumps)] = t[Under(jumps)]
      BY <2>4, <3>1
    <3>3. CASE jumps = j
      <4>1. Under(jumps) = j + 1 /\ u[jumps] = f
        BY <2>2, <2>4, <3>3 DEF Under
      <4> HIDE DEF j, u
      <4> QED
        BY <2>3, <3>2, <3>3, <4>1 DEF Good
    <3>4. CASE jumps # j
      <4>1. jumps > MaxJumps - n
        BY <1>0, <2>5, <3>4
      <4>2. u[jumps] = t[jumps]
        BY <2>4, <3>4
      <4>3. Good(t, jumps)
        BY <2>1, <4>1
      <4> HIDE DEF j, u
      <4> QED
        BY <3>2, <4>2, <4>3, Zenon DEF Good
    <3> QED
      BY <3>3, <3>4
  <2>6. n + 1 \in 1..(MaxJumps + 1)
    BY <1>0
  <2> HIDE DEF u, j
  <2> QED
    BY <2>4, <2>5, <2>6
<1>3. MaxJumps + 1 \in T
  <2>1. MaxJumps + 1 \in Nat /\ MaxJumps + 1 \in 1..(MaxJumps + 1)
    BY <1>0
  <2> HIDE DEF T
  <2>2. 1..(MaxJumps + 1) \subseteq T
    BY <1>1, <1>2, <2>1, UpTo
  <2> QED
    BY <2>1, <2>2, Zenon
<1>4. PICK t \in [0..MaxJumps -> R] : \A jumps \in 0..MaxJumps :
             jumps > MaxJumps - (MaxJumps + 1) => Good(t, jumps)
  BY <1>3
<1>5. \A jumps \in 0..MaxJumps : jumps > MaxJumps - (MaxJumps + 1)
  BY <1>0
<1> QED
  BY <1>4, <1>5

\* NameAt is what its recursion says.
Reads(h, q, jumps) ==
  h[<<q, jumps>>] =
    IF q >= Len(msg) \/ At(q) = 0 THEN <<>>
    ELSE IF IsPointer(At(q)) THEN
      IF Followed(q, jumps) THEN h[<<Pointed(q), jumps + 1>>] ELSE <<>>
    ELSE <<Piece(q)>> \o h[<<q + At(q) + 1, jumps>>]

LEMMA NameAtIs ==
  ASSUME msg \in Seq(Octet)
  PROVE  \E h : /\ \A p \in Nat : NameAt(p) = h[<<p, 0>>]
                /\ \A q \in Nat, jumps \in 0..MaxJumps : Reads(h, q, jumps)
<1> DEFINE D == Nat \X (0..MaxJumps)
           Rule(h, at) ==
             IF at[1] >= Len(msg) THEN <<>>
             ELSE IF At(at[1]) = 0 THEN <<>>
             ELSE IF IsPointer(At(at[1])) THEN
               IF Library = "csharp" \/ at[2] = MaxJumps \/ at[1] + 1 = Len(msg) THEN <<>>
               ELSE h[<<(At(at[1]) % 64) * 256 + At(at[1] + 1), at[2] + 1>>]
             ELSE <<SubSeq(msg, at[1] + 2, at[1] + 1 + At(at[1]))>>
                    \o h[<<at[1] + At(at[1]) + 1, at[2]>>]
           Solves(h) == h = [at \in D |-> Rule(h, at)]
           H == CHOOSE h : Solves(h)
<1>1. PICK t \in [0..MaxJumps -> [Nat -> Seq(Pieces)]] :
             \A jumps \in 0..MaxJumps, q \in Nat : Layer(t[jumps], t[Under(jumps)], q, jumps)
  BY LayersExist
<1> DEFINE g == [at \in D |-> t[at[2]][at[1]]]
<1>2. \A q \in Nat, jumps \in 0..MaxJumps : g[<<q, jumps>>] = t[jumps][q]
  OBVIOUS
<1>3. \A at \in D : at[1] \in Nat /\ at[2] \in 0..MaxJumps /\ at = <<at[1], at[2]>>
  OBVIOUS
<1>4. ASSUME NEW h, NEW q, NEW jumps
      PROVE  Reads(h, q, jumps) <=> h[<<q, jumps>>] = Rule(h, <<q, jumps>>)
  <2> DEFINE at == <<q, jumps>>
  <2>1. at[1] = q /\ at[2] = jumps
    OBVIOUS
  <2> HIDE DEF at
  <2>2. h[at] = Rule(h, at) <=>
          h[at] = IF q >= Len(msg) THEN <<>>
                  ELSE IF At(q) = 0 THEN <<>>
                  ELSE IF IsPointer(At(q)) THEN
                    IF Library = "csharp" \/ jumps = MaxJumps \/ q + 1 = Len(msg) THEN <<>>
                    ELSE h[<<(At(q) % 64) * 256 + At(q + 1), jumps + 1>>]
                  ELSE <<SubSeq(msg, q + 2, q + 1 + At(q))>> \o h[<<q + At(q) + 1, jumps>>]
    BY <2>1, Zenon
  <2> HIDE DEF Rule
  <2> QED
    BY <2>2, Zenon DEF Reads, Followed, Pointed, Piece, at
<1> HIDE DEF g, Rule
<1>5. ASSUME NEW q \in Nat, NEW jumps \in 0..MaxJumps PROVE Reads(g, q, jumps)
  <2>1. Layer(t[jumps], t[Under(jumps)], q, jumps)
    BY <1>1
  <2>2. g[<<q, jumps>>] = t[jumps][q]
    BY <1>2
  <2>3. CASE q >= Len(msg) \/ At(q) = 0
    BY <2>1, <2>2, <2>3, Zenon DEF Layer, Reads
  <2>4. CASE ~(q >= Len(msg) \/ At(q) = 0) /\ IsPointer(At(q)) /\ ~Followed(q, jumps)
    BY <2>1, <2>2, <2>4, Zenon DEF Layer, Reads
  <2>5. CASE ~(q >= Len(msg) \/ At(q) = 0) /\ IsPointer(At(q)) /\ Followed(q, jumps)
    <3>1. q < Len(msg)
      BY <2>5
    <3>2. Pointed(q) \in Nat
      BY <2>5, <3>1, PointsAhead
    <3>3. jumps # MaxJumps
      BY <2>5 DEF Followed
    <3>4. jumps + 1 \in 0..MaxJumps /\ Under(jumps) = jumps + 1
      BY <3>3 DEF Under, MaxJumps
    <3>5. g[<<Pointed(q), jumps + 1>>] = t[Under(jumps)][Pointed(q)]
      BY <1>2, <3>2, <3>4
    <3> QED
      BY <2>1, <2>2, <2>5, <3>5, Zenon DEF Layer, Reads
  <2>6. CASE ~(q >= Len(msg) \/ At(q) = 0) /\ ~IsPointer(At(q))
    <3>1. q + At(q) + 1 \in Nat
      BY <2>6, LabelAhead DEF Ends
    <3>2. g[<<q + At(q) + 1, jumps>>] = t[jumps][q + At(q) + 1]
      BY <1>2, <3>1
    <3> QED
      BY <2>1, <2>2, <2>6, <3>2, Zenon DEF Layer, Reads
  <2> QED
    BY <2>3, <2>4, <2>5, <2>6, Zenon
<1>6. Solves(g)
  <2>1. \A at \in D : g[at] = Rule(g, at)
    BY <1>3, <1>4, <1>5
  <2>2. g = [at \in D |-> g[at]]
    BY DEF g
  <2> HIDE DEF D
  <2> QED
    BY <2>1, <2>2
<1>7. Solves(H)
  <2> HIDE DEF Solves
  <2> QED
    BY <1>6
<1>8. \A p \in Nat : NameAt(p) = H[<<p, 0>>]
  BY Zenon DEF NameAt, Rule
<1> HIDE DEF H
<1>9. \A at \in D : H[at] = Rule(H, at)
  <2> HIDE DEF D
  <2> QED
    BY <1>7
<1>10. \A q \in Nat, jumps \in 0..MaxJumps : Reads(H, q, jumps)
  <2>1. \A q \in Nat, jumps \in 0..MaxJumps : <<q, jumps>> \in D
    OBVIOUS
  <2> HIDE DEF D
  <2> QED
    BY <1>4, <1>9, <2>1
<1> QED
  BY <1>8, <1>10

----
(***************************************************************************)
(* Octets within octets.                                                   *)
(***************************************************************************)
Holds(s, p, piece) ==
  /\ p + Len(piece) <= Len(s)
  /\ \A x \in 1..Len(piece) : s[p + x] = piece[x]

LEMMA HoldsParts ==
  ASSUME NEW S, NEW s \in Seq(S), NEW a \in Seq(S), NEW b \in Seq(S), NEW p \in Nat,
         Holds(s, p, a \o b)
  PROVE  Holds(s, p, a) /\ Holds(s, p + Len(a), b) /\ p + Len(a) \in Nat
<1> DEFINE c == a \o b
           m == Len(a)
           n == Len(b)
<1>1. /\ m \in Nat /\ n \in Nat /\ Len(s) \in Nat
      /\ Len(c) = m + n
      /\ \A x \in 1..m : c[x] = a[x]
      /\ \A x \in 1..n : c[m + x] = b[x]
  BY Glued
<1>2. p + Len(c) <= Len(s) /\ \A x \in 1..Len(c) : s[p + x] = c[x]
  BY DEF Holds
<1> HIDE DEF c, m, n
<1>3. p + m <= Len(s) /\ (p + m) + n <= Len(s) /\ p + m \in Nat
  BY <1>1, <1>2
<1>4. ASSUME NEW x \in 1..m PROVE s[p + x] = a[x]
  <2>1. x \in 1..Len(c)
    BY <1>1
  <2> QED
    BY <1>1, <1>2, <2>1
<1>5. ASSUME NEW x \in 1..n PROVE s[(p + m) + x] = b[x]
  <2>1. m + x \in 1..Len(c) /\ p + (m + x) = (p + m) + x
    BY <1>1
  <2> QED
    BY <1>1, <1>2, <2>1
<1> QED
  BY <1>3, <1>4, <1>5 DEF Holds, m, n

LEMMA HoldsInside ==
  ASSUME NEW S, NEW s \in Seq(S), NEW c \in Seq(S), NEW d \in Seq(S), NEW p \in Nat, NEW r \in Nat,
         Holds(s, p, c), Holds(c, r, d)
  PROVE  Holds(s, p + r, d)
<1> DEFINE n == Len(d)
           m == Len(c)
<1>1. n \in Nat /\ m \in Nat /\ Len(s) \in Nat
  OBVIOUS
<1>2. p + m <= Len(s) /\ \A x \in 1..m : s[p + x] = c[x]
  BY DEF Holds
<1>3. r + n <= m /\ \A x \in 1..n : c[r + x] = d[x]
  BY DEF Holds
<1> HIDE DEF n, m
<1>4. (p + r) + n <= Len(s)
  BY <1>1, <1>2, <1>3
<1>5. ASSUME NEW x \in 1..n PROVE s[(p + r) + x] = d[x]
  <2>1. r + x \in 1..m /\ p + (r + x) = (p + r) + x
    BY <1>1, <1>3
  <2> QED
    BY <1>2, <1>3, <2>1
<1> QED
  BY <1>4, <1>5 DEF Holds, n

LEMMA HoldsBoth ==
  ASSUME NEW S, NEW a \in Seq(S), NEW b \in Seq(S)
  PROVE  Holds(a \o b, 0, a) /\ Holds(a \o b, Len(a), b)
<1>1. /\ Len(a) \in Nat /\ Len(b) \in Nat
      /\ Len(a \o b) = Len(a) + Len(b)
      /\ \A x \in 1..Len(a) : (a \o b)[x] = a[x]
      /\ \A x \in 1..Len(b) : (a \o b)[Len(a) + x] = b[x]
  BY Glued
<1>2. ASSUME NEW x \in 1..Len(a) PROVE (a \o b)[0 + x] = a[x]
  <2>1. 0 + x = x
    BY <1>1
  <2> QED
    BY <1>1, <2>1
<1>3. 0 + Len(a) <= Len(a \o b) /\ Len(a) + Len(b) <= Len(a \o b)
  BY <1>1
<1> QED
  BY <1>1, <1>2, <1>3, Zenon DEF Holds

LEMMA HoldsOne ==
  ASSUME NEW s, NEW p, NEW v, Holds(s, p, <<v>>), p \in Nat, Len(s) \in Nat
  PROVE  s[p + 1] = v /\ p < Len(s)
<1>1. Len(<<v>>) = 1 /\ <<v>>[1] = v
  OBVIOUS
<1> DEFINE d == <<v>>
<1> HIDE DEF d
<1>2. Len(d) = 1 /\ d[1] = v
  BY <1>1 DEF d
<1>3. p + Len(d) <= Len(s) /\ \A x \in 1..Len(d) : s[p + x] = d[x]
  BY DEF Holds, d
<1> QED
  BY <1>2, <1>3

\* What stands at p and at p + 1.
LEMMA HoldsTwo ==
  ASSUME NEW s, NEW p, NEW v, NEW w, Holds(s, p, <<v, w>>), p \in Nat, Len(s) \in Nat
  PROVE  s[p + 1] = v /\ s[p + 2] = w /\ p + 2 <= Len(s)
<1> DEFINE d == <<v, w>>
<1>1. Len(d) = 2 /\ d[1] = v /\ d[2] = w
  OBVIOUS
<1>2. p + Len(d) <= Len(s) /\ \A x \in 1..Len(d) : s[p + x] = d[x]
  BY DEF Holds
<1> HIDE DEF d
<1> QED
  BY <1>1, <1>2

----
(***************************************************************************)
(* Strings after their lengths.                                            *)
(***************************************************************************)

\* Where each string begins, and the last one ends.
Places(c, off, ss, n) ==
  /\ off \in [1..(n + 1) -> Nat]
  /\ off[1] = 0 /\ off[n + 1] = Len(c)
  /\ \A i \in 1..n : /\ off[i + 1] = off[i] + 1 + Len(ss[i])
                     /\ Holds(c, off[i], <<Len(ss[i])>> \o ss[i])

LEMMA CountedString ==
  ASSUME NEW s \in CharacterString
  PROVE  /\ s \in Seq(Octet) /\ <<Len(s)>> \in Seq(Octet) /\ Len(<<Len(s)>>) = 1
         /\ Len(s) \in 1..255
         /\ <<Len(s)>> \o s \in Seq(Octet)
         /\ Len(<<Len(s)>> \o s) = 1 + Len(s)
<1>1. s \in Seq(Octet) /\ Len(s) \in 1..255
  BY DEF CharacterString
<1>2. Len(s) \in Octet
  BY <1>1 DEF Octet
<1>3. \A v \in Octet : <<v>> \in Seq(Octet) /\ Len(<<v>>) = 1
  OBVIOUS
<1>4. Len(<<Len(s)>> \o s) = Len(<<Len(s)>>) + Len(s) /\ <<Len(s)>> \o s \in Seq(Octet)
  BY <1>1, <1>2, <1>3, Glued
<1> QED
  BY <1>1, <1>2, <1>3, <1>4, Zenon

\* One more string.
LEMMA PlacesNext ==
  ASSUME NEW n \in Nat, NEW ss, NEW c \in Seq(Octet), NEW off, Places(c, off, ss, n),
         \A i \in 1..(n + 1) : ss[i] \in CharacterString
  PROVE  \E new : Places(c \o (<<Len(ss[n + 1])>> \o ss[n + 1]), new, ss, n + 1)
<1> DEFINE e == <<Len(ss[n + 1])>> \o ss[n + 1]
           d == c \o e
           k == Len(ss[n + 1])
           new == [i \in 1..(n + 2) |-> IF i <= n + 1 THEN off[i] ELSE off[n + 1] + 1 + k]
<1>1. n + 1 \in 1..(n + 1) /\ n + 2 = (n + 1) + 1
  OBVIOUS
<1>2. e \in Seq(Octet) /\ k \in Nat /\ Len(e) = 1 + k
  BY <1>1, CountedString
<1> HIDE DEF e, k
<1>3. d \in Seq(Octet) /\ Len(d) = Len(c) + 1 + k
  BY <1>2
<1>4. Holds(d, 0, c) /\ Holds(d, Len(c), e)
  BY <1>2, HoldsBoth
<1>5. /\ off \in [1..(n + 1) -> Nat] /\ off[1] = 0 /\ off[n + 1] = Len(c)
      /\ \A i \in 1..n : off[i + 1] = off[i] + 1 + Len(ss[i])
      /\ \A i \in 1..n : Holds(c, off[i], <<Len(ss[i])>> \o ss[i])
  BY DEF Places
<1> HIDE DEF d
<1>6. \A i \in 1..(n + 1) : new[i] = off[i]
  OBVIOUS
<1>7. new[n + 2] = off[n + 1] + 1 + k
  OBVIOUS
<1>8. new \in [1..(n + 2) -> Nat]
  BY <1>2, <1>5
<1> HIDE DEF new
<1>9. ASSUME NEW i \in 1..(n + 1)
      PROVE  /\ new[i + 1] = new[i] + 1 + Len(ss[i])
             /\ Holds(d, new[i], <<Len(ss[i])>> \o ss[i])
  <2>1. CASE i = n + 1
    <3>1. new[i] = Len(c) /\ new[i + 1] = off[n + 1] + 1 + k
      BY <1>1, <1>5, <1>6, <1>7, <2>1
    <3> QED
      BY <1>4, <1>5, <2>1, <3>1 DEF e, k
  <2>2. CASE i # n + 1
    <3>1. i \in 1..n /\ i + 1 \in 1..(n + 1)
      BY <2>2
    <3>2. new[i] = off[i] /\ new[i + 1] = off[i + 1]
      BY <1>6, <3>1
    <3>3. Holds(c, off[i], <<Len(ss[i])>> \o ss[i])
      BY <1>5, <3>1
    <3>4. off[i] \in Nat /\ <<Len(ss[i])>> \o ss[i] \in Seq(Octet)
      BY <1>5, CountedString
    <3>5. Holds(d, 0 + off[i], <<Len(ss[i])>> \o ss[i])
      BY <1>3, <1>4, <3>3, <3>4, HoldsInside
    <3>6. 0 + off[i] = off[i]
      BY <3>4
    <3> QED
      BY <1>5, <3>1, <3>2, <3>5, <3>6
  <2> QED
    BY <2>1, <2>2
<1>10. new[(n + 1) + 1] = Len(d) /\ new[1] = 0
  <2>1. 1 \in 1..(n + 1)
    OBVIOUS
  <2>2. Len(c) \in Nat
    OBVIOUS
  <2> QED
    BY <1>1, <1>2, <1>3, <1>5, <1>6, <1>7, <2>1, <2>2
<1> QED
  BY <1>1, <1>8, <1>9, <1>10 DEF Places, d, e

LEMMA CountedPlaces ==
  ASSUME NEW ss \in Seq(CharacterString)
  PROVE  Counted(ss) \in Seq(Octet) /\ \E off : Places(Counted(ss), off, ss, Len(ss))
<1> DEFINE ts == [i \in DOMAIN ss |-> <<Len(ss[i])>> \o ss[i]]
           N == Len(ss)
<1>1. N \in Nat /\ DOMAIN ss = 1..N /\ \A i \in 1..N : ss[i] \in CharacterString
  OBVIOUS
<1>2. ts \in Seq(Seq(Octet)) /\ Len(ts) = N /\ \A i \in 1..N : ts[i] = <<Len(ss[i])>> \o ss[i]
  <2>1. \A i \in 1..N : <<Len(ss[i])>> \o ss[i] \in Seq(Octet)
    BY <1>1, CountedString
  <2> DEFINE v(i) == <<Len(ss[i])>> \o ss[i]
  <2> HIDE DEF v, N
  <2>2. \A i \in 1..N : v(i) \in Seq(Octet)
    BY <2>1 DEF v
  <2>3. [i \in 1..N |-> v(i)] \in Seq(Seq(Octet)) /\ Len([i \in 1..N |-> v(i)]) = N
    BY <1>1, <2>2
  <2>4. ts = [i \in 1..N |-> v(i)]
    BY <1>1 DEF v
  <2>5. \A i \in 1..N : ts[i] = v(i)
    BY <2>4
  <2> QED
    BY <2>3, <2>4, <2>5 DEF v
<1>3. Counted(ss) = FlattenSeq(ts)
  BY DEF Counted
<1> HIDE DEF ts, N
<1>4. Counted(ss) \in Seq(Octet)
  BY <1>2, <1>3, FlattenType
<1>5. CASE N = 0
  <2>1. ts = <<>>
    BY <1>2, <1>5, EmptySeq
  <2>2. FlattenSeq(ts) = <<>>
    BY <2>1, Zenon, EmptyLength DEF FlattenSeq
  <2> DEFINE off == [i \in 1..1 |-> 0]
  <2>3. off \in [1..(0 + 1) -> Nat] /\ off[1] = 0 /\ off[0 + 1] = 0
    OBVIOUS
  <2> HIDE DEF off
  <2>4. Places(<<>>, off, ss, 0)
    BY <2>3, EmptyLength DEF Places
  <2> QED
    BY <1>3, <1>4, <1>5, <2>2, <2>4 DEF N
<1>6. CASE N # 0
  <2>1. ts # <<>>
    BY <1>2, <1>6, EmptyLength
  <2>2. PICK f \in [1..N -> Seq(Octet)] : Gathers(f, ts, N) /\ FlattenSeq(ts) = f[N]
    BY <1>2, <2>1, Flattening
  <2> DEFINE T == {n \in 1..N : \E off : Places(f[n], off, ss, n)}
  <2>3. 1 \in T
    <3>1. 1 \in 1..N /\ f[1] = <<Len(ss[1])>> \o ss[1]
      BY <1>1, <1>2, <1>6, <2>2 DEF Gathers
    <3> DEFINE off == [i \in 1..1 |-> 0]
    <3>2. off \in [1..(0 + 1) -> Nat] /\ off[1] = 0 /\ off[0 + 1] = 0
      OBVIOUS
    <3> HIDE DEF off
    <3>3. Places(<<>>, off, ss, 0)
      BY <3>2, EmptyLength DEF Places
    <3>4. \A i \in 1..(0 + 1) : ss[i] \in CharacterString
      BY <1>1, <3>1
    <3>5. \E new : Places(<<>> \o (<<Len(ss[0 + 1])>> \o ss[0 + 1]), new, ss, 0 + 1)
      BY <3>3, <3>4, PlacesNext, EmptySeq, Zenon
    <3>6. <<>> \o (<<Len(ss[1])>> \o ss[1]) = <<Len(ss[1])>> \o ss[1]
      BY <1>1, <3>1, CountedString
    <3>7. 0 + 1 = 1
      OBVIOUS
    <3>8. \E new : Places(f[1], new, ss, 1)
      BY <3>1, <3>5, <3>6, <3>7
    <3> QED
      BY <3>1, <3>8
  <2>4. ASSUME NEW n \in 1..(N - 1), n \in T PROVE n + 1 \in T
    <3>1. PICK off : Places(f[n], off, ss, n)
      BY <2>4
    <3>2. n \in Nat /\ n \in 1..N /\ n + 1 \in 1..N /\ n + 1 \in 2..N /\ (n + 1) - 1 = n
      BY <1>1
    <3>3. \A i \in 1..(n + 1) : ss[i] \in CharacterString
      BY <1>1, <3>2
    <3>4. f[n] \in Seq(Octet)
      BY <2>2, <3>2
    <3>5. \E new : Places(f[n] \o (<<Len(ss[n + 1])>> \o ss[n + 1]), new, ss, n + 1)
      BY <3>1, <3>2, <3>3, <3>4, PlacesNext
    <3>6. f[n + 1] = f[n] \o (<<Len(ss[n + 1])>> \o ss[n + 1])
      BY <1>2, <2>2, <3>2 DEF Gathers
    <3> QED
      BY <3>2, <3>5, <3>6
  <2>5. 1..N \subseteq T
    <3> HIDE DEF T
    <3> QED
      BY <1>1, <2>3, <2>4, UpTo
  <2>6. N \in T
    <3> HIDE DEF T
    <3> QED
      BY <1>1, <1>6, <2>5
  <2> QED
    BY <1>3, <1>4, <2>2, <2>6 DEF N
<1> QED
  BY <1>5, <1>6

----
(***************************************************************************)
(* Names, read where they stand.                                           *)
(***************************************************************************)
EndOctets(name) == IF name.compressed THEN <<192, 12>> ELSE <<0>>

LEMMA LabelsAreStrings ==
  ASSUME NEW name \in Name
  PROVE  /\ name.labels \in Seq(CharacterString) /\ name.labels \in Seq(Label)
         /\ \A i \in 1..Len(name.labels) :
              name.labels[i] \in Seq(Octet) /\ Len(name.labels[i]) \in 1..63
<1>1. name.labels \in Seq(Label) /\ Label \subseteq CharacterString
  BY DEF Name, Label, CharacterString
<1>2. \A i \in 1..Len(name.labels) : name.labels[i] \in Label
  BY <1>1
<1>3. \A l \in Label : l \in Seq(Octet) /\ Len(l) \in 1..63
  BY DEF Label
<1> HIDE DEF Label
<1>4. name.labels \in Seq(CharacterString)
  <2>1. \A T \in SUBSET CharacterString : \A s \in Seq(T) : s \in Seq(CharacterString)
    OBVIOUS
  <2> QED
    BY <1>1, <2>1
<1> QED
  BY <1>1, <1>2, <1>3, <1>4

LEMMA EndsAre ==
  ASSUME NEW name
  PROVE  EndOctets(name) \in Seq(Octet) /\ Len(EndOctets(name)) = IF name.compressed THEN 2 ELSE 1
<1>1. <<192, 12>> \in Seq(Octet) /\ Len(<<192, 12>>) = 2
  BY DEF Octet
<1>2. <<0>> \in Seq(Octet) /\ Len(<<0>>) = 1
  BY DEF Octet
<1> QED
  BY <1>1, <1>2 DEF EndOctets

\* A name of its octets: where the labels begin, and where the end stands.
Spelled(p, name, off, n) ==
  /\ off \in [1..(n + 1) -> Nat] /\ off[1] = 0
  /\ \A i \in 1..n :
       LET q == p + off[i] IN
       /\ At(q) = Len(name.labels[i]) /\ q < Len(msg)
       /\ Piece(q) = name.labels[i]
       /\ off[i + 1] = off[i] + 1 + Len(name.labels[i])
  /\ LET q == p + off[n + 1] IN
       /\ q < Len(msg)
       /\ IF name.compressed THEN At(q) = 192 /\ At(q + 1) = 12 /\ q + 1 < Len(msg) ELSE At(q) = 0
       /\ q + Len(EndOctets(name)) = p + Len(NameOctets(name))

\* A part of the message, cut out.
LEMMA CutOut ==
  ASSUME msg \in Seq(Octet), NEW s \in Seq(Octet), NEW q \in Nat, Holds(msg, q, s)
  PROVE  SubSeq(msg, q + 1, q + Len(s)) = s
<1>1. Len(s) \in Nat /\ Len(msg) \in Nat
  OBVIOUS
<1> DEFINE n == Len(s)
<1>2. q + n <= Len(msg) /\ \A x \in 1..n : msg[q + x] = s[x]
  BY DEF Holds
<1>3. s = [x \in 1..n |-> s[x]]
  OBVIOUS
<1> HIDE DEF n
<1>4. SubSeq(msg, q + 1, q + n) = [x \in 1..n |-> msg[q + x]]
  <2>1. \A x \in 1..n : (q + 1) + x - 1 = q + x
    BY <1>1 DEF n
  <2>2. SubSeq(msg, q + 1, q + n) = [x \in 1..((q + n) - (q + 1) + 1) |-> msg[(q + 1) + x - 1]]
    BY <1>1, <1>2 DEF n
  <2>3. (q + n) - (q + 1) + 1 = n
    BY <1>1 DEF n
  <2> QED
    BY <2>1, <2>2, <2>3
<1> QED
  BY <1>2, <1>3, <1>4 DEF n

LEMMA NameSpelled ==
  ASSUME msg \in Seq(Octet), NEW name \in Name, NEW p \in Nat, Holds(msg, p, NameOctets(name))
  PROVE  /\ NameOctets(name) \in Seq(Octet)
         /\ \E off : Spelled(p, name, off, Len(name.labels))
<1> DEFINE ls == name.labels
           c == Counted(ls)
           e == EndOctets(name)
           N == Len(ls)
<1>1. ls \in Seq(CharacterString)
  BY LabelsAreStrings
<1>2. c \in Seq(Octet) /\ \E off : Places(c, off, ls, N)
  <2> HIDE DEF ls
  <2> QED
    BY <1>1, CountedPlaces
<1>3. PICK off : Places(c, off, ls, N)
  BY <1>2
<1>4. NameOctets(name) = c \o e
  BY Zenon DEF NameOctets, EndOctets
<1>5. e \in Seq(Octet) /\ Len(e) = IF name.compressed THEN 2 ELSE 1
  BY EndsAre
<1>6. \A i \in 1..N : ls[i] \in Seq(Octet) /\ Len(ls[i]) \in 1..63 /\ ls[i] \in CharacterString
  <2>1. \A i \in 1..N : ls[i] \in CharacterString
    <3> HIDE DEF ls
    <3> QED
      BY <1>1
  <2> QED
    BY <2>1, LabelsAreStrings
<1>7. N \in Nat
  <2> HIDE DEF ls
  <2> QED
    BY <1>1
<1> HIDE DEF c, e, N
<1>8. Len(NameOctets(name)) = Len(c) + Len(e) /\ NameOctets(name) \in Seq(Octet)
  <2>1. c \in Seq(Octet) /\ e \in Seq(Octet)
    BY <1>2, <1>5
  <2>2. Len(c \o e) = Len(c) + Len(e) /\ c \o e \in Seq(Octet)
    BY <2>1, Glued, Zenon
  <2> QED
    BY <1>4, <2>2, Zenon
<1>9. Holds(msg, p, c) /\ Holds(msg, p + Len(c), e) /\ p + Len(c) \in Nat
  BY <1>2, <1>4, <1>5, HoldsParts
<1>10. /\ off \in [1..(N + 1) -> Nat] /\ off[1] = 0 /\ off[N + 1] = Len(c)
       /\ \A i \in 1..N : /\ off[i + 1] = off[i] + 1 + Len(ls[i])
                          /\ Holds(c, off[i], <<Len(ls[i])>> \o ls[i])
  BY <1>3 DEF Places
<1> HIDE DEF ls
<1>11. ASSUME NEW i \in 1..N
       PROVE  LET q == p + off[i] IN
              /\ At(q) = Len(ls[i]) /\ q < Len(msg)
              /\ Piece(q) = ls[i]
              /\ off[i + 1] = off[i] + 1 + Len(ls[i])
  <2> DEFINE q == p + off[i]
             s == ls[i]
             b == <<Len(s)>>
  <2>1. off[i] \in Nat /\ q \in Nat
    BY <1>7, <1>10
  <2>2. b \in Seq(Octet) /\ s \in Seq(Octet) /\ b \o s \in Seq(Octet) /\ Len(b) = 1 /\ Len(s) \in 1..255
    BY <1>6, CountedString
  <2>3. Holds(c, off[i], b \o s)
    BY <1>10
  <2> HIDE DEF s
  <2>4. Holds(msg, q, b \o s)
    BY <1>2, <1>9, <2>1, <2>2, <2>3, HoldsInside
  <2> HIDE DEF q
  <2>5. Holds(msg, q, b) /\ Holds(msg, q + Len(b), s)
    BY <2>1, <2>2, <2>4, HoldsParts
  <2>6. msg[q + 1] = Len(s) /\ q < Len(msg)
    BY <2>1, <2>5, HoldsOne
  <2> HIDE DEF b
  <2>7. Holds(msg, q + 1, s) /\ q + 1 \in Nat
    BY <2>1, <2>2, <2>5
  <2>8. SubSeq(msg, (q + 1) + 1, (q + 1) + Len(s)) = s
    BY <2>2, <2>7, CutOut
  <2>9. (q + 1) + 1 = q + 2 /\ (q + 1) + Len(s) = q + 1 + Len(s)
    BY <2>1, <2>2
  <2>10. At(q) = Len(s)
    BY <2>6 DEF At
  <2>11. Piece(q) = s
    BY <2>8, <2>9, <2>10 DEF Piece
  <2> QED
    BY <1>10, <2>6, <2>10, <2>11 DEF q, s
<1>12. LET q == p + off[N + 1] IN
         /\ q < Len(msg)
         /\ IF name.compressed THEN At(q) = 192 /\ At(q + 1) = 12 /\ q + 1 < Len(msg) ELSE At(q) = 0
         /\ q + Len(e) = p + Len(NameOctets(name))
  <2> DEFINE q == p + off[N + 1]
  <2>1. q \in Nat /\ Holds(msg, q, e) /\ q + Len(e) = p + Len(NameOctets(name))
    <3>1. Len(c) \in Nat /\ Len(e) \in Nat
      BY <1>2, <1>5
    <3> QED
      BY <1>8, <1>9, <1>10, <3>1
  <2> HIDE DEF q
  <2>2. CASE name.compressed
    <3>1. Holds(msg, q, <<192, 12>>)
      BY <2>1, <2>2 DEF e, EndOctets
    <3>2. msg[q + 1] = 192 /\ msg[q + 2] = 12 /\ q + 2 <= Len(msg)
      BY <2>1, <3>1, HoldsTwo
    <3>3. At(q) = 192 /\ At(q + 1) = 12 /\ q < Len(msg) /\ q + 1 < Len(msg)
      BY <2>1, <3>2 DEF At
    <3> QED
      BY <2>1, <2>2, <3>3 DEF q
  <2>3. CASE ~name.compressed
    <3>1. Holds(msg, q, <<0>>)
      BY <2>1, <2>3 DEF e, EndOctets
    <3>2. msg[q + 1] = 0 /\ q < Len(msg)
      BY <2>1, <3>1, HoldsOne
    <3>3. At(q) = 0
      BY <3>2 DEF At
    <3> QED
      BY <2>1, <2>3, <3>2, <3>3 DEF q
  <2> QED
    BY <2>2, <2>3
<1> QED
  BY <1>8, <1>10, <1>11, <1>12, Zenon DEF Spelled, ls, N, e

\* Every parser is past the name where its octets end.
LEMMA NameSkipped ==
  ASSUME msg \in Seq(Octet), NEW name \in Name, NEW p \in Nat, Holds(msg, p, NameOctets(name))
  PROVE  AfterName(p) = p + Len(NameOctets(name))
<1> DEFINE N == Len(name.labels)
           z == p + Len(NameOctets(name))
<1>1. N \in Nat /\ \A i \in 1..N : Len(name.labels[i]) \in 1..63
  <2> DEFINE ls == name.labels
  <2>1. ls \in Seq(Label)
    BY LabelsAreStrings
  <2>2. Len(ls) \in Nat
    <3> HIDE DEF ls
    <3> QED
      BY <2>1
  <2> QED
    BY <2>2, LabelsAreStrings
<1>2. PICK off : Spelled(p, name, off, N)
  BY NameSpelled
<1> HIDE DEF N, z
<1>3. /\ off \in [1..(N + 1) -> Nat] /\ off[1] = 0
      /\ \A i \in 1..N : /\ At(p + off[i]) = Len(name.labels[i]) /\ p + off[i] < Len(msg)
                         /\ off[i + 1] = off[i] + 1 + Len(name.labels[i])
  BY <1>2, Zenon DEF Spelled
<1> DEFINE T == {k \in 1..(N + 1) : AfterName(p + off[(N + 2) - k]) = z}
<1>4. 1 \in T
  <2> DEFINE q == p + off[N + 1]
  <2>1. q \in Nat
    BY <1>1, <1>3
  <2>2. /\ q < Len(msg)
        /\ IF name.compressed THEN At(q) = 192 ELSE At(q) = 0
        /\ q + Len(EndOctets(name)) = z
    BY <1>2, Zenon DEF Spelled, z
  <2> HIDE DEF q
  <2>3. AfterName(q) = IF q >= Len(msg) THEN q
                       ELSE IF At(q) = 0 THEN q + 1
                       ELSE IF IsPointer(At(q)) THEN q + 2
                       ELSE AfterName(q + At(q) + 1)
    BY <2>1, AfterNameIs
  <2>4. ~(q >= Len(msg))
    <3>1. Len(msg) \in Nat
      OBVIOUS
    <3> QED
      BY <2>1, <2>2, <3>1
  <2>5. CASE name.compressed
    <3>1. At(q) = 192 /\ At(q) # 0 /\ IsPointer(At(q))
      BY <2>2, <2>5 DEF IsPointer
    <3>2. AfterName(q) = q + 2
      BY <2>3, <2>4, <3>1, Zenon
    <3>3. Len(EndOctets(name)) = 2
      BY <2>5, EndsAre
    <3> QED
      BY <1>1, <2>2, <3>2, <3>3 DEF q
  <2>6. CASE ~name.compressed
    <3>1. AfterName(q) = q + 1
      BY <2>2, <2>3, <2>4, <2>6, Zenon
    <3>2. Len(EndOctets(name)) = 1
      BY <2>6, EndsAre
    <3> QED
      BY <1>1, <2>2, <3>1, <3>2 DEF q
  <2> QED
    BY <2>5, <2>6
<1>5. ASSUME NEW k \in 1..((N + 1) - 1), k \in T PROVE k + 1 \in T
  <2> DEFINE i == (N + 1) - k
             q == p + off[i]
             l == Len(name.labels[i])
  <2>1. i \in 1..N /\ i + 1 = (N + 2) - k /\ i = (N + 2) - (k + 1) /\ k + 1 \in 1..(N + 1) /\ i \in 1..(N + 1)
    BY <1>1
  <2>2. AfterName(p + off[i + 1]) = z
    BY <1>5, <2>1
  <2> HIDE DEF i
  <2>3. At(q) = l /\ q < Len(msg) /\ off[i + 1] = off[i] + 1 + l /\ l \in 1..63 /\ off[i] \in Nat
    BY <1>1, <1>3, <2>1
  <2>4. q \in Nat /\ p + off[i + 1] = q + l + 1
    <3>1. \A o \in Nat, n \in 1..63 : p + o \in Nat /\ p + (o + 1 + n) = (p + o) + n + 1
      OBVIOUS
    <3> HIDE DEF l
    <3> QED
      BY <2>3, <3>1
  <2> HIDE DEF q, l
  <2>5. AfterName(q) = IF q >= Len(msg) THEN q
                       ELSE IF At(q) = 0 THEN q + 1
                       ELSE IF IsPointer(At(q)) THEN q + 2
                       ELSE AfterName(q + At(q) + 1)
    BY <2>4, AfterNameIs
  <2>6. ~(q >= Len(msg)) /\ At(q) # 0 /\ ~IsPointer(At(q))
    <3>1. Len(msg) \in Nat
      OBVIOUS
    <3> QED
      BY <2>3, <2>4, <3>1 DEF IsPointer
  <2>7. AfterName(q) = AfterName(q + l + 1)
    BY <2>3, <2>5, <2>6, Zenon
  <2> QED
    BY <2>1, <2>2, <2>4, <2>7 DEF q
<1>6. N + 1 \in T
  <2>1. N + 1 \in Nat /\ N + 1 \in 1..(N + 1)
    BY <1>1
  <2> HIDE DEF T
  <2>2. 1..(N + 1) \subseteq T
    BY <1>4, <1>5, <2>1, UpTo
  <2> QED
    BY <2>1, <2>2, Zenon
<1>7. (N + 2) - (N + 1) = 1 /\ p + 0 = p
  BY <1>1
<1> QED
  BY <1>3, <1>6, <1>7 DEF z

\* What a parser makes of a name: C# leaves off what a pointer stands for.
Understood(name) == IF Library = "csharp" THEN name.labels ELSE Whole(name)

\* The elements from the i-th on.
From(s, i) == SubSeq(s, i, Len(s))
StepOn(s, i, tail) == <<s[i]>> \o (From(s, i + 1) \o tail) = From(s, i) \o tail

LEMMA SuffixStep ==
  ASSUME NEW S, NEW s \in Seq(S), NEW i \in 1..Len(s), NEW tail \in Seq(S)
  PROVE  StepOn(s, i, tail)
<1> DEFINE n == Len(s)
<1>0. n \in Nat /\ i \in 1..n
  OBVIOUS
<1> HIDE DEF n
<1> DEFINE b == SubSeq(s, i + 1, n)
           c == SubSeq(s, i, n)
           a == <<s[i]>>
<1>1. a \in Seq(S) /\ b \in Seq(S) /\ Len(a) = 1 /\ a[1] = s[i]
  <2>1. s[i] \in S
    BY <1>0 DEF n
  <2>2. b \in Seq(S)
    BY <1>0 DEF n
  <2> QED
    BY <2>1, <2>2
<1>2. c \in Seq(S) /\ Len(c) = n - i + 1 /\ \A x \in 1..(n - i + 1) : c[x] = s[i + x - 1]
  BY <1>0 DEF n
<1>3. Len(b) = n - i /\ \A x \in 1..(n - i) : b[x] = s[(i + 1) + x - 1]
  BY <1>0 DEF n
<1> HIDE DEF a, b, c
<1> DEFINE d == a \o b
           k == n - i + 1
<1>4. d \in Seq(S)
  BY <1>1
<1>5. Len(d) = 1 + Len(b) /\ d[1] = a[1]
  BY <1>1, GluedToOne, Zenon
<1>6. \A x \in 1..Len(b) : d[1 + x] = b[x]
  BY <1>1, GluedToOne, Zenon
<1> HIDE DEF d
<1>7. ASSUME NEW x \in 1..k PROVE d[x] = c[x]
  <2>1. CASE x = 1
    <3>1. i + 1 - 1 = i /\ 1 \in 1..k
      BY <1>0
    <3> QED
      BY <1>1, <1>2, <1>5, <2>1, <3>1
  <2>2. CASE x # 1
    <3> DEFINE y == x - 1
    <3>1. y \in 1..(n - i) /\ 1 + y = x /\ (i + 1) + y - 1 = i + x - 1
      BY <1>0, <2>2
    <3> HIDE DEF y
    <3>2. d[x] = b[y]
      BY <1>1, <1>3, <1>6, <3>1
    <3> QED
      BY <1>2, <1>3, <3>1, <3>2
  <2> QED
    BY <2>1, <2>2
<1>8. k \in Nat /\ Len(d) = k /\ Len(c) = k
  BY <1>0, <1>2, <1>3, <1>5
<1> HIDE DEF k
<1>9. d = [x \in 1..k |-> d[x]] /\ c = [x \in 1..k |-> c[x]]
  BY <1>2, <1>4, <1>8, Elements
<1>10. d = c
  BY <1>7, <1>9
<1>11. a \o (b \o tail) = d \o tail
  BY <1>1 DEF d
<1> QED
  BY <1>10, <1>11, Zenon DEF a, b, c, n, From, StepOn

LEMMA SuffixEnds ==
  ASSUME NEW S, NEW s \in Seq(S)
  PROVE  From(s, 1) = s /\ From(s, Len(s) + 1) = <<>>
  BY DEF From

LEMMA TailOfName ==
  ASSUME NEW name \in Name
  PROVE  LET tail == IF name.compressed /\ Library # "csharp" THEN << <<120>> >> ELSE <<>>
         IN tail \in Seq(Seq(Octet)) /\ Understood(name) = name.labels \o tail
<1> DEFINE ls == name.labels
<1>1. ls \in Seq(Label)
  BY LabelsAreStrings
<1>2. ls \o <<>> = ls
  <2> HIDE DEF ls
  <2> QED
    BY <1>1
<1>3. << <<120>> >> \in Seq(Seq(Octet)) /\ <<>> \in Seq(Seq(Octet))
  BY DEF Octet
<1> QED
  BY <1>2, <1>3, Zenon DEF Understood, Whole

\* The question, where a pointer of the model points.
QuestionAt == Holds(msg, 12, <<1, 120, 0>>)

LEMMA QuestionRead ==
  ASSUME msg \in Seq(Octet), QuestionAt, NEW h, NEW jumps \in 0..MaxJumps,
         \A q \in Nat : Reads(h, q, jumps)
  PROVE  h[<<12, jumps>>] = << <<120>> >>
<1>1. 12 + 3 <= Len(msg) /\ msg[13] = 1 /\ msg[14] = 120 /\ msg[15] = 0
  <2> DEFINE d == <<1, 120, 0>>
  <2>1. Len(d) = 3 /\ d[1] = 1 /\ d[2] = 120 /\ d[3] = 0
    OBVIOUS
  <2>2. 12 + Len(d) <= Len(msg) /\ \A x \in 1..Len(d) : msg[12 + x] = d[x]
    BY DEF QuestionAt, Holds
  <2> HIDE DEF d
  <2>3. 1 \in 1..Len(d) /\ 2 \in 1..Len(d) /\ 3 \in 1..Len(d) /\ 12 + 1 = 13 /\ 12 + 2 = 14 /\ 12 + 3 = 15
    BY <2>1
  <2>4. msg[12 + 1] = d[1] /\ msg[12 + 2] = d[2] /\ msg[12 + 3] = d[3]
    BY <2>2, <2>3
  <2> QED
    BY <2>1, <2>2, <2>3, <2>4
<1>2. At(12) = 1 /\ At(14) = 0
  BY <1>1 DEF At
<1>3. Piece(12) = <<120>>
  <2>1. Holds(msg, 13, <<120>>)
    <3> DEFINE d == <<120>>
    <3>1. Len(d) = 1 /\ d[1] = 120
      OBVIOUS
    <3>2. Len(msg) \in Nat
      OBVIOUS
    <3> HIDE DEF d
    <3>3. 13 + Len(d) <= Len(msg) /\ \A x \in 1..Len(d) : msg[13 + x] = d[x]
      BY <1>1, <3>1, <3>2
    <3> QED
      BY <3>3 DEF Holds, d
  <2>2. <<120>> \in Seq(Octet) /\ Len(<<120>>) = 1
    BY DEF Octet
  <2>3. SubSeq(msg, 13 + 1, 13 + Len(<<120>>)) = <<120>>
    BY <2>1, <2>2, CutOut
  <2>4. SubSeq(msg, 14, 14) = <<120>>
    BY <2>2, <2>3
  <2>5. 12 + 2 = 14 /\ 12 + 1 + 1 = 14
    OBVIOUS
  <2> QED
    BY <1>2, <2>4, <2>5, Zenon DEF Piece
<1>4. ~(14 >= Len(msg)) /\ ~(12 >= Len(msg)) /\ 12 + At(12) + 1 = 14 /\ ~IsPointer(At(12)) /\ At(12) # 0
  BY <1>1, <1>2 DEF IsPointer
<1>5. h[<<14, jumps>>] = <<>>
  <2>1. Reads(h, 14, jumps)
    OBVIOUS
  <2> QED
    BY <1>2, <2>1, Zenon DEF Reads
<1>6. h[<<12, jumps>>] = <<Piece(12)>> \o h[<<14, jumps>>]
  <2>1. Reads(h, 12, jumps)
    OBVIOUS
  <2>2. h[<<12, jumps>>] = <<Piece(12)>> \o h[<<12 + At(12) + 1, jumps>>]
    BY <1>4, <2>1, Zenon DEF Reads
  <2>3. <<12 + At(12) + 1, jumps>> = <<14, jumps>>
    BY <1>4, Zenon
  <2> QED
    BY <2>2, <2>3, Zenon
<1>7. << <<120>> >> \o <<>> = << <<120>> >>
  OBVIOUS
<1> QED
  BY <1>3, <1>5, <1>6, <1>7, Zenon

\* Every parser reads a name that stands in the reply, but for C# what a
\* pointer stands for.
LEMMA NameRead ==
  ASSUME msg \in Seq(Octet), QuestionAt, NEW name \in Name, NEW p \in Nat,
         Holds(msg, p, NameOctets(name))
  PROVE  NameAt(p) = Understood(name)
<1> DEFINE ls == name.labels
           N == Len(name.labels)
           tail == IF name.compressed /\ Library # "csharp" THEN << <<120>> >> ELSE <<>>
<1>1. /\ ls \in Seq(Seq(Octet)) /\ N \in Nat /\ tail \in Seq(Seq(Octet))
      /\ Understood(name) = ls \o tail
      /\ \A i \in 1..N : ls[i] \in Seq(Octet) /\ Len(ls[i]) \in 1..63
  <2>1. ls \in Seq(Label) /\ Label \subseteq Seq(Octet)
    BY LabelsAreStrings DEF Label
  <2>2. ls \in Seq(Seq(Octet)) /\ N \in Nat
    <3> DEFINE A == Seq(Octet)
    <3> HIDE DEF ls, A
    <3>1. ls \in Seq(A) /\ Len(ls) \in Nat
      BY <2>1 DEF A
    <3> QED
      BY <3>1 DEF A, ls
  <2> QED
    BY <2>2, TailOfName, LabelsAreStrings
<1>2. PICK h : /\ NameAt(p) = h[<<p, 0>>]
               /\ \A q \in Nat, jumps \in 0..MaxJumps : Reads(h, q, jumps)
  BY NameAtIs
<1>3. PICK off : Spelled(p, name, off, N)
  BY NameSpelled
<1>4. 0 \in 0..MaxJumps /\ 1 \in 0..MaxJumps /\ 0 # MaxJumps
  BY DEF MaxJumps
<1> HIDE DEF N, tail
<1>5. /\ off \in [1..(N + 1) -> Nat] /\ off[1] = 0
      /\ \A i \in 1..N : /\ At(p + off[i]) = Len(ls[i]) /\ p + off[i] < Len(msg)
                         /\ Piece(p + off[i]) = ls[i]
                         /\ off[i + 1] = off[i] + 1 + Len(ls[i])
  BY <1>3, Zenon DEF Spelled
<1>6. h[<<p + off[N + 1], 0>>] = tail
  <2> DEFINE q == p + off[N + 1]
  <2>1. q \in Nat
    BY <1>1, <1>5
  <2>2. /\ q < Len(msg)
        /\ IF name.compressed THEN At(q) = 192 /\ At(q + 1) = 12 /\ q + 1 < Len(msg) ELSE At(q) = 0
    BY <1>3, Zenon DEF Spelled
  <2> HIDE DEF q
  <2>3. Reads(h, q, 0)
    BY <1>2, <1>4, <2>1
  <2>4. CASE ~name.compressed
    <3>1. tail = <<>>
      BY <2>4, Zenon DEF tail
    <3>2. h[<<q, 0>>] = <<>>
      BY <2>2, <2>3, <2>4, Zenon DEF Reads
    <3> QED
      BY <3>1, <3>2, Zenon DEF q
  <2>5. CASE name.compressed
    <3>1. ~(q >= Len(msg)) /\ At(q) # 0 /\ IsPointer(At(q)) /\ q + 1 # Len(msg)
      <4>1. Len(msg) \in Nat
        OBVIOUS
      <4> QED
        BY <2>1, <2>2, <2>5, <4>1 DEF IsPointer
    <3>2. Followed(q, 0) <=> Library # "csharp"
      BY <1>4, <3>1, Zenon DEF Followed
    <3>3. h[<<q, 0>>] = IF Followed(q, 0) THEN h[<<Pointed(q), 0 + 1>>] ELSE <<>>
      BY <2>3, <3>1, Zenon DEF Reads
    <3>4. Pointed(q) = 12
      BY <2>2, <2>5 DEF Pointed
    <3>5. h[<<12, 1>>] = << <<120>> >>
      BY <1>2, <1>4, QuestionRead
    <3>6. 0 + 1 = 1
      OBVIOUS
    <3>7. h[<<q, 0>>] = IF Library # "csharp" THEN << <<120>> >> ELSE <<>>
      BY <3>2, <3>3, <3>4, <3>5, <3>6, Zenon
    <3> QED
      BY <2>5, <3>7, Zenon DEF tail, q
  <2> QED
    BY <2>4, <2>5
<1> HIDE DEF ls
<1> DEFINE T == {k \in 1..(N + 1) :
                  h[<<p + off[(N + 2) - k], 0>>] = From(ls, (N + 2) - k) \o tail}
<1>7. N = Len(ls)
  BY DEF N, ls
<1>8. 1 \in T
  <2>1. (N + 2) - 1 = N + 1 /\ 1 \in 1..(N + 1)
    BY <1>1
  <2>2. From(ls, N + 1) = <<>>
    BY <1>1, <1>7, SuffixEnds
  <2>3. <<>> \o tail = tail
    BY <1>1
  <2> QED
    BY <1>6, <2>1, <2>2, <2>3
<1>9. ASSUME NEW k \in 1..((N + 1) - 1), k \in T PROVE k + 1 \in T
  <2> DEFINE i == (N + 1) - k
             q == p + off[i]
             l == Len(ls[i])
  <2>1. i \in 1..N /\ i + 1 = (N + 2) - k /\ i = (N + 2) - (k + 1) /\ k + 1 \in 1..(N + 1) /\ i \in 1..(N + 1)
    BY <1>1
  <2>2. h[<<p + off[i + 1], 0>>] = From(ls, i + 1) \o tail
    BY <1>9, <2>1
  <2> HIDE DEF i, T
  <2>3. /\ At(q) = l /\ q < Len(msg) /\ Piece(q) = ls[i]
        /\ off[i + 1] = off[i] + 1 + l /\ l \in 1..63 /\ off[i] \in Nat
    BY <1>1, <1>5, <2>1
  <2>4. q \in Nat /\ p + off[i + 1] = q + l + 1
    <3>1. \A o \in Nat, n \in 1..63 : p + o \in Nat /\ p + (o + 1 + n) = (p + o) + n + 1
      OBVIOUS
    <3> HIDE DEF l
    <3> QED
      BY <2>3, <3>1
  <2> HIDE DEF q, l
  <2>5. ~(q >= Len(msg)) /\ At(q) # 0 /\ ~IsPointer(At(q))
    <3>1. Len(msg) \in Nat
      OBVIOUS
    <3> QED
      BY <2>3, <2>4, <3>1 DEF IsPointer
  <2>6. Reads(h, q, 0)
    BY <1>2, <1>4, <2>4
  <2>7. h[<<q, 0>>] = <<Piece(q)>> \o h[<<q + At(q) + 1, 0>>]
    BY <2>5, <2>6, Zenon DEF Reads
  <2>8. h[<<q, 0>>] = <<ls[i]>> \o (From(ls, i + 1) \o tail)
    BY <2>2, <2>3, <2>4, <2>7, Zenon
  <2>9. <<ls[i]>> \o (From(ls, i + 1) \o tail) = From(ls, i) \o tail
    <3> DEFINE S == Seq(Octet)
    <3>1. ls \in Seq(S) /\ tail \in Seq(S) /\ N \in Nat
      BY <1>1
    <3> HIDE DEF S
    <3>2. StepOn(ls, i, tail)
      BY <1>7, <2>1, <3>1, SuffixStep
    <3> QED
      BY <3>2, Zenon DEF StepOn
  <2>10. h[<<q, 0>>] = From(ls, i) \o tail
    BY <2>8, <2>9, Zenon
  <2> QED
    BY <2>1, <2>10 DEF q, T
<1>10. N + 1 \in T
  <2>1. N + 1 \in Nat /\ N + 1 \in 1..(N + 1)
    BY <1>1
  <2> HIDE DEF T
  <2>2. 1..(N + 1) \subseteq T
    BY <1>8, <1>9, <2>1, UpTo
  <2> QED
    BY <2>1, <2>2, Zenon
<1>11. (N + 2) - (N + 1) = 1 /\ p + 0 = p
  BY <1>1
<1>12. h[<<p, 0>>] = From(ls, 1) \o tail
  BY <1>5, <1>10, <1>11
<1>13. From(ls, 1) = ls
  BY <1>1, <1>7, SuffixEnds
<1> QED
  BY <1>1, <1>2, <1>12, <1>13, Zenon

----
(***************************************************************************)
(* The answers, one after the other.                                       *)
(***************************************************************************)

\* The first k sequences, end to end.
Gathered(ss, k) == FlattenSeq(SubSeq(ss, 1, k))

LEMMA Prefix ==
  ASSUME NEW S, NEW ss \in Seq(S), NEW k \in 1..Len(ss)
  PROVE  LET s == SubSeq(ss, 1, k)
         IN s \in Seq(S) /\ s # <<>> /\ Len(s) = k /\ \A x \in 1..k : s[x] = ss[x]
<1> DEFINE s == SubSeq(ss, 1, k)
<1>1. s \in Seq(S) /\ Len(s) = k /\ \A x \in 1..k : s[x] = ss[x] /\ k # 0
  OBVIOUS
<1>2. s # <<>>
  <2> HIDE DEF s
  <2> QED
    BY <1>1, EmptyLength
<1> QED
  BY <1>1, <1>2

LEMMA GatheredNone ==
  ASSUME NEW ss
  PROVE  Gathered(ss, 0) = <<>>
<1>1. SubSeq(ss, 1, 0) = <<>>
  OBVIOUS
<1> QED
  BY <1>1, EmptyLength, Zenon DEF Gathered, FlattenSeq

LEMMA GatheredAll ==
  ASSUME NEW S, NEW ss \in Seq(S)
  PROVE  Gathered(ss, Len(ss)) = FlattenSeq(ss)
<1>1. SubSeq(ss, 1, Len(ss)) = ss
  OBVIOUS
<1> QED
  BY <1>1, Zenon DEF Gathered

LEMMA GatheredNext ==
  ASSUME NEW S, NEW ss \in Seq(Seq(S)), NEW k \in Nat, k < Len(ss)
  PROVE  /\ Gathered(ss, k) \in Seq(S) /\ Gathered(ss, k + 1) \in Seq(S) /\ ss[k + 1] \in Seq(S)
         /\ Gathered(ss, k + 1) = Gathered(ss, k) \o ss[k + 1]
<1> DEFINE B == Seq(S)
           b == SubSeq(ss, 1, k + 1)
<1>1. Len(ss) \in Nat /\ k + 1 \in 1..Len(ss) /\ 1 \in 1..(k + 1)
  OBVIOUS
<1>2. ss \in Seq(B)
  OBVIOUS
<1>3. ss[k + 1] \in B
  BY <1>1
<1> HIDE DEF B
<1>4. b \in Seq(B) /\ b # <<>> /\ Len(b) = k + 1 /\ \A x \in 1..(k + 1) : b[x] = ss[x]
  BY <1>1, <1>2, Prefix
<1> HIDE DEF b
<1>5. PICK f \in [1..(k + 1) -> Seq(S)] : Gathers(f, b, k + 1) /\ FlattenSeq(b) = f[k + 1]
  BY <1>4, Flattening DEF B
<1>6. f[k + 1] \in Seq(S) /\ Gathered(ss, k + 1) = f[k + 1]
  <2>1. k + 1 \in 1..(k + 1)
    OBVIOUS
  <2> QED
    BY <1>5, <2>1 DEF Gathered, b
<1>7. f[1] = b[1] /\ \A m \in 2..(k + 1) : f[m] = f[m - 1] \o b[m]
  BY <1>5, Zenon DEF Gathers
<1>8. CASE k = 0
  <2>1. Gathered(ss, k) = <<>>
    BY <1>8, GatheredNone
  <2>2. k + 1 = 1
    BY <1>8
  <2>3. f[k + 1] = ss[k + 1]
    <3>1. f[1] = ss[1]
      BY <1>1, <1>4, <1>7
    <3> QED
      BY <2>2, <3>1, Zenon
  <2>4. \A s \in Seq(S) : <<>> \o s = s /\ <<>> \in Seq(S)
    OBVIOUS
  <2>5. ss[k + 1] \in Seq(S)
    BY <1>3 DEF B
  <2> QED
    BY <1>6, <2>1, <2>3, <2>4, <2>5, Zenon
<1>9. CASE k # 0
  <2> DEFINE a == SubSeq(ss, 1, k)
  <2>1. k \in 1..Len(ss) /\ k \in 1..k
    BY <1>1, <1>9
  <2>2. a \in Seq(B) /\ a # <<>> /\ Len(a) = k /\ \A x \in 1..k : a[x] = ss[x]
    BY <1>2, <2>1, Prefix
  <2> HIDE DEF a
  <2>3. PICK g \in [1..k -> Seq(S)] : Gathers(g, a, k) /\ FlattenSeq(a) = g[k]
    BY <2>2, Flattening DEF B
  <2>4. g[1] = a[1] /\ \A m \in 2..k : g[m] = g[m - 1] \o a[m]
    BY <2>3, Zenon DEF Gathers
  <2>5. g[k] \in Seq(S) /\ Gathered(ss, k) = g[k]
    BY <2>1, <2>3 DEF Gathered, a
  <2> DEFINE T == {x \in 1..k : g[x] = f[x]}
  <2>6. 1 \in T
    <3>1. 1 \in 1..k /\ 1 \in 1..(k + 1)
      BY <1>9
    <3>2. a[1] = b[1]
      <4>1. \A x \in 1..(k + 1) : b[x] = ss[x]
        BY <1>4, Zenon
      <4>2. \A x \in 1..k : a[x] = ss[x]
        BY <2>2, Zenon
      <4>3. b[1] = ss[1]
        BY <3>1, <4>1
      <4>4. a[1] = ss[1]
        BY <3>1, <4>2
      <4> QED
        BY <4>3, <4>4, Zenon
    <3> QED
      BY <1>7, <2>4, <3>1, <3>2
  <2>7. ASSUME NEW m \in 1..(k - 1), m \in T PROVE m + 1 \in T
    <3>1. m + 1 \in 1..k /\ m + 1 \in 2..k /\ m + 1 \in 2..(k + 1) /\ m + 1 \in 1..(k + 1) /\ (m + 1) - 1 = m
      OBVIOUS
    <3>2. g[m + 1] = g[m] \o a[m + 1] /\ f[m + 1] = f[m] \o b[m + 1]
      <4>1. g[m + 1] = g[(m + 1) - 1] \o a[m + 1] /\ f[m + 1] = f[(m + 1) - 1] \o b[m + 1]
        BY <1>7, <2>4, <3>1, Zenon
      <4> QED
        BY <3>1, <4>1, Zenon
    <3>3. a[m + 1] = b[m + 1]
      BY <1>4, <2>2, <3>1
    <3> QED
      BY <2>7, <3>1, <3>2, <3>3
  <2>8. k \in T
    <3> HIDE DEF T
    <3>1. 1..k \subseteq T
      BY <2>6, <2>7, UpTo
    <3> QED
      BY <2>1, <3>1
  <2>9. f[k] = g[k]
    BY <2>8
  <2>10. k + 1 \in 2..(k + 1) /\ k + 1 \in 1..(k + 1) /\ (k + 1) - 1 = k
    BY <1>9
  <2>11. f[k + 1] = f[(k + 1) - 1] \o b[k + 1]
    BY <1>7, <2>10, Zenon
  <2>12. f[k + 1] = f[k] \o ss[k + 1]
    BY <1>4, <2>10, <2>11
  <2> QED
    BY <1>3, <1>6, <2>5, <2>9, <2>12 DEF B
<1> QED
  BY <1>8, <1>9

\* Each stands where those before it end.
LEMMA GatheredHolds ==
  ASSUME NEW S, NEW ss \in Seq(Seq(S)), NEW k \in Nat, k < Len(ss)
  PROVE  Holds(FlattenSeq(ss), Len(Gathered(ss, k)), ss[k + 1])
<1> DEFINE n == Len(ss) - k
           p == Len(Gathered(ss, k))
           T == {m \in 1..n : Gathered(ss, k + m) \in Seq(S) /\ Holds(Gathered(ss, k + m), p, ss[k + 1])}
<1>1. Len(ss) \in Nat /\ n \in Nat /\ n \in 1..n /\ 1 \in 1..n /\ k + n = Len(ss)
  OBVIOUS
<1>2. p \in Nat /\ ss[k + 1] \in Seq(S)
  <2>1. Gathered(ss, k) \in Seq(S) /\ ss[k + 1] \in Seq(S)
    BY GatheredNext
  <2> QED
    BY <2>1
<1>3. 1 \in T
  <2>1. /\ Gathered(ss, k) \in Seq(S) /\ Gathered(ss, k + 1) \in Seq(S)
        /\ Gathered(ss, k + 1) = Gathered(ss, k) \o ss[k + 1]
    BY GatheredNext
  <2>2. Holds(Gathered(ss, k) \o ss[k + 1], p, ss[k + 1])
    BY <1>2, <2>1, HoldsBoth
  <2> QED
    BY <1>1, <2>1, <2>2
<1> HIDE DEF n, p
<1>4. ASSUME NEW m \in 1..(n - 1), m \in T PROVE m + 1 \in T
  <2>1. k + m \in Nat /\ k + m < Len(ss) /\ (k + m) + 1 = k + (m + 1) /\ m + 1 \in 1..n
    BY <1>1
  <2>2. /\ Gathered(ss, (k + m) + 1) \in Seq(S) /\ Gathered(ss, k + m) \in Seq(S) /\ ss[(k + m) + 1] \in Seq(S)
        /\ Gathered(ss, (k + m) + 1) = Gathered(ss, k + m) \o ss[(k + m) + 1]
    BY <2>1, GatheredNext
  <2>3. Holds(Gathered(ss, k + m), p, ss[k + 1])
    BY <1>4
  <2>4. Holds(Gathered(ss, (k + m) + 1), 0, Gathered(ss, k + m))
    BY <2>2, HoldsBoth
  <2>5. Holds(Gathered(ss, (k + m) + 1), 0 + p, ss[k + 1])
    <3> DEFINE whole == Gathered(ss, (k + m) + 1)
               part == Gathered(ss, k + m)
               piece == ss[k + 1]
    <3>1. /\ whole \in Seq(S) /\ part \in Seq(S) /\ piece \in Seq(S) /\ 0 \in Nat /\ p \in Nat
          /\ Holds(whole, 0, part) /\ Holds(part, p, piece)
      BY <1>2, <2>2, <2>3, <2>4
    <3> HIDE DEF whole, part, piece, T
    <3>2. Holds(whole, 0 + p, piece)
      BY <3>1, HoldsInside
    <3> QED
      BY <3>2 DEF whole, piece
  <2>6. 0 + p = p
    BY <1>2
  <2> QED
    BY <2>1, <2>2, <2>5, <2>6
<1>5. n \in T
  <2> HIDE DEF T
  <2>1. 1..n \subseteq T
    BY <1>1, <1>3, <1>4, UpTo
  <2> QED
    BY <1>1, <2>1
<1>6. Gathered(ss, Len(ss)) = FlattenSeq(ss)
  BY GatheredAll
<1> QED
  BY <1>1, <1>5, <1>6 DEF p

----
(***************************************************************************)
(* An answer, read where it stands.                                        *)
(***************************************************************************)
Answer == ServiceAnswer \cup TextAnswer \cup AliasAnswer

LEMMA MaxUInt16Is == MaxUInt16 \in Nat /\ 33 <= MaxUInt16 /\ MaxUInt16 <= 65535
  BY DEF MaxUInt16

LEMMA Fields ==
  ASSUME NEW n \in UInt16
  PROVE  /\ Octets(n) \in Seq(Octet) /\ Len(Octets(n)) = 2
         /\ \E v, w \in Octet : Octets(n) = <<v, w>> /\ v * 256 + w = n
<1>1. n \in Nat /\ n <= 65535
  BY MaxUInt16Is DEF UInt16
<1>2. \E v \in Nat, w \in Octet : v = n \div 256 /\ w = n % 256 /\ n = v * 256 + w
  BY <1>1, SMTT(30) DEF Octet
<1>3. PICK v \in Nat, w \in Octet : v = n \div 256 /\ w = n % 256 /\ n = v * 256 + w
  BY <1>2, Zenon
<1>4. Octets(n) = <<v, w>>
  BY <1>3 DEF Octets
<1>5. v \in Octet
  BY <1>1, <1>3 DEF Octet
<1>6. <<v, w>> \in Seq(Octet) /\ Len(<<v, w>>) = 2
  BY <1>5
<1>7. Octets(n) \in Seq(Octet) /\ Len(Octets(n)) = 2
  BY <1>4, <1>6, Zenon
<1>8. \E x, y \in Octet : Octets(n) = <<x, y>> /\ x * 256 + y = n
  <2> WITNESS v \in Octet, w \in Octet
  <2>1. v * 256 + w = n
    BY <1>3
  <2> QED
    BY <1>4, <2>1
<1> QED
  BY <1>7, <1>8

LEMMA WordRead ==
  ASSUME msg \in Seq(Octet), NEW p \in Nat, NEW n \in UInt16, Holds(msg, p, Octets(n))
  PROVE  Word(p) = n
<1>1. PICK v, w \in Octet : Octets(n) = <<v, w>> /\ v * 256 + w = n
  BY Fields
<1>2. Holds(msg, p, <<v, w>>)
  BY <1>1, Zenon
<1>3. msg[p + 1] = v /\ msg[p + 2] = w
  <2>1. Len(msg) \in Nat
    OBVIOUS
  <2> QED
    BY <1>2, <2>1, HoldsTwo
<1>4. (p + 1) + 1 = p + 2
  OBVIOUS
<1>5. At(p) = v /\ At(p + 1) = w
  BY <1>3, <1>4, Zenon DEF At
<1> QED
  BY <1>1, <1>5 DEF Word

LEMMA NameTyped ==
  ASSUME NEW name \in Name
  PROVE  NameOctets(name) \in Seq(Octet) /\ Len(NameOctets(name)) >= 1
<1> DEFINE ls == name.labels
           c == Counted(ls)
           e == EndOctets(name)
<1>1. ls \in Seq(CharacterString)
  BY LabelsAreStrings
<1>2. c \in Seq(Octet)
  <2> HIDE DEF ls
  <2> QED
    BY <1>1, CountedPlaces
<1>3. e \in Seq(Octet) /\ Len(e) >= 1
  <2>1. e \in Seq(Octet) /\ Len(e) = IF name.compressed THEN 2 ELSE 1
    BY EndsAre, Zenon
  <2>2. 2 >= 1 /\ 1 >= 1
    OBVIOUS
  <2> QED
    BY <2>1, <2>2, Zenon
<1>4. NameOctets(name) = c \o e
  BY Zenon DEF NameOctets, EndOctets
<1> HIDE DEF c, e
<1>5. c \o e \in Seq(Octet) /\ Len(c \o e) >= 1
  <2>1. c \o e \in Seq(Octet) /\ Len(c \o e) = Len(c) + Len(e)
    BY <1>2, <1>3, Glued, Zenon
  <2>2. Len(c) \in Nat /\ Len(e) \in Nat
    BY <1>2, <1>3
  <2> QED
    BY <1>3, <2>1, <2>2
<1> QED
  BY <1>4, <1>5, Zenon

\* The first of the strings, with its length before it.
LEMMA CountedFirst ==
  ASSUME NEW ss \in Seq(CharacterString), ss # <<>>
  PROVE  /\ Counted(ss) \in Seq(Octet) /\ ss[1] \in CharacterString
         /\ Holds(Counted(ss), 0, <<Len(ss[1])>> \o ss[1])
         /\ Len(Counted(ss)) \in Nat /\ Len(Counted(ss)) >= 1 + Len(ss[1])
<1>1. Len(ss) \in Nat /\ 1 \in 1..Len(ss) /\ ss[1] \in CharacterString
  <2>1. Len(ss) \in Nat /\ Len(ss) # 0
    BY EmptySeq
  <2> QED
    BY <2>1
<1>2. Counted(ss) \in Seq(Octet)
  BY CountedPlaces
<1>3. PICK off : Places(Counted(ss), off, ss, Len(ss))
  BY CountedPlaces
<1>4. Holds(Counted(ss), 0, <<Len(ss[1])>> \o ss[1])
  BY <1>1, <1>3, Zenon DEF Places
<1>5. 0 + Len(<<Len(ss[1])>> \o ss[1]) <= Len(Counted(ss)) /\ Len(<<Len(ss[1])>> \o ss[1]) = 1 + Len(ss[1])
  BY <1>1, <1>4, CountedString DEF Holds
<1>6. Len(Counted(ss)) \in Nat /\ Len(ss[1]) \in Nat
  BY <1>1, <1>2, CountedString
<1> QED
  BY <1>1, <1>2, <1>4, <1>5, <1>6

\* The data of each type of answer.
LEMMA RdataIs ==
  ASSUME NEW a \in Answer
  PROVE  /\ Rdata(a) = IF a.type = SRV
                        THEN Octets(a.priority) \o Octets(a.weight) \o Octets(a.port) \o NameOctets(a.target)
                        ELSE IF a.type = TXT THEN Counted(a.strings)
                        ELSE NameOctets(a.target)
         /\ a.owner \in Name /\ a.type \in {SRV, TXT, CNAME}
         /\ a.type = SRV => /\ a.priority \in UInt16 /\ a.weight \in UInt16 /\ a.port \in UInt16
                            /\ a.target \in Name
         /\ a.type = TXT => a.strings \in Seq(CharacterString) /\ a.strings # <<>>
         /\ a.type = CNAME => a.target \in Name
         /\ SRV # TXT /\ SRV # CNAME /\ TXT # CNAME
<1>1. SRV # TXT /\ SRV # CNAME /\ TXT # CNAME
  BY DEF SRV, TXT, CNAME
<1>2. CASE a \in ServiceAnswer
  <2>1. /\ a.type = SRV /\ a.owner \in Name /\ a.priority \in UInt16 /\ a.weight \in UInt16
        /\ a.port \in UInt16 /\ a.target \in Name
    BY <1>2 DEF ServiceAnswer
  <2> QED
    BY <1>1, <2>1, Zenon DEF Rdata
<1>3. CASE a \in TextAnswer
  <2>1. /\ a.type = TXT /\ a.owner \in Name
        /\ a.strings \in Seq(CharacterString) /\ a.strings # <<>>
    BY <1>3 DEF TextAnswer
  <2> QED
    BY <1>1, <2>1, Zenon DEF Rdata
<1>4. CASE a \in AliasAnswer
  <2>1. a.type = CNAME /\ a.owner \in Name /\ a.target \in Name
    BY <1>4 DEF AliasAnswer
  <2> QED
    BY <1>1, <2>1, Zenon DEF Rdata
<1> QED
  BY <1>2, <1>3, <1>4 DEF Answer

LEMMA TypesAreWords == {SRV, TXT, CNAME} \subseteq UInt16
  BY MaxUInt16Is DEF SRV, TXT, CNAME, UInt16

LEMMA RdataTyped ==
  ASSUME NEW a \in Answer
  PROVE  /\ Rdata(a) \in Seq(Octet) /\ Len(Rdata(a)) \in Nat /\ Len(Rdata(a)) >= 1
         /\ a.type = SRV => Len(Rdata(a)) >= 7
<1> DEFINE r == Rdata(a)
<1>1. CASE a.type = SRV
  <2> DEFINE x == Octets(a.priority)
             y == Octets(a.weight)
             z == Octets(a.port)
             m == NameOctets(a.target)
  <2>1. r = x \o y \o z \o m
    BY <1>1, RdataIs
  <2>2. /\ x \in Seq(Octet) /\ Len(x) = 2 /\ y \in Seq(Octet) /\ Len(y) = 2
        /\ z \in Seq(Octet) /\ Len(z) = 2
    BY <1>1, RdataIs, Fields
  <2>3. m \in Seq(Octet) /\ Len(m) >= 1
    BY <1>1, RdataIs, NameTyped
  <2> HIDE DEF x, y, z, m
  <2> DEFINE xy == x \o y
             xyz == xy \o z
  <2>4. xy \in Seq(Octet) /\ Len(xy) = 2 + 2
    <3>1. xy \in Seq(Octet) /\ Len(xy) = Len(x) + Len(y)
      BY <2>2, Glued, Zenon
    <3> QED
      BY <2>2, <3>1, Zenon
  <2> HIDE DEF xy
  <2>5. xyz \in Seq(Octet) /\ Len(xyz) = (2 + 2) + 2
    <3>1. xyz \in Seq(Octet) /\ Len(xyz) = Len(xy) + Len(z)
      BY <2>2, <2>4, Glued, Zenon
    <3> QED
      BY <2>2, <2>4, <3>1, Zenon
  <2> HIDE DEF xyz
  <2>6. xyz \o m \in Seq(Octet) /\ Len(xyz \o m) = ((2 + 2) + 2) + Len(m)
    <3>1. xyz \o m \in Seq(Octet) /\ Len(xyz \o m) = Len(xyz) + Len(m)
      BY <2>3, <2>5, Glued, Zenon
    <3> QED
      BY <2>5, <3>1, Zenon
  <2>7. Len(m) \in Nat
    BY <2>3
  <2> HIDE DEF r
  <2>8. r \in Seq(Octet) /\ Len(r) = ((2 + 2) + 2) + Len(m)
    BY <2>1, <2>6, Zenon DEF xyz, xy
  <2>9. Len(r) \in Nat /\ Len(r) >= 7
    BY <2>3, <2>7, <2>8
  <2> QED
    BY <2>8, <2>9 DEF r
<1>2. CASE a.type = TXT
  <2> DEFINE ss == a.strings
  <2>1. ss \in Seq(CharacterString) /\ ss # <<>> /\ r = Counted(ss) /\ a.type # SRV
    BY <1>2, RdataIs
  <2> HIDE DEF r, ss
  <2>2. /\ Counted(ss) \in Seq(Octet) /\ ss[1] \in CharacterString
        /\ Len(Counted(ss)) \in Nat /\ Len(Counted(ss)) >= 1 + Len(ss[1])
    BY <2>1, CountedFirst
  <2>3. Len(ss[1]) \in 1..255
    BY <2>2, CountedString
  <2>4. Len(Counted(ss)) >= 1
    BY <2>2, <2>3
  <2> QED
    BY <2>1, <2>2, <2>4, Zenon DEF r
<1>3. CASE a.type = CNAME
  <2>1. a.target \in Name /\ r = NameOctets(a.target) /\ a.type # SRV
    BY <1>3, RdataIs
  <2>2. NameOctets(a.target) \in Seq(Octet) /\ Len(NameOctets(a.target)) >= 1
    BY <2>1, NameTyped
  <2> HIDE DEF r
  <2>3. r \in Seq(Octet) /\ Len(r) >= 1
    BY <2>1, <2>2, Zenon
  <2>4. Len(r) \in Nat
    BY <2>3
  <2> QED
    BY <2>1, <2>3, <2>4 DEF r
<1>4. a.type \in {SRV, TXT, CNAME}
  BY RdataIs
<1> QED
  BY <1>1, <1>2, <1>3, <1>4

Between == <<0, 1, 0, 0, 0, 60>>

LEMMA BetweenTyped == Between \in Seq(Octet) /\ Len(Between) = 6
  BY DEF Between, Octet

LEMMA EncodedIs ==
  ASSUME NEW a \in Answer, Len(Rdata(a)) \in UInt16
  PROVE  LET x == NameOctets(a.owner)
             y == Octets(a.type)
             z == Octets(Len(Rdata(a)))
             r == Rdata(a)
         IN /\ Encoded(a) = (((x \o y) \o Between) \o z) \o r
            /\ x \in Seq(Octet) /\ y \in Seq(Octet) /\ z \in Seq(Octet) /\ r \in Seq(Octet)
            /\ Len(y) = 2 /\ Len(z) = 2 /\ Len(x) \in Nat /\ Len(x) >= 1 /\ Len(r) \in Nat
            /\ x \o y \in Seq(Octet) /\ Len(x \o y) = Len(x) + 2
            /\ (x \o y) \o Between \in Seq(Octet) /\ Len((x \o y) \o Between) = Len(x) + 8
            /\ ((x \o y) \o Between) \o z \in Seq(Octet)
            /\ Len(((x \o y) \o Between) \o z) = Len(x) + 10
            /\ Encoded(a) \in Seq(Octet) /\ Len(Encoded(a)) = Len(x) + 10 + Len(r)
<1> DEFINE x == NameOctets(a.owner)
           y == Octets(a.type)
           z == Octets(Len(Rdata(a)))
           r == Rdata(a)
<1>1. x \in Seq(Octet) /\ Len(x) >= 1 /\ Len(x) \in Nat
  <2>1. x \in Seq(Octet) /\ Len(x) >= 1
    BY RdataIs, NameTyped
  <2> HIDE DEF x
  <2> QED
    BY <2>1
<1>2. y \in Seq(Octet) /\ Len(y) = 2 /\ z \in Seq(Octet) /\ Len(z) = 2
  <2>1. a.type \in UInt16
    <3>1. a.type \in {SRV, TXT, CNAME}
      BY RdataIs
    <3> QED
      BY <3>1, TypesAreWords, Zenon
  <2> QED
    BY <2>1, Fields
<1>3. r \in Seq(Octet) /\ Len(r) \in Nat
  BY RdataTyped
<1>4. Between \in Seq(Octet) /\ Len(Between) = 6
  BY BetweenTyped
<1>5. Encoded(a) = (((x \o y) \o Between) \o z) \o r
  BY Zenon DEF Encoded, Between
<1> HIDE DEF x, y, z, r
<1> DEFINE xy == x \o y
           xyb == xy \o Between
           xyz == xyb \o z
<1>6. xy \in Seq(Octet) /\ Len(xy) = Len(x) + 2
  <2>1. xy \in Seq(Octet) /\ Len(xy) = Len(x) + Len(y)
    BY <1>1, <1>2, Glued, Zenon
  <2> QED
    BY <1>2, <2>1, Zenon
<1> HIDE DEF xy
<1>7. xyb \in Seq(Octet) /\ Len(xyb) = Len(x) + 8
  <2>1. xyb \in Seq(Octet) /\ Len(xyb) = Len(xy) + Len(Between)
    BY <1>4, <1>6, Glued, Zenon
  <2> QED
    BY <1>1, <1>4, <1>6, <2>1
<1> HIDE DEF xyb
<1>8. xyz \in Seq(Octet) /\ Len(xyz) = Len(x) + 10
  <2>1. xyz \in Seq(Octet) /\ Len(xyz) = Len(xyb) + Len(z)
    BY <1>2, <1>7, Glued, Zenon
  <2> QED
    BY <1>1, <1>2, <1>7, <2>1
<1> HIDE DEF xyz
<1>9. xyz \o r \in Seq(Octet) /\ Len(xyz \o r) = Len(x) + 10 + Len(r)
  <2>1. xyz \o r \in Seq(Octet) /\ Len(xyz \o r) = Len(xyz) + Len(r)
    BY <1>3, <1>8, Glued, Zenon
  <2> QED
    BY <1>1, <1>3, <1>8, <2>1
<1>10. Encoded(a) = xyz \o r
  BY <1>5, Zenon DEF xyz, xyb, xy
<1> QED
  BY <1>1, <1>2, <1>3, <1>5, <1>6, <1>7, <1>8, <1>9, <1>10, Zenon DEF x, y, z, r, xy, xyb, xyz

\* An answer that stands at p: what the parsers read of it.
LEMMA AnswerRead ==
  ASSUME msg \in Seq(Octet), NEW a \in Answer, Len(Rdata(a)) \in UInt16, NEW p \in Nat,
         Holds(msg, p, Encoded(a)),
         NEW f, f = p + Len(NameOctets(a.owner))
  PROVE  /\ AfterName(p) = f /\ f \in Nat /\ p + 1 <= f
         /\ Word(f) = a.type /\ Word(f + 8) = Len(Rdata(a))
         /\ Holds(msg, p, NameOctets(a.owner)) /\ Holds(msg, f + 10, Rdata(a))
         /\ f + 10 + Len(Rdata(a)) = p + Len(Encoded(a))
         /\ f + 10 + Len(Rdata(a)) <= Len(msg)
<1> DEFINE x == NameOctets(a.owner)
           y == Octets(a.type)
           z == Octets(Len(Rdata(a)))
           r == Rdata(a)
           xy == x \o y
           xyb == xy \o Between
           xyz == xyb \o z
<1>1. /\ Encoded(a) = xyz \o r
      /\ x \in Seq(Octet) /\ y \in Seq(Octet) /\ z \in Seq(Octet) /\ r \in Seq(Octet)
      /\ Len(y) = 2 /\ Len(z) = 2 /\ Len(x) \in Nat /\ Len(x) >= 1 /\ Len(r) \in Nat
      /\ xy \in Seq(Octet) /\ Len(xy) = Len(x) + 2
      /\ xyb \in Seq(Octet) /\ Len(xyb) = Len(x) + 8
      /\ xyz \in Seq(Octet) /\ Len(xyz) = Len(x) + 10
      /\ Encoded(a) \in Seq(Octet) /\ Len(Encoded(a)) = Len(x) + 10 + Len(r)
  BY EncodedIs, Zenon
<1>2. Between \in Seq(Octet)
  BY BetweenTyped
<1>3. a.owner \in Name /\ a.type \in UInt16
  <2>1. a.type \in {SRV, TXT, CNAME} /\ a.owner \in Name
    BY RdataIs
  <2> QED
    BY <2>1, TypesAreWords, Zenon
<1>4. f = p + Len(x)
  OBVIOUS
<1>5. Len(msg) \in Nat /\ p + Len(Encoded(a)) <= Len(msg)
  BY DEF Holds
<1> HIDE DEF x, y, z, r, xy, xyb, xyz
<1>6. Holds(msg, p, xyz) /\ Holds(msg, p + Len(xyz), r)
  <2>1. Holds(msg, p, xyz \o r) /\ xyz \in Seq(Octet) /\ r \in Seq(Octet)
    BY <1>1, Zenon
  <2> QED
    BY <2>1, HoldsParts, Zenon
<1>7. Holds(msg, p, xyb) /\ Holds(msg, p + Len(xyb), z)
  BY <1>1, <1>6, HoldsParts DEF xyz
<1>8. Holds(msg, p, xy)
  BY <1>1, <1>2, <1>7, HoldsParts DEF xyb
<1>9. Holds(msg, p, x) /\ Holds(msg, p + Len(x), y)
  BY <1>1, <1>8, HoldsParts DEF xy
<1>10. AfterName(p) = f
  BY <1>3, <1>4, <1>9, NameSkipped DEF x
<1>11. f \in Nat /\ p + 1 <= f /\ p + Len(xyb) = f + 8 /\ p + Len(xyz) = f + 10 /\ f + 8 \in Nat
  <2>1. \A n \in Nat : n >= 1 => /\ p + n \in Nat /\ p + 1 <= p + n
                                 /\ p + (n + 8) = (p + n) + 8 /\ p + (n + 10) = (p + n) + 10
                                 /\ (p + n) + 8 \in Nat
    OBVIOUS
  <2> QED
    BY <1>1, <1>4, <2>1, Zenon
<1>12. Word(f) = a.type
  BY <1>3, <1>4, <1>9, <1>11, WordRead DEF y
<1>13. Word(f + 8) = Len(r)
  <2>1. Holds(msg, f + 8, z)
    BY <1>7, <1>11
  <2> QED
    BY <1>11, <2>1, WordRead DEF z, r
<1>14. Holds(msg, f + 10, r)
  BY <1>6, <1>11
<1>15. f + 10 + Len(r) = p + Len(Encoded(a)) /\ f + 10 + Len(r) <= Len(msg)
  <2>1. \A n, m \in Nat : (p + n) + 10 + m = p + (n + 10 + m)
    OBVIOUS
  <2>2. f + 10 + Len(r) = p + Len(Encoded(a))
    BY <1>1, <1>4, <2>1, Zenon
  <2> QED
    BY <1>5, <2>2, Zenon
<1>16. Holds(msg, p, NameOctets(a.owner))
  BY <1>9, Zenon DEF x
<1> QED
  BY <1>10, <1>11, <1>12, <1>13, <1>14, <1>15, <1>16 DEF r

LEMMA ServiceRead ==
  ASSUME msg \in Seq(Octet), QuestionAt, NEW a \in Answer, a.type = SRV, NEW d \in Nat,
         Holds(msg, d, Rdata(a))
  PROVE  /\ Word(d) = a.priority /\ Word(d + 2) = a.weight /\ Word(d + 4) = a.port
         /\ NameAt(d + 6) = Understood(a.target)
<1> DEFINE x == Octets(a.priority)
           y == Octets(a.weight)
           z == Octets(a.port)
           m == NameOctets(a.target)
           xy == x \o y
           xyz == xy \o z
<1>1. /\ a.priority \in UInt16 /\ a.weight \in UInt16 /\ a.port \in UInt16 /\ a.target \in Name
      /\ Rdata(a) = xyz \o m
  BY RdataIs
<1>2. /\ x \in Seq(Octet) /\ Len(x) = 2 /\ y \in Seq(Octet) /\ Len(y) = 2
      /\ z \in Seq(Octet) /\ Len(z) = 2 /\ m \in Seq(Octet)
  BY <1>1, Fields, NameTyped
<1> HIDE DEF x, y, z, m
<1>3. xy \in Seq(Octet) /\ Len(xy) = 2 + 2
  <2>1. xy \in Seq(Octet) /\ Len(xy) = Len(x) + Len(y)
    BY <1>2, Glued, Zenon
  <2> QED
    BY <1>2, <2>1, Zenon
<1> HIDE DEF xy
<1>4. xyz \in Seq(Octet) /\ Len(xyz) = (2 + 2) + 2
  <2>1. xyz \in Seq(Octet) /\ Len(xyz) = Len(xy) + Len(z)
    BY <1>2, <1>3, Glued, Zenon
  <2> QED
    BY <1>2, <1>3, <2>1, Zenon
<1> HIDE DEF xyz
<1>5. /\ d + Len(x) = d + 2 /\ d + Len(xy) = d + 4 /\ d + Len(xyz) = d + 6
      /\ d + 2 \in Nat /\ d + 4 \in Nat /\ d + 6 \in Nat
  <2>1. 2 + 2 = 4 /\ (2 + 2) + 2 = 6 /\ d + 2 \in Nat /\ d + 4 \in Nat /\ d + 6 \in Nat
    OBVIOUS
  <2> QED
    BY <1>2, <1>3, <1>4, <2>1, Zenon
<1>6. Holds(msg, d, xyz) /\ Holds(msg, d + 6, m)
  <2>1. Holds(msg, d, xyz \o m)
    BY <1>1, Zenon
  <2>2. Holds(msg, d, xyz) /\ Holds(msg, d + Len(xyz), m)
    BY <1>2, <1>4, <2>1, HoldsParts, Zenon
  <2> QED
    BY <1>5, <2>2, Zenon
<1>7. Holds(msg, d, xy) /\ Holds(msg, d + 4, z)
  <2>1. Holds(msg, d, xy) /\ Holds(msg, d + Len(xy), z)
    BY <1>2, <1>3, <1>6, HoldsParts, Zenon DEF xyz
  <2> QED
    BY <1>5, <2>1, Zenon
<1>8. Holds(msg, d, x) /\ Holds(msg, d + 2, y)
  <2>1. Holds(msg, d, x) /\ Holds(msg, d + Len(x), y)
    BY <1>2, <1>7, HoldsParts, Zenon DEF xy
  <2> QED
    BY <1>5, <2>1, Zenon
<1>9. Word(d) = a.priority
  BY <1>1, <1>8, WordRead, Zenon DEF x
<1>10. Word(d + 2) = a.weight
  BY <1>1, <1>5, <1>8, WordRead, Zenon DEF y
<1>11. Word(d + 4) = a.port
  BY <1>1, <1>5, <1>7, WordRead, Zenon DEF z
<1>12. NameAt(d + 6) = Understood(a.target)
  BY <1>1, <1>5, <1>6, NameRead, Zenon DEF m
<1> QED
  BY <1>9, <1>10, <1>11, <1>12

LEMMA TextRead ==
  ASSUME msg \in Seq(Octet), NEW a \in Answer, a.type = TXT, NEW d \in Nat,
         Holds(msg, d, Rdata(a)),
         NEW s, s = Head(a.strings)
  PROVE  /\ s \in Seq(Octet) /\ Len(s) \in 1..255 /\ At(d) = Len(s)
         /\ SubSeq(msg, d + 2, d + 1 + Len(s)) = s
         /\ Len(Rdata(a)) >= 1 + Len(s) /\ Len(Rdata(a)) \in Nat
         /\ d + 1 + Len(s) <= Len(msg)
<1> DEFINE ss == a.strings
           b == <<Len(s)>>
<1>1. ss \in Seq(CharacterString) /\ ss # <<>> /\ Rdata(a) = Counted(ss)
  BY RdataIs
<1>2. s = ss[1]
  <2>1. \A t : Head(t) = t[1]
    OBVIOUS
  <2> QED
    BY <2>1
<1> HIDE DEF ss
<1>3. /\ Counted(ss) \in Seq(Octet) /\ s \in CharacterString
      /\ Holds(Counted(ss), 0, b \o s)
      /\ Len(Counted(ss)) \in Nat /\ Len(Counted(ss)) >= 1 + Len(s)
  BY <1>1, <1>2, CountedFirst
<1>4. s \in Seq(Octet) /\ b \in Seq(Octet) /\ Len(b) = 1 /\ Len(s) \in 1..255 /\ b \o s \in Seq(Octet)
  BY <1>3, CountedString
<1>5. Holds(msg, d, b \o s)
  <2>1. Holds(msg, d + 0, b \o s)
    BY <1>1, <1>3, <1>4, HoldsInside
  <2>2. d + 0 = d
    OBVIOUS
  <2> QED
    BY <2>1, <2>2, Zenon
<1>6. Holds(msg, d, b) /\ Holds(msg, d + 1, s)
  <2>1. Holds(msg, d, b) /\ Holds(msg, d + Len(b), s)
    BY <1>4, <1>5, HoldsParts
  <2> QED
    BY <1>4, <2>1
<1>7. msg[d + 1] = Len(s)
  <2>1. Len(msg) \in Nat
    OBVIOUS
  <2> QED
    BY <1>6, <2>1, HoldsOne
<1> HIDE DEF b
<1>8. SubSeq(msg, (d + 1) + 1, (d + 1) + Len(s)) = s
  <2>1. d + 1 \in Nat
    OBVIOUS
  <2> QED
    BY <1>4, <1>6, <2>1, CutOut
<1>9. (d + 1) + 1 = d + 2
  OBVIOUS
<1>10. (d + 1) + Len(s) <= Len(msg)
  BY <1>6 DEF Holds
<1> QED
  BY <1>1, <1>3, <1>4, <1>7, <1>8, <1>9, <1>10, Zenon DEF At

----
(***************************************************************************)
(* A reply.                                                                *)
(***************************************************************************)
Encodings(answers) == [i \in DOMAIN answers |-> Encoded(answers[i])]

LEMMA SectionIs ==
  ASSUME NEW type \in {SRV, TXT}, NEW answers \in Sections[type]
  PROVE  /\ Len(answers) \in UInt16 /\ Len(answers) \in Nat /\ DOMAIN answers = 1..Len(answers)
         /\ answers \in Seq(Answer)
         /\ \A i \in 1..Len(answers) :
              /\ answers[i] \in Answer /\ Len(Rdata(answers[i])) \in UInt16
              /\ answers[i].type \in {type, CNAME}
<1>1. /\ Len(answers) \in UInt16
      /\ \A i \in DOMAIN answers : Len(Rdata(answers[i])) \in UInt16
  BY SectionsAssumption
<1> DEFINE Kind == {a \in Answer : a.type \in {type, CNAME}}
<1>2. ServiceAnswer \cup AliasAnswer \subseteq {a \in Answer : a.type \in {SRV, CNAME}}
  BY DEF Answer, ServiceAnswer, AliasAnswer
<1>3. TextAnswer \cup AliasAnswer \subseteq {a \in Answer : a.type \in {TXT, CNAME}}
  BY DEF Answer, TextAnswer, AliasAnswer
<1>4. \E K \in SUBSET Kind : answers \in Seq(K)
  <2>1. CASE type = SRV
    <3>1. answers \in Seq(ServiceAnswer \cup AliasAnswer)
      BY <2>1, SectionsAssumption
    <3>2. ServiceAnswer \cup AliasAnswer \subseteq Kind
      BY <1>2, <2>1
    <3> QED
      BY <3>1, <3>2
  <2>2. CASE type = TXT
    <3>1. answers \in Seq(TextAnswer \cup AliasAnswer)
      BY <2>2, SectionsAssumption
    <3>2. TextAnswer \cup AliasAnswer \subseteq Kind
      BY <1>3, <2>2
    <3> QED
      BY <3>1, <3>2
  <2> QED
    BY <2>1, <2>2
<1>5. PICK K \in SUBSET Kind : answers \in Seq(K)
  BY <1>4
<1> HIDE DEF Kind
<1>6. /\ Len(answers) \in Nat /\ DOMAIN answers = 1..Len(answers)
      /\ \A i \in 1..Len(answers) : answers[i] \in Kind
  BY <1>5
<1>7. \A a \in Kind : a \in Answer /\ a.type \in {type, CNAME}
  BY DEF Kind
<1>8. answers \in Seq(Answer)
  <2>1. K \subseteq Answer
    BY <1>5, <1>7
  <2>2. \A T : \A U \in SUBSET T : \A s \in Seq(U) : s \in Seq(T)
    OBVIOUS
  <2> QED
    BY <1>5, <2>1, <2>2, Zenon
<1> QED
  BY <1>1, <1>6, <1>7, <1>8

\* A function of the places is a sequence.
LEMMA Sequence ==
  ASSUME NEW S, NEW n \in Nat, NEW f \in [1..n -> S]
  PROVE  f \in Seq(S) /\ Len(f) = n
  OBVIOUS

LEMMA EncodingsTyped ==
  ASSUME NEW type \in {SRV, TXT}, NEW answers \in Sections[type]
  PROVE  /\ Encodings(answers) \in Seq(Seq(Octet)) /\ Len(Encodings(answers)) = Len(answers)
         /\ \A i \in 1..Len(answers) : Encodings(answers)[i] = Encoded(answers[i])
<1> DEFINE n == Len(answers)
           B == Seq(Octet)
<1>1. n \in Nat /\ DOMAIN answers = 1..n
      /\ \A i \in 1..n : answers[i] \in Answer /\ Len(Rdata(answers[i])) \in UInt16
  BY SectionIs
<1>2. \A i \in 1..n : Encoded(answers[i]) \in B
  BY <1>1, EncodedIs
<1>3. Encodings(answers) = [i \in 1..n |-> Encoded(answers[i])]
  BY <1>1 DEF Encodings
<1> HIDE DEF n, B
<1>4. [i \in 1..n |-> Encoded(answers[i])] \in [1..n -> B]
  BY <1>2
<1>5. Encodings(answers) \in Seq(B) /\ Len(Encodings(answers)) = n
  BY <1>1, <1>3, <1>4, Sequence, Zenon
<1>6. \A i \in 1..n : Encodings(answers)[i] = Encoded(answers[i])
  BY <1>3
<1> QED
  BY <1>5, <1>6 DEF n, B

LEMMA OpeningIs ==
  ASSUME NEW type \in UInt16, NEW count \in UInt16
  PROVE  /\ Opening(type, count) \in Seq(Octet) /\ Len(Opening(type, count)) = 19
         /\ Holds(Opening(type, count), 12, <<1, 120, 0>>)
<1> DEFINE a == <<0, 1, 129, 128, 0, 1>>
           b == Octets(count)
           c == <<0, 0, 0, 0>>
           d == <<1, 120, 0>>
           e == Octets(type)
           f == <<0, 1>>
<1>1. a \in Seq(Octet) /\ Len(a) = 6 /\ c \in Seq(Octet) /\ Len(c) = 4
  BY DEF Octet
<1>2. d \in Seq(Octet) /\ Len(d) = 3 /\ f \in Seq(Octet) /\ Len(f) = 2
  BY DEF Octet
<1>3. b \in Seq(Octet) /\ Len(b) = 2 /\ e \in Seq(Octet) /\ Len(e) = 2
  BY Fields
<1>4. Opening(type, count) = ((((a \o b) \o c) \o d) \o e) \o f
  BY Zenon DEF Opening
<1> HIDE DEF a, b, c, d, e, f
<1> DEFINE ab == a \o b
           abc == ab \o c
           abcd == abc \o d
           abcde == abcd \o e
           abcdef == abcde \o f
<1>5. ab \in Seq(Octet) /\ Len(ab) = 6 + 2
  <2>1. ab \in Seq(Octet) /\ Len(ab) = Len(a) + Len(b)
    BY <1>1, <1>3, Glued, Zenon
  <2> QED
    BY <1>1, <1>3, <2>1, Zenon
<1> HIDE DEF ab
<1>6. abc \in Seq(Octet) /\ Len(abc) = 6 + 2 + 4
  <2>1. abc \in Seq(Octet) /\ Len(abc) = Len(ab) + Len(c)
    BY <1>1, <1>5, Glued, Zenon
  <2> QED
    BY <1>1, <1>5, <2>1, Zenon
<1> HIDE DEF abc
<1>7. /\ abcd \in Seq(Octet) /\ Len(abcd) = 6 + 2 + 4 + 3
      /\ Holds(abcd, Len(abc), d)
  <2>1. abcd \in Seq(Octet) /\ Len(abcd) = Len(abc) + Len(d)
    BY <1>2, <1>6, Glued, Zenon
  <2>2. Holds(abcd, Len(abc), d)
    BY <1>2, <1>6, HoldsBoth, Zenon
  <2> QED
    BY <1>2, <1>6, <2>1, <2>2, Zenon
<1> HIDE DEF abcd
<1>8. /\ abcde \in Seq(Octet) /\ Len(abcde) = 6 + 2 + 4 + 3 + 2
      /\ Holds(abcde, 0, abcd)
  <2>1. abcde \in Seq(Octet) /\ Len(abcde) = Len(abcd) + Len(e)
    BY <1>3, <1>7, Glued, Zenon
  <2>2. Holds(abcde, 0, abcd)
    BY <1>3, <1>7, HoldsBoth, Zenon
  <2> QED
    BY <1>3, <1>7, <2>1, <2>2, Zenon
<1> HIDE DEF abcde
<1>9. /\ abcdef \in Seq(Octet) /\ Len(abcdef) = 6 + 2 + 4 + 3 + 2 + 2
      /\ Holds(abcdef, 0, abcde)
  <2>1. abcdef \in Seq(Octet) /\ Len(abcdef) = Len(abcde) + Len(f)
    BY <1>2, <1>8, Glued, Zenon
  <2>2. Holds(abcdef, 0, abcde)
    BY <1>2, <1>8, HoldsBoth, Zenon
  <2> QED
    BY <1>2, <1>8, <2>1, <2>2, Zenon
<1> HIDE DEF abcdef
<1>10. 6 + 2 + 4 = 12 /\ 6 + 2 + 4 + 3 + 2 + 2 = 19 /\ 0 \in Nat /\ 12 \in Nat /\ 0 + 12 = 12
  OBVIOUS
<1>11. Holds(abcd, 12, d)
  BY <1>6, <1>7, <1>10, Zenon
<1>12. Holds(abcde, 12, d)
  <2>1. Holds(abcde, 0 + 12, d)
    BY <1>2, <1>7, <1>8, <1>10, <1>11, HoldsInside, Zenon
  <2> QED
    BY <1>10, <2>1, Zenon
<1>13. Holds(abcdef, 12, d)
  <2>1. Holds(abcdef, 0 + 12, d)
    BY <1>2, <1>8, <1>9, <1>10, <1>12, HoldsInside, Zenon
  <2> QED
    BY <1>10, <2>1, Zenon
<1>14. Opening(type, count) = abcdef
  BY <1>4, Zenon DEF abcdef, abcde, abcd, abc, ab
<1> QED
  BY <1>9, <1>10, <1>13, <1>14, Zenon DEF d

\* Where the answer after the first k stands.
Start(answers, k) == 19 + Len(Gathered(Encodings(answers), k))

LEMMA MessageIs ==
  ASSUME NEW type \in {SRV, TXT}, NEW answers \in Sections[type]
  PROVE  /\ Message(type, answers) \in Seq(Octet)
         /\ Holds(Message(type, answers), 12, <<1, 120, 0>>)
         /\ Start(answers, 0) = 19
         /\ \A k \in 0..(Len(answers) - 1) :
              /\ Start(answers, k) \in Nat
              /\ Start(answers, k + 1) = Start(answers, k) + Len(Encoded(answers[k + 1]))
              /\ Holds(Message(type, answers), Start(answers, k), Encoded(answers[k + 1]))
<1> DEFINE n == Len(answers)
           es == Encodings(answers)
           o == Opening(type, n)
           m == o \o FlattenSeq(es)
<1>1. n \in UInt16 /\ n \in Nat /\ type \in UInt16
  <2>1. n \in UInt16 /\ n \in Nat
    BY SectionIs
  <2> QED
    BY <2>1, TypesAreWords
<1>2. /\ es \in Seq(Seq(Octet)) /\ Len(es) = n /\ \A i \in 1..n : es[i] = Encoded(answers[i])
  BY EncodingsTyped
<1>3. Message(type, answers) = m
  BY Zenon DEF Message, Encodings
<1> HIDE DEF n
<1>4. o \in Seq(Octet) /\ Len(o) = 19 /\ Holds(o, 12, <<1, 120, 0>>)
  BY <1>1, OpeningIs
<1> HIDE DEF es, o
<1>5. FlattenSeq(es) \in Seq(Octet)
  BY <1>2, FlattenType
<1>6. m \in Seq(Octet) /\ Holds(m, 0, o) /\ Holds(m, 19, FlattenSeq(es))
  <2>1. m \in Seq(Octet)
    BY <1>4, <1>5, Glued, Zenon
  <2>2. Holds(m, 0, o) /\ Holds(m, Len(o), FlattenSeq(es))
    BY <1>4, <1>5, HoldsBoth, Zenon
  <2> QED
    BY <1>4, <2>1, <2>2, Zenon
<1> HIDE DEF m
<1>7. 0 \in Nat /\ 12 \in Nat /\ 19 \in Nat /\ 0 + 12 = 12 /\ 19 + 0 = 19
  OBVIOUS
<1>8. Holds(m, 12, <<1, 120, 0>>)
  <2> DEFINE d == <<1, 120, 0>>
  <2>1. d \in Seq(Octet)
    BY DEF Octet
  <2>2. Holds(o, 12, d)
    BY <1>4
  <2> HIDE DEF d
  <2>3. Holds(m, 0 + 12, d)
    BY <1>4, <1>6, <1>7, <2>1, <2>2, HoldsInside, Zenon
  <2> QED
    BY <1>7, <2>3, Zenon DEF d
<1>9. Start(answers, 0) = 19
  <2>1. Gathered(es, 0) = <<>>
    BY GatheredNone
  <2> QED
    BY <1>7, <2>1, EmptyLength, Zenon DEF Start, es
<1>10. ASSUME NEW k \in 0..(n - 1)
       PROVE  /\ Start(answers, k) \in Nat
              /\ Start(answers, k + 1) = Start(answers, k) + Len(Encoded(answers[k + 1]))
              /\ Holds(m, Start(answers, k), Encoded(answers[k + 1]))
  <2> DEFINE g == Gathered(es, k)
             h == Gathered(es, k + 1)
             e == es[k + 1]
  <2>1. k \in Nat /\ k < n /\ k + 1 \in 1..n
    BY <1>1
  <2>2. g \in Seq(Octet) /\ h \in Seq(Octet) /\ e \in Seq(Octet) /\ h = g \o e
    BY <1>2, <2>1, GatheredNext
  <2>3. Holds(FlattenSeq(es), Len(g), e)
    BY <1>2, <2>1, GatheredHolds
  <2>4. e = Encoded(answers[k + 1])
    BY <1>2, <2>1
  <2>5. Start(answers, k) = 19 + Len(g) /\ Start(answers, k + 1) = 19 + Len(h)
    BY Zenon DEF Start, es
  <2> HIDE DEF g, h, e
  <2>6. Len(g) \in Nat /\ Len(e) \in Nat
    BY <2>2
  <2>7. Len(h) = Len(g) + Len(e)
    BY <2>2, Glued, Zenon
  <2>8. Holds(m, 19 + Len(g), e)
    BY <1>5, <1>6, <1>7, <2>2, <2>3, <2>6, HoldsInside, Zenon
  <2>9. \A x, y \in Nat : 19 + x \in Nat /\ 19 + (x + y) = (19 + x) + y
    OBVIOUS
  <2>10. 19 + Len(g) \in Nat /\ 19 + Len(h) = (19 + Len(g)) + Len(e)
    BY <2>6, <2>7, <2>9, Zenon
  <2> QED
    BY <2>4, <2>5, <2>8, <2>10, Zenon
<1> QED
  BY <1>3, <1>6, <1>8, <1>9, <1>10, Zenon DEF n

LEMMA Below ==
  ASSUME NEW x \in UInt16, NEW y \in 0..x
  PROVE  y \in UInt16 /\ y \in Nat
  BY MaxUInt16Is DEF UInt16

\* The reply that ends where the first k answers end.
LEMMA MessageOfFirst ==
  ASSUME NEW type \in {SRV, TXT}, NEW answers \in Sections[type], NEW k \in 0..Len(answers)
  PROVE  Len(Message(type, SubSeq(answers, 1, k))) = Start(answers, k)
<1> DEFINE as == SubSeq(answers, 1, k)
           es == Encodings(answers)
           n == Len(answers)
           V(a) == Encoded(a)
<1>1. /\ n \in UInt16 /\ n \in Nat /\ DOMAIN answers = 1..n /\ answers \in Seq(Answer)
  BY SectionIs
<1>2. k \in UInt16 /\ k \in Nat /\ type \in UInt16
  <2>1. type \in UInt16
    BY TypesAreWords, Zenon
  <2>2. k \in 0..n
    OBVIOUS
  <2> HIDE DEF n
  <2>3. k \in UInt16 /\ k \in Nat
    BY <1>1, <2>2, Below, Zenon
  <2> QED
    BY <2>1, <2>3
<1>3. Len(as) = k /\ DOMAIN as = 1..k /\ \A i \in 1..k : as[i] = answers[i]
  BY <1>1
<1>4. es \in Seq(Seq(Octet)) /\ Len(es) = n
  BY EncodingsTyped
<1>5. es = [i \in 1..n |-> V(answers[i])]
  BY <1>1 DEF Encodings
<1> HIDE DEF as, n, V
<1>6. Encodings(as) = [i \in 1..k |-> V(as[i])]
  BY <1>3 DEF Encodings, V
<1>7. [i \in 1..k |-> V(as[i])] = [i \in 1..k |-> V(answers[i])]
  BY <1>3
<1> DEFINE fs == [i \in 1..k |-> V(answers[i])]
<1>8. SubSeq(es, 1, k) = fs
  <2>1. \A i \in 1..k : i \in 1..n /\ 1 + i - 1 = i
    BY <1>1 DEF n
  <2>2. \A i \in 1..k : es[i] = V(answers[i])
    BY <1>5, <2>1
  <2> HIDE DEF es
  <2>3. SubSeq(es, 1, k) = [i \in 1..k |-> es[i]]
    BY <1>1, <1>2, <1>4, <2>1
  <2> QED
    BY <2>2, <2>3
<1>9. Encodings(as) = SubSeq(es, 1, k)
  BY <1>6, <1>7, <1>8, Zenon
<1>10. Message(type, as) = Opening(type, k) \o FlattenSeq(Encodings(as))
  BY <1>3, Zenon DEF Message, Encodings
<1>11. FlattenSeq(Encodings(as)) = Gathered(es, k)
  BY <1>9, Zenon DEF Gathered
<1>12. Gathered(es, k) \in Seq(Octet)
  <2>1. SubSeq(es, 1, k) \in Seq(Seq(Octet))
    <3> DEFINE B == Seq(Octet)
    <3>1. es \in Seq(B)
      BY <1>4
    <3>2. k <= n
      BY <1>1 DEF n
    <3> HIDE DEF B, es
    <3>3. SubSeq(es, 1, k) \in Seq(B)
      BY <1>1, <1>2, <1>4, <3>1, <3>2
    <3> QED
      BY <3>3 DEF B
  <2> QED
    BY <2>1, FlattenType, Zenon DEF Gathered
<1>13. Opening(type, k) \in Seq(Octet) /\ Len(Opening(type, k)) = 19
  BY <1>2, OpeningIs
<1> DEFINE o == Opening(type, k)
           g == Gathered(es, k)
<1> HIDE DEF o, g
<1>14. Len(o \o g) = Len(o) + Len(g)
  BY <1>12, <1>13, Glued, Zenon DEF o, g
<1> QED
  BY <1>10, <1>11, <1>13, <1>14, Zenon DEF o, g, Start, as

----
(***************************************************************************)
(* The walk.                                                               *)
(***************************************************************************)

\* A record, as a parser takes it from a service answer.
Record(answer) ==
  [priority |-> answer.priority, weight |-> answer.weight, port |-> answer.port,
   target |-> Written(Understood(answer.target))]

LEMMA RecordKept ==
  ASSUME walk' = walk
  PROVE  \A x : Record(x)' = Record(x)
<1>1. Library' = Library
  BY Zenon DEF Library
<1> QED
  BY <1>1 DEF Record, Written, Understood

\* What each answer adds to the texts.
Firsts(answers) ==
  [i \in DOMAIN answers |->
     IF answers[i].type = TXT THEN <<Head(answers[i].strings)>> ELSE <<>>]

\* What the parser has found when it has read the first k answers.
Collected(k) ==
  IF Asked = TXT THEN found = Gathered(Firsts(section), k)
  ELSE IF Misdirected THEN found = <<>>
  ELSE /\ \A j \in 1..Len(found) :
            \E i \in 1..k : section[i].type = SRV /\ found[j] = Record(section[i])
       /\ \A i \in 1..k :
            section[i].type = SRV => \E j \in 1..Len(found) : found[j] = Record(section[i])

Waits == stage = "asked" => section = NoReply /\ found = <<>>

HasReply ==
  stage \in {"walking", "walked"} =>
    section \in Sections[Asked] /\ msg = Message(Asked, section)

\* The parser is where the answer begins that it is to read.
OnStart ==
  stage = "walking" /\ ~Misplaced => pos = Start(section, Len(section) - left)

HasRead ==
  stage \in {"walking", "walked"} /\ ~Misplaced =>
    left \in 0..Len(section) /\ Collected(Len(section) - left)

ReadsAll == stage = "walked" /\ ~Misplaced => left = 0

\* Dart has given up at the first answer that it cannot decode.
HasDecoded ==
  stage \in {"walking", "walked"} /\ Library = "dart" =>
    \A i \in 1..(Len(section) - left) : Decodable(section[i])

IInv ==
  /\ TypeOK /\ Waits /\ HasReply /\ OnStart /\ HasRead /\ HasDecoded /\ ReadsAll
  /\ ChoosesBest /\ ReadsTexts

LEMMA WalkIs ==
  ASSUME walk \in Walk
  PROVE  Library \in {"csharp", "dart", "lua"} /\ Asked \in {SRV, TXT} /\ walk = <<Library, Asked>>
  BY WalkAssumption DEF Library, Asked

\* The fields of the answer that is next, wherever it stands.
LEMMA Standing ==
  ASSUME IInv, stage = "walking", ~Misplaced, left > 0,
         NEW k, k = Len(section) - left, NEW a, a = section[k + 1]
  PROVE  /\ k \in 0..(Len(section) - 1) /\ k + 1 \in 1..Len(section)
         /\ a \in Answer /\ Len(Rdata(a)) \in UInt16 /\ a.type \in {Asked, CNAME}
         /\ msg \in Seq(Octet) /\ QuestionAt /\ pos \in Nat
         /\ Holds(msg, pos, Encoded(a))
         /\ Start(section, k + 1) = pos + Len(Encoded(a))
<1>1. /\ section \in Sections[Asked] /\ msg = Message(Asked, section)
      /\ left \in 0..Len(section) /\ pos = Start(section, k) /\ msg \in Seq(Octet) /\ pos \in Nat
      /\ walk \in Walk
  BY Zenon DEF IInv, TypeOK, HasReply, OnStart, HasRead
<1>2. Asked \in {SRV, TXT}
  BY <1>1, WalkIs
<1>3. /\ Len(section) \in Nat
      /\ \A i \in 1..Len(section) :
           /\ section[i] \in Answer /\ Len(Rdata(section[i])) \in UInt16
           /\ section[i].type \in {Asked, CNAME}
  BY <1>1, <1>2, SectionIs
<1>4. k \in 0..(Len(section) - 1) /\ k + 1 \in 1..Len(section)
  BY <1>1, <1>3
<1>5. /\ Holds(msg, 12, <<1, 120, 0>>)
      /\ Start(section, k + 1) = Start(section, k) + Len(Encoded(section[k + 1]))
      /\ Holds(msg, Start(section, k), Encoded(section[k + 1]))
  BY <1>1, <1>2, <1>4, MessageIs
<1> QED
  BY <1>1, <1>3, <1>4, <1>5, Zenon DEF QuestionAt

\* What the parser makes of it.
LEMMA Reading ==
  ASSUME IInv, stage = "walking", ~Misplaced, left > 0,
         NEW k, k = Len(section) - left, NEW a, a = section[k + 1]
  PROVE  /\ Fits /\ NextAt = Start(section, k + 1) /\ NextAt \in Nat
         /\ NameAt(pos) = Understood(a.owner)
         /\ IsService <=> Seeks = SRV /\ a.type = SRV
         /\ IsService => Service = Record(a) /\ NameAt(Data + 6) = Understood(a.target)
         /\ IsText <=> Seeks = TXT /\ a.type = TXT
         /\ IsText => Text = Head(a.strings)
<1> DEFINE r == Rdata(a)
           f == pos + Len(NameOctets(a.owner))
           d == f + 10
<1>1. /\ a \in Answer /\ Len(r) \in UInt16
      /\ msg \in Seq(Octet) /\ QuestionAt /\ pos \in Nat
      /\ Holds(msg, pos, Encoded(a))
      /\ Start(section, k + 1) = pos + Len(Encoded(a))
  BY Standing
<1>2. /\ Fixed = f /\ f \in Nat /\ pos + 1 <= f
      /\ Word(f) = a.type /\ Word(f + 8) = Len(r)
      /\ Holds(msg, pos, NameOctets(a.owner)) /\ Holds(msg, d, r)
      /\ d + Len(r) = Start(section, k + 1) /\ d + Len(r) <= Len(msg)
  BY <1>1, AnswerRead, Zenon DEF Fixed
<1>3. Len(r) \in Nat /\ Len(r) >= 1 /\ (a.type = SRV => Len(r) >= 7)
  BY <1>1, RdataTyped
<1>4. Len(msg) \in Nat
  BY <1>1
<1> HIDE DEF r, f
<1>5. LengthAt = f + 8 /\ Data = d /\ DataLength = Len(r) /\ NextAt = Start(section, k + 1)
  <2>1. LengthAt = f + 8
    BY <1>2 DEF LengthAt, Misplaced
  <2>2. Data = d
    BY <1>2, <2>1 DEF Data
  <2>3. DataLength = Len(r)
    BY <1>2, <2>1, Zenon DEF DataLength
  <2> QED
    BY <1>2, <2>1, <2>2, <2>3, Zenon DEF NextAt
<1>6. NextAt \in Nat /\ NextAt <= Len(msg) /\ d \in Nat /\ Data <= Len(msg)
  <2>1. d \in Nat /\ d + Len(r) \in Nat /\ d <= d + Len(r)
    BY <1>2, <1>3
  <2> HIDE DEF d
  <2> QED
    BY <1>2, <1>3, <1>4, <1>5, <2>1
<1>7. Fits
  <2>1. Room(pos) /\ Room(Fixed)
    BY <1>1, <1>2, <1>3, <1>4 DEF Room
  <2> QED
    BY <1>5, <1>6, <2>1 DEF Fits, Reaches
<1> HIDE DEF d
<1>8. IsService <=> Seeks = SRV /\ a.type = SRV
  <2>1. a.type = SRV => DataLength >= (IF Library = "csharp" THEN 7 ELSE 6)
    BY <1>3, <1>5
  <2> QED
    BY <1>2, <2>1, Zenon DEF IsService
<1>9. ASSUME a.type = SRV PROVE Service = Record(a) /\ NameAt(Data + 6) = Understood(a.target)
  <2>1. /\ Word(d) = a.priority /\ Word(d + 2) = a.weight /\ Word(d + 4) = a.port
        /\ NameAt(d + 6) = Understood(a.target)
    BY <1>1, <1>2, <1>6, <1>9, ServiceRead DEF r
  <2> QED
    BY <1>5, <2>1, Zenon DEF Service, Record
<1>10. ASSUME a.type = TXT
       PROVE  /\ DataLength > 1
              /\ Library = "csharp" => At(Data) > 0 /\ Data + 1 + At(Data) <= Len(msg)
              /\ Text = Head(a.strings)
  <2> DEFINE s == Head(a.strings)
  <2>0. Holds(msg, d, Rdata(a))
    BY <1>2, Zenon DEF r
  <2>1. /\ Len(s) \in 1..255 /\ At(d) = Len(s)
        /\ SubSeq(msg, d + 2, d + 1 + Len(s)) = s
        /\ Len(r) >= 1 + Len(s)
        /\ d + 1 + Len(s) <= Len(msg)
    BY <1>1, <1>6, <1>10, <2>0, TextRead, Zenon DEF r
  <2> HIDE DEF s
  <2>2. TextLength = Len(s)
    <3>1. \A n \in 1..255 : \A m \in Nat : m >= 1 + n /\ ~(n < m - 1) => m - 1 = n
      OBVIOUS
    <3>2. TextLength = IF Library = "csharp" \/ Len(s) < Len(r) - 1 THEN Len(s) ELSE Len(r) - 1
      BY <1>5, <2>1, Zenon DEF TextLength
    <3> QED
      BY <1>3, <2>1, <3>1, <3>2, Zenon
  <2>3. Text = s
    <3>1. Asked = TXT /\ Library # "csharp"
      <4>1. walk \in Walk /\ Asked \in {SRV, TXT} /\ a.type \in {Asked, CNAME}
        BY Standing, WalkIs DEF IInv, TypeOK
      <4>2. TXT # CNAME
        BY DEF TXT, CNAME
      <4>3. Asked = TXT
        BY <1>10, <4>1, <4>2
      <4> QED
        BY <4>1, <4>3, WalkIs, Zenon DEF Misplaced
    <3> QED
      BY <1>5, <2>1, <2>2, <3>1, Zenon DEF Text
  <2>4. DataLength > 1 /\ At(Data) > 0
    <3>1. \A n \in 1..255 : \A m \in Nat : m >= 1 + n => m > 1 /\ n > 0
      OBVIOUS
    <3>2. Len(r) > 1 /\ Len(s) > 0
      BY <1>3, <2>1, <3>1, Zenon
    <3> QED
      BY <1>5, <2>1, <3>2, Zenon
  <2>5. Data + 1 + At(Data) <= Len(msg)
    BY <1>5, <2>1, Zenon
  <2> QED
    BY <2>3, <2>4, <2>5 DEF s
<1>11. IsText <=> Seeks = TXT /\ a.type = TXT
  BY <1>2, <1>10, Zenon DEF IsText
<1>12. IsText => Text = Head(a.strings)
  BY <1>10, <1>11
<1>13. IsService => Service = Record(a) /\ NameAt(Data + 6) = Understood(a.target)
  BY <1>8, <1>9
<1>14. NameAt(pos) = Understood(a.owner)
  <2>1. a.owner \in Name
    BY <1>1, RdataIs
  <2> QED
    BY <1>1, <1>2, <2>1, NameRead
<1> QED
  BY <1>5, <1>6, <1>7, <1>8, <1>11, <1>12, <1>13, <1>14

FoundRecord == [priority : Nat, weight : Nat, port : Nat, target : Seq(Seq(Octet))]

LEMMA WrittenTyped ==
  ASSUME NEW ls \in Seq(Seq(Octet))
  PROVE  Written(ls) \in Seq(Seq(Octet))
<1> DEFINE B == Seq(Octet)
           Mark(n) == IF n > 127 THEN 63 ELSE n
           W(l) == [j \in DOMAIN l |-> Mark(l[j])]
           w == [i \in DOMAIN ls |-> W(ls[i])]
<1>1. \A n \in Octet : Mark(n) \in Octet
  BY DEF Octet
<1> HIDE DEF Mark
<1>2. ASSUME NEW l \in B PROVE W(l) \in B
  <2>1. Len(l) \in Nat /\ DOMAIN l = 1..Len(l) /\ \A j \in 1..Len(l) : l[j] \in Octet
    BY <1>2
  <2>2. W(l) \in [1..Len(l) -> Octet]
    BY <1>1, <2>1
  <2> QED
    BY <2>1, <2>2, Sequence, Zenon
<1> HIDE DEF W, B
<1>3. Len(ls) \in Nat /\ DOMAIN ls = 1..Len(ls) /\ \A i \in 1..Len(ls) : ls[i] \in B
  BY DEF B
<1>4. w \in [1..Len(ls) -> B]
  BY <1>2, <1>3
<1>5. w \in Seq(B)
  BY <1>3, <1>4, Sequence, Zenon
<1>6. Written(ls) = IF Library # "csharp" THEN ls ELSE w
  BY Zenon DEF Written, W, Mark
<1> QED
  BY <1>5, <1>6 DEF B

\* C# shows a name in ASCII as it is.
LEMMA WrittenInAscii ==
  ASSUME NEW ls \in Seq(Seq(Octet)), \A i \in DOMAIN ls : ls[i] \in Seq(0..127)
  PROVE  Written(ls) = ls
<1> DEFINE Mark(n) == IF n > 127 THEN 63 ELSE n
           W(l) == [j \in DOMAIN l |-> Mark(l[j])]
<1>1. ASSUME NEW l \in Seq(0..127) PROVE W(l) = l
  <2> HIDE DEF W, Mark
  <2>0. Len(l) \in Nat /\ DOMAIN l = 1..Len(l) /\ \A j \in 1..Len(l) : l[j] \in 0..127
    <3> DEFINE A == 0..127
    <3>1. l \in Seq(A)
      BY <1>1
    <3> HIDE DEF A
    <3>2. \A j \in 1..Len(l) : l[j] \in A
      BY <3>1
    <3> QED
      BY <3>1, <3>2 DEF A
  <2>1. l = [j \in DOMAIN l |-> l[j]]
    BY <1>1, <2>0, Elements
  <2>2. \A n \in 0..127 : Mark(n) = n
    BY DEF Mark
  <2>3. \A j \in DOMAIN l : Mark(l[j]) = l[j]
    BY <2>0, <2>2
  <2>4. W(l) = [j \in DOMAIN l |-> l[j]]
    BY <2>3 DEF W
  <2> QED
    BY <2>1, <2>4
<1>2. Written(ls) = IF Library # "csharp" THEN ls ELSE [i \in DOMAIN ls |-> W(ls[i])]
  BY Zenon DEF Written
<1> HIDE DEF W, Mark
<1> DEFINE B == Seq(Octet)
<1>3. ls \in Seq(B)
  OBVIOUS
<1> HIDE DEF B
<1>4. ls = [i \in DOMAIN ls |-> ls[i]]
  BY <1>3
<1>5. \A i \in DOMAIN ls : W(ls[i]) = ls[i]
  BY <1>1
<1>6. [i \in DOMAIN ls |-> W(ls[i])] = ls
  BY <1>4, <1>5
<1> QED
  BY <1>2, <1>6

LEMMA RecordTyped ==
  ASSUME NEW a \in Answer, a.type = SRV
  PROVE  /\ Record(a) \in FoundRecord /\ Written(Understood(a.target)) \in Seq(Seq(Octet))
         /\ a.port \in UInt16 /\ a.priority \in Nat /\ a.weight \in Nat
<1>1. a.priority \in UInt16 /\ a.weight \in UInt16 /\ a.port \in UInt16 /\ a.target \in Name
  BY RdataIs
<1>2. UInt16 \subseteq Nat
  BY MaxUInt16Is DEF UInt16
<1> DEFINE t == a.target
           B == Seq(Octet)
           tail == IF t.compressed /\ Library # "csharp" THEN << <<120>> >> ELSE <<>>
<1>3. tail \in Seq(B) /\ Understood(t) = t.labels \o tail
  BY <1>1, TailOfName
<1>4. t.labels \in Seq(B)
  <2>1. t.labels \in Seq(Label) /\ Label \subseteq B
    BY <1>1, LabelsAreStrings DEF Label
  <2> DEFINE ls == t.labels
  <2> HIDE DEF ls, B
  <2> QED
    BY <2>1
<1> HIDE DEF B, tail
<1>5. Written(Understood(t)) \in Seq(B)
  <2>1. Understood(t) \in Seq(B)
    BY <1>3, <1>4, Glued, Zenon
  <2> QED
    BY <2>1, WrittenTyped DEF B
<1> HIDE DEF t
<1>6. Record(a) \in FoundRecord
  BY <1>1, <1>2, <1>5 DEF Record, FoundRecord, B, t
<1> QED
  BY <1>1, <1>2, <1>5, <1>6 DEF B, t

LEMMA FirstsTyped ==
  ASSUME NEW type \in {SRV, TXT}, NEW answers \in Sections[type]
  PROVE  /\ Firsts(answers) \in Seq(Seq(Seq(Octet))) /\ Len(Firsts(answers)) = Len(answers)
         /\ \A i \in 1..Len(answers) :
              Firsts(answers)[i] = IF answers[i].type = TXT THEN <<Head(answers[i].strings)>> ELSE <<>>
<1> DEFINE n == Len(answers)
           B == Seq(Octet)
           V(a) == IF a.type = TXT THEN <<Head(a.strings)>> ELSE <<>>
<1>1. n \in Nat /\ DOMAIN answers = 1..n /\ \A i \in 1..n : answers[i] \in Answer
  BY SectionIs
<1>2. ASSUME NEW a \in Answer PROVE V(a) \in Seq(B)
  <2>1. CASE a.type = TXT
    <3> DEFINE ss == a.strings
    <3>1. ss \in Seq(CharacterString) /\ ss # <<>>
      BY <2>1, RdataIs
    <3> HIDE DEF ss
    <3>2. Head(ss) \in CharacterString
      BY <3>1
    <3>3. Head(ss) \in B
      BY <3>2, CountedString
    <3> HIDE DEF B
    <3>4. <<Head(ss)>> \in Seq(B)
      BY <3>3
    <3> QED
      BY <2>1, <3>4 DEF ss
  <2>2. CASE a.type # TXT
    <3> HIDE DEF B
    <3>1. <<>> \in Seq(B)
      OBVIOUS
    <3> QED
      BY <2>2, <3>1, Zenon
  <2> QED
    BY <2>1, <2>2
<1>3. Firsts(answers) = [i \in 1..n |-> V(answers[i])]
  BY <1>1 DEF Firsts
<1> DEFINE W == Seq(B)
<1>4. \A i \in 1..n : V(answers[i]) \in W
  BY <1>1, <1>2
<1> HIDE DEF n, V, W
<1>5. [i \in 1..n |-> V(answers[i])] \in [1..n -> W]
  BY <1>4
<1>6. Firsts(answers) \in Seq(W) /\ Len(Firsts(answers)) = n
  BY <1>1, <1>3, <1>5, Sequence, Zenon
<1>7. \A i \in 1..n : Firsts(answers)[i] = V(answers[i])
  BY <1>3
<1> QED
  BY <1>6, <1>7 DEF n, V, W

\* Wherever the parser is, it goes on, and takes a text from inside the reply.
LEMMA Ahead ==
  ASSUME TypeOK, Fits
  PROVE  /\ NextAt \in Nat /\ Data \in Nat
         /\ Library = "csharp" /\ IsText => Text \in Seq(Octet)
<1>1. msg \in Seq(Octet) /\ pos \in Nat /\ Len(msg) \in Nat
  BY DEF TypeOK
<1>2. Fixed \in Nat
  BY <1>1, AfterNameIs DEF Fixed
<1>3. LengthAt \in Nat /\ Data = LengthAt + 2
  BY <1>2 DEF LengthAt, Data
<1>4. Data <= Len(msg)
  BY DEF Fits
<1>5. DataLength \in Nat
  <2>1. At(LengthAt) \in Octet /\ At(LengthAt + 1) \in Octet
    <3>1. LengthAt < Len(msg) /\ LengthAt + 1 < Len(msg) /\ LengthAt + 1 \in Nat
      BY <1>1, <1>3, <1>4
    <3> QED
      BY <1>1, <1>3, <3>1, OctetsOfMessage
  <2>2. \A v, w \in Octet : v * 256 + w \in Nat
    BY DEF Octet
  <2> QED
    BY <2>1, <2>2, Zenon DEF DataLength, Word
<1>6. NextAt \in Nat /\ Data \in Nat
  BY <1>3, <1>5 DEF NextAt
<1>7. ASSUME Library = "csharp", IsText PROVE Text \in Seq(Octet)
  <2>1. TextLength = At(Data) /\ At(Data) > 0 /\ Data + 1 + At(Data) <= Len(msg) /\ DataLength > 1
    BY <1>7, Zenon DEF IsText, TextLength
  <2>2. NextAt <= Len(msg)
    BY <1>7 DEF Fits
  <2>3. Data < Len(msg)
    BY <1>1, <1>3, <1>5, <1>6, <2>1, <2>2 DEF NextAt
  <2>4. At(Data) \in Octet
    BY <1>1, <1>6, <2>3, OctetsOfMessage
  <2> DEFINE d == Data
             n == At(Data)
  <2>5. d \in Nat /\ n \in Nat /\ d + 1 + n <= Len(msg)
    <3>1. \A v \in Octet : v \in Nat
      BY DEF Octet
    <3> QED
      BY <1>6, <2>1, <2>4, <3>1, Zenon
  <2> HIDE DEF d, n
  <2>6. SubSeq(msg, d + 2, d + 1 + n) \in Seq(Octet)
    BY <1>1, <2>5
  <2>7. Replaced \in Seq(Octet)
    BY DEF Replaced, Octet
  <2> QED
    BY <2>1, <2>6, <2>7, Zenon DEF Text, d, n
<1> QED
  BY <1>6, <1>7

\* Lua seeks texts where the first answer is none that it takes for a service.
LEMMA SeeksWhat ==
  ASSUME IInv, stage = "walking", ~Misplaced, left > 0
  PROVE  /\ Asked \in {SRV, TXT} /\ SRV # TXT /\ SRV # CNAME /\ TXT # CNAME
         /\ Asked = TXT => Seeks = TXT
         /\ Asked = SRV => (Seeks = SRV <=> ~Misdirected)
<1>1. section \in Sections[Asked] /\ walk \in Walk /\ left \in 0..Len(section)
  BY Zenon DEF IInv, TypeOK, HasReply, HasRead
<1>2. Asked \in {SRV, TXT}
  BY <1>1, WalkIs
<1>3. /\ Len(section) \in Nat
      /\ \A i \in 1..Len(section) : section[i].type \in {Asked, CNAME}
  BY <1>1, <1>2, SectionIs
<1>4. SRV # TXT /\ SRV # CNAME /\ TXT # CNAME
  BY DEF SRV, TXT, CNAME
<1>5. section # <<>> /\ section[1].type \in {Asked, CNAME}
  <2>1. 1 \in 1..Len(section) /\ Len(section) # 0
    BY <1>1, <1>3
  <2> QED
    BY <1>3, <2>1, EmptyLength
<1> QED
  BY <1>2, <1>4, <1>5, Zenon DEF Seeks, Misdirected

LEMMA NameInUtf8 ==
  ASSUME NEW name \in Name, Library = "dart"
  PROVE  Understood(name) \in Seq(Utf8) <=> name.labels \in Seq(Utf8)
<1> DEFINE ls == name.labels
           tail == IF name.compressed /\ Library # "csharp" THEN << <<120>> >> ELSE <<>>
           B == Seq(Octet)
<1>1. ls \in Seq(Label) /\ Label \subseteq B
  BY LabelsAreStrings DEF Label
<1>2. tail \in Seq(B) /\ Understood(name) = ls \o tail
  BY TailOfName
<1>3. tail \in Seq(Utf8)
  BY Utf8Assumption
<1> HIDE DEF ls, tail, B
<1>4. ls \in Seq(B) /\ Len(ls) \in Nat /\ DOMAIN ls = 1..Len(ls)
  BY <1>1
<1>5. ASSUME ls \in Seq(Utf8) PROVE ls \o tail \in Seq(Utf8)
  BY <1>3, <1>5
<1>6. ASSUME ls \o tail \in Seq(Utf8) PROVE ls \in Seq(Utf8)
  <2>1. \A i \in 1..Len(ls) : (ls \o tail)[i] = ls[i] /\ i \in 1..Len(ls \o tail)
    BY <1>2, <1>4
  <2>2. \A i \in 1..Len(ls) : ls[i] \in Utf8
    BY <1>6, <2>1
  <2> QED
    BY <1>4, <2>2
<1> QED
  BY <1>2, <1>5, <1>6 DEF ls

\* Dart decodes just what makes an answer decodable.
LEMMA DecodesWhat ==
  ASSUME IInv, stage = "walking", left > 0, Library = "dart",
         NEW k, k = Len(section) - left, NEW a, a = section[k + 1]
  PROVE  Decodable(a) <=> /\ Decodes(NameAt(pos))
                          /\ IsService => Decodes(NameAt(Data + 6))
                          /\ IsText => Decodes(<<Text>>)
<1>1. ~Misplaced
  BY DEF Misplaced, Library
<1>2. a \in Answer /\ a.type \in {Asked, CNAME}
  BY <1>1, Standing
<1>3. /\ NameAt(pos) = Understood(a.owner)
      /\ IsService <=> Seeks = SRV /\ a.type = SRV
      /\ IsService => NameAt(Data + 6) = Understood(a.target)
      /\ IsText <=> Seeks = TXT /\ a.type = TXT
      /\ IsText => Text = Head(a.strings)
  BY <1>1, Reading
<1>4. Seeks = Asked /\ SRV # CNAME /\ TXT # CNAME
  <2>1. Library # "lua"
    OBVIOUS
  <2> QED
    BY <1>1, <2>1, SeeksWhat, Zenon DEF Seeks
<1>5. (IsService <=> a.type = SRV) /\ (IsText <=> a.type = TXT)
  BY <1>2, <1>3, <1>4
<1>6. Decodes(NameAt(pos)) <=> a.owner.labels \in Seq(Utf8)
  <2>1. a.owner \in Name
    BY <1>2, RdataIs
  <2> QED
    BY <1>3, <2>1, NameInUtf8 DEF Decodes
<1>7. ASSUME IsService PROVE Decodes(NameAt(Data + 6)) <=> a.target.labels \in Seq(Utf8)
  <2>1. a.target \in Name
    BY <1>2, <1>5, <1>7, RdataIs
  <2> QED
    BY <1>3, <1>7, <2>1, NameInUtf8 DEF Decodes
<1>8. ASSUME IsText PROVE Decodes(<<Text>>) <=> Head(a.strings) \in Utf8
  <2>1. \A t : <<t>> \in Seq(Utf8) <=> t \in Utf8
    OBVIOUS
  <2> QED
    BY <1>3, <1>8, <2>1, Zenon DEF Decodes
<1> QED
  BY <1>5, <1>6, <1>7, <1>8, Zenon DEF Decodable

LEMMA NoneGivenUp ==
  ASSUME IInv, stage = "walked"
  PROVE  ~GivesUp
<1> SUFFICES ASSUME Library = "dart", NEW i \in DOMAIN section PROVE Decodable(section[i])
  BY DEF GivesUp
<1>1. ~Misplaced
  BY DEF Misplaced, Library
<1>2. left = 0 /\ section \in Sections[Asked] /\ walk \in Walk /\ HasDecoded
  BY <1>1, Zenon DEF IInv, TypeOK, ReadsAll, HasReply
<1>3. Len(section) \in Nat /\ DOMAIN section = 1..Len(section)
  BY <1>2, WalkIs, SectionIs
<1>4. i \in 1..(Len(section) - left)
  BY <1>2, <1>3
<1> QED
  BY <1>2, <1>4, Zenon DEF HasDecoded

----
(***************************************************************************)
(* The invariant, step by step.                                            *)
(***************************************************************************)

LEMMA StepReceive ==
  ASSUME IInv, Receive
  PROVE  IInv'
<1>1. walk \in Walk /\ walk' = walk /\ found = <<>> /\ found' = found
  BY Zenon DEF IInv, TypeOK, Waits, Receive
<1>2. Asked \in {SRV, TXT} /\ Asked' = Asked /\ Library' = Library
  BY <1>1, WalkIs, Zenon DEF Asked, Library
<1>3. PICK answers \in Sections[Asked] :
        /\ section' = answers /\ msg' = Message(Asked, answers) /\ left' = Len(answers)
        /\ stage' = "walking"
  BY Zenon DEF Receive
<1>4. /\ Message(Asked, answers) \in Seq(Octet) /\ Start(answers, 0) = 19
      /\ Len(answers) \in Nat
  BY <1>2, MessageIs, SectionIs
<1>5. pos' = 19
  <2>1. Asked \in UInt16 /\ 0 \in UInt16
    BY <1>2, TypesAreWords, MaxUInt16Is DEF UInt16
  <2> QED
    BY <2>1, OpeningIs DEF Receive
<1>6. Len(section') - left' = 0
  BY <1>3, <1>4
<1>7. TypeOK'
  <2>1. found' \in (IF Asked = SRV THEN Seq(FoundRecord) ELSE Seq(Seq(Octet)))
    <3>1. \A S : <<>> \in Seq(S)
      OBVIOUS
    <3> QED
      BY <1>1, <3>1, Zenon
  <2>2. 19 \in Nat
    OBVIOUS
  <2> QED
    BY <1>1, <1>2, <1>3, <1>4, <1>5, <2>1, <2>2, Zenon DEF TypeOK, FoundRecord
<1>8. HasReply' /\ OnStart' /\ Waits' /\ ReadsAll'
  <2>1. stage' # "asked" /\ stage' # "walked"
    BY <1>3
  <2>2. pos' = Start(section', Len(section') - left')
    BY <1>3, <1>4, <1>5, <1>6, Zenon
  <2> QED
    BY <1>2, <1>3, <2>1, <2>2, Zenon DEF HasReply, OnStart, Waits, ReadsAll
<1>9. HasRead'
  <2>1. Collected(0)'
    <3>1. Gathered(Firsts(section'), 0) = <<>>
      BY GatheredNone
    <3>2. Len(found') = 0 /\ 1..0 = {}
      BY <1>1, EmptyLength
    <3> QED
      BY <1>1, <3>1, <3>2 DEF Collected
  <2>2. left' \in 0..Len(section')
    BY <1>3, <1>4
  <2>3. Collected(Len(section) - left)'
    BY <1>6, <2>1, Zenon
  <2> QED
    BY <2>2, <2>3, Zenon DEF HasRead
<1>10. ChoosesBest' /\ ReadsTexts'
  <2>1. stage' # "done"
    BY <1>3
  <2> QED
    BY <2>1, Zenon DEF ChoosesBest, ReadsTexts, TextsAreRead
<1>11. HasDecoded'
  <2>1. 1..0 = {}
    OBVIOUS
  <2> QED
    BY <1>6, <2>1, Zenon DEF HasDecoded
<1> QED
  BY <1>7, <1>8, <1>9, <1>10, <1>11 DEF IInv

LEMMA StepTimesOut ==
  ASSUME IInv, TimesOut
  PROVE  IInv'
<1>1. /\ walk' = walk /\ section' = section /\ msg' = msg /\ pos' = pos /\ left' = left
      /\ found' = found /\ stage = "asked" /\ stage' = "done"
  BY Zenon DEF TimesOut
<1>2. TypeOK
  BY DEF IInv
<1>3. TypeOK'
  BY <1>1, <1>2 DEF TypeOK, Asked
<1>4. section' = NoReply
  BY <1>1, Zenon DEF IInv, Waits
<1>5. stage' \notin {"asked", "walking", "walked"}
  BY <1>1
<1>6. Waits' /\ HasReply' /\ OnStart' /\ HasRead' /\ HasDecoded' /\ ReadsAll'
  BY <1>5, Zenon DEF Waits, HasReply, OnStart, HasRead, HasDecoded, ReadsAll
<1>7. ChoosesBest' /\ ReadsTexts'
  BY <1>4, Zenon DEF ChoosesBest, ReadsTexts, TextsAreRead
<1> QED
  BY <1>3, <1>6, <1>7 DEF IInv

\* The parser whose lengths are misplaced runs past the end; no other does.
LEMMA StepRunsOver ==
  ASSUME IInv, RunsOver
  PROVE  IInv'
<1>1. /\ walk' = walk /\ section' = section /\ msg' = msg /\ pos' = pos /\ left' = left
      /\ found' = found /\ stage = "walking" /\ stage' = "done"
      /\ Reaches /\ Data > Len(msg)
  BY Zenon DEF RunsOver
<1>2. TypeOK
  BY DEF IInv
<1>3. TypeOK'
  BY <1>1, <1>2 DEF TypeOK, Asked
<1>4. Misplaced
  <2> SUFFICES ASSUME ~Misplaced PROVE FALSE
    OBVIOUS
  <2>1. left > 0
    BY <1>1 DEF Reaches
  <2>2. Fits
    BY <1>1, <2>1, Reading
  <2>3. Data \in Nat /\ Len(msg) \in Nat
    BY <1>2, <2>2, Ahead DEF TypeOK
  <2>4. Data <= Len(msg)
    BY <2>2, Zenon DEF Fits
  <2> QED
    BY <1>1, <2>3, <2>4
<1>5. Misplaced' /\ Asked' # SRV
  <2>1. TXT # SRV
    BY DEF TXT, SRV
  <2> QED
    BY <1>1, <1>4, <2>1 DEF Misplaced, Asked
<1>6. stage' \notin {"asked", "walking", "walked"}
  BY <1>1
<1>7. Waits' /\ HasReply' /\ OnStart' /\ HasRead' /\ HasDecoded' /\ ReadsAll'
  BY <1>6, Zenon DEF Waits, HasReply, OnStart, HasRead, HasDecoded, ReadsAll
<1>8. ChoosesBest' /\ ReadsTexts'
  BY <1>5, Zenon DEF ChoosesBest, ReadsTexts
<1> QED
  BY <1>3, <1>7, <1>8 DEF IInv

\* Dart gives up at an answer that is not decodable, and at no other.
LEMMA StepFailToDecode ==
  ASSUME IInv, FailToDecode
  PROVE  IInv'
<1>1. /\ walk' = walk /\ section' = section /\ msg' = msg /\ pos' = pos /\ left' = left
      /\ found' = found /\ stage = "walking" /\ stage' = "done" /\ outcome' = Threw /\ left > 0
      /\ ~ /\ Decodes(NameAt(pos))
           /\ IsService => Decodes(NameAt(Data + 6))
           /\ IsText => Decodes(<<Text>>)
  BY Zenon DEF FailToDecode
<1>2. TypeOK
  BY DEF IInv
<1>3. TypeOK'
  BY <1>1, <1>2 DEF TypeOK, Asked
<1>4. stage' \notin {"asked", "walking", "walked"}
  BY <1>1
<1>5. Waits' /\ HasReply' /\ OnStart' /\ HasRead' /\ HasDecoded' /\ ReadsAll'
  BY <1>4, Zenon DEF Waits, HasReply, OnStart, HasRead, HasDecoded, ReadsAll
<1>6. GivesUp
  <2>1. Library = "dart"
    BY <1>1, Zenon DEF Decodes
  <2>2. PICK k : k = Len(section) - left
    OBVIOUS
  <2>3. PICK a : a = section[k + 1]
    OBVIOUS
  <2>4. ~Decodable(a)
    BY <1>1, <2>1, <2>2, <2>3, DecodesWhat
  <2>5. k + 1 \in DOMAIN section
    <3>1. ~Misplaced
      BY <2>1 DEF Misplaced, Library
    <3>2. k + 1 \in 1..Len(section)
      BY <1>1, <2>2, <3>1, Standing
    <3>3. section \in Sections[Asked] /\ walk \in Walk
      BY <1>1, Zenon DEF IInv, TypeOK, HasReply
    <3> QED
      BY <3>2, <3>3, WalkIs, SectionIs
  <2> QED
    BY <2>1, <2>3, <2>4, <2>5 DEF GivesUp
<1>7. GivesUp'
  BY <1>1, <1>6, Zenon DEF GivesUp, Library
<1>8. ChoosesBest' /\ ReadsTexts'
  BY <1>1, <1>7, Zenon DEF ChoosesBest, ReadsTexts, TextsAreRead
<1> QED
  BY <1>3, <1>5, <1>8 DEF IInv

LEMMA StepStop ==
  ASSUME IInv, Stop
  PROVE  IInv'
<1>1. /\ walk' = walk /\ section' = section /\ msg' = msg /\ pos' = pos /\ left' = left
      /\ found' = found /\ stage = "walking" /\ stage' = "walked" /\ ~Fits
  BY Zenon DEF Stop
<1>2. TypeOK /\ HasReply /\ HasRead /\ HasDecoded
  BY DEF IInv
<1>3. TypeOK'
  BY <1>1, <1>2 DEF TypeOK, Asked
<1>4. Misplaced \/ left = 0
  <2> SUFFICES ASSUME ~Misplaced PROVE left = 0
    OBVIOUS
  <2>1. ~(left > 0)
    BY <1>1, Reading
  <2>2. left \in Nat
    BY <1>2, Zenon DEF TypeOK
  <2> QED
    BY <2>1, <2>2
<1>5. (Misplaced <=> Misplaced') /\ Asked' = Asked
  BY <1>1, Zenon DEF Misplaced, Asked
<1>6. ReadsAll'
  BY <1>1, <1>4, <1>5, Zenon DEF ReadsAll
<1>7. stage' # "asked" /\ stage' # "walking" /\ stage' # "done" /\ stage \in {"walking", "walked"}
  BY <1>1
<1>8. Waits' /\ HasReply' /\ OnStart' /\ ChoosesBest' /\ ReadsTexts'
  BY <1>1, <1>2, <1>5, <1>7, Zenon DEF Waits, HasReply, OnStart, ChoosesBest, ReadsTexts, TextsAreRead
<1>9. HasRead'
  <2>1. \A k : Collected(k) <=> Collected(k)'
    BY <1>1, RecordKept, Zenon DEF Collected, Asked, Misdirected, Library
  <2>2. Len(section') - left' = Len(section) - left
    BY <1>1, Zenon
  <2>3. ~Misplaced => left \in 0..Len(section) /\ Collected(Len(section) - left)
    BY <1>2, <1>7, Zenon DEF HasRead
  <2> QED
    BY <1>1, <1>5, <2>1, <2>2, <2>3, Zenon DEF HasRead
<1>10. HasDecoded'
  BY <1>1, <1>2, <1>7, Zenon DEF HasDecoded, Library
<1> QED
  BY <1>3, <1>6, <1>8, <1>9, <1>10 DEF IInv

\* What every step over an answer keeps.
LEMMA Advances ==
  ASSUME IInv, Advance, found' \in (IF Asked = SRV THEN Seq(FoundRecord) ELSE Seq(Seq(Octet))),
         NEW k, k = Len(section) - left, ~Misplaced => Collected(k + 1)',
         IsService => Decodes(NameAt(Data + 6)), IsText => Decodes(<<Text>>)
  PROVE  IInv'
<1>1. /\ walk' = walk /\ section' = section /\ msg' = msg /\ pos' = NextAt /\ left' = left - 1
      /\ stage = "walking" /\ stage' = stage /\ Fits /\ left > 0 /\ Decodes(NameAt(pos))
  BY Zenon DEF Advance, Fits, Reaches
<1>2. TypeOK /\ HasReply /\ HasRead
  BY DEF IInv
<1>3. TypeOK'
  <2>1. NextAt \in Nat /\ left - 1 \in Nat
    BY <1>1, <1>2, Ahead DEF TypeOK
  <2> QED
    BY <1>1, <1>2, <2>1, Zenon DEF TypeOK, Asked, FoundRecord
<1>4. (Misplaced <=> Misplaced') /\ Asked' = Asked
  BY <1>1, Zenon DEF Misplaced, Asked
<1>5. stage' # "asked" /\ stage' # "walked" /\ stage' # "done" /\ stage \in {"walking", "walked"}
  BY <1>1
<1>6. Waits' /\ HasReply' /\ ReadsAll' /\ ChoosesBest' /\ ReadsTexts'
  BY <1>1, <1>2, <1>4, <1>5, Zenon DEF Waits, HasReply, ReadsAll, ChoosesBest, ReadsTexts, TextsAreRead
<1>7. OnStart' /\ HasRead'
  <2> SUFFICES ASSUME ~Misplaced
               PROVE  /\ pos' = Start(section', Len(section') - left')
                      /\ left' \in 0..Len(section') /\ Collected(Len(section) - left)'
    BY <1>4, Zenon DEF OnStart, HasRead
  <2>2. PICK a : a = section[k + 1]
    OBVIOUS
  <2>3. NextAt = Start(section, k + 1)
    BY <1>1, <2>2, Reading
  <2>4. left \in 0..Len(section) /\ Len(section) \in Nat /\ walk \in Walk /\ section \in Sections[Asked]
    <3>1. left \in 0..Len(section) /\ walk \in Walk /\ section \in Sections[Asked]
      BY <1>2, <1>5, Zenon DEF HasRead, HasReply, TypeOK
    <3> QED
      BY <3>1, WalkIs, SectionIs
  <2>5. left - 1 \in 0..Len(section) /\ Len(section) - (left - 1) = k + 1
    BY <1>1, <2>4
  <2>6. Len(section') - left' = k + 1
    BY <1>1, <2>5, Zenon
  <2>7. Collected(k + 1)'
    OBVIOUS
  <2>8. Collected(Len(section) - left)'
    BY <2>6, <2>7, Zenon
  <2> QED
    BY <1>1, <2>3, <2>5, <2>6, <2>8, Zenon
<1>8. HasDecoded'
  <2> SUFFICES ASSUME Library = "dart", NEW i \in 1..(Len(section') - left')
               PROVE  Decodable(section'[i])
    BY <1>1, Zenon DEF HasDecoded, Library
  <2>1. PICK a : a = section[k + 1]
    OBVIOUS
  <2>2. Decodable(a)
    BY <1>1, <2>1, DecodesWhat
  <2>3. k \in Nat /\ Len(section') - left' = k + 1
    <3>1. left \in 0..Len(section) /\ Len(section) \in Nat
      <4>1. ~Misplaced
        BY DEF Misplaced, Library
      <4>2. left \in 0..Len(section) /\ section \in Sections[Asked] /\ walk \in Walk
        BY <1>2, <1>5, <4>1, Zenon DEF HasRead, HasReply, TypeOK
      <4> QED
        BY <4>2, WalkIs, SectionIs
    <3> QED
      BY <1>1, <3>1
  <2>4. i \in 1..k \/ i = k + 1
    BY <2>3
  <2>5. i \in 1..k => Decodable(section[i])
    BY <1>1, Zenon DEF IInv, HasDecoded
  <2> QED
    BY <1>1, <2>1, <2>2, <2>4, <2>5, Zenon
<1> QED
  BY <1>3, <1>6, <1>7, <1>8 DEF IInv

\* What is added to the texts, or to the records, by the answer that is next.
LEMMA CollectsText ==
  ASSUME IInv, stage = "walking", ~Misplaced, left > 0, Asked = TXT,
         NEW k, k = Len(section) - left, NEW a, a = section[k + 1],
         walk' = walk, section' = section,
         found' = IF a.type = TXT THEN Append(found, Head(a.strings)) ELSE found
  PROVE  Collected(k + 1)'
<1> DEFINE B == Seq(Octet)
           F == Firsts(section)
<1>1. found \in Seq(B) /\ Collected(k) /\ section \in Sections[TXT] /\ TXT \in {SRV, TXT}
  <2>1. TXT # SRV
    BY DEF TXT, SRV
  <2>2. TypeOK /\ HasRead /\ HasReply
    BY DEF IInv
  <2>3. found \in Seq(B)
    BY <2>1, <2>2, Zenon DEF TypeOK
  <2> QED
    BY <2>2, <2>3, Zenon DEF HasRead, HasReply
<1>2. k \in 0..(Len(section) - 1) /\ k + 1 \in 1..Len(section)
  BY Standing
<1>3. /\ F \in Seq(Seq(B)) /\ Len(F) = Len(section)
      /\ F[k + 1] = IF a.type = TXT THEN <<Head(a.strings)>> ELSE <<>>
  BY <1>1, <1>2, FirstsTyped
<1>4. found = Gathered(F, k)
  BY <1>1, Zenon DEF Collected
<1>5. k \in Nat /\ k < Len(F)
  <2>1. Len(section) \in Nat
    BY <1>1, SectionIs
  <2> QED
    BY <1>2, <1>3, <2>1
<1> HIDE DEF F, B
<1>6. Gathered(F, k + 1) = found \o F[k + 1]
  BY <1>3, <1>4, <1>5, GatheredNext, Zenon
<1>7. found' = found \o F[k + 1]
  <2>1. CASE a.type = TXT
    <3>1. \A s \in Seq(B) : \A e : Append(s, e) = s \o <<e>>
      OBVIOUS
    <3> QED
      BY <1>1, <1>3, <2>1, <3>1, Zenon
  <2>2. CASE a.type # TXT
    <3>1. \A s \in Seq(B) : s \o <<>> = s
      OBVIOUS
    <3> QED
      BY <1>1, <1>3, <2>2, <3>1, Zenon
  <2> QED
    BY <2>1, <2>2
<1>8. found' = Gathered(Firsts(section'), k + 1) /\ Asked' = TXT
  BY <1>6, <1>7, Zenon DEF F, Asked
<1> QED
  BY <1>8, Zenon DEF Collected

LEMMA CollectsRecord ==
  ASSUME IInv, stage = "walking", ~Misplaced, left > 0, Asked = SRV, ~Misdirected,
         NEW k, k = Len(section) - left, NEW a, a = section[k + 1],
         walk' = walk, section' = section,
         found' = IF a.type = SRV THEN Append(found, Record(a)) ELSE found
  PROVE  Collected(k + 1)'
<1>1. found \in Seq(FoundRecord) /\ Collected(k)
  <2>1. TypeOK /\ HasRead
    BY DEF IInv
  <2> QED
    BY <2>1, Zenon DEF HasRead, TypeOK, FoundRecord
<1>2. SRV # TXT
  BY DEF SRV, TXT
<1> DEFINE Is(i) == section[i].type = SRV
           R(i) == Record(section[i])
           n == Len(found)
<1>3. /\ \A j \in 1..n : \E i \in 1..k : Is(i) /\ found[j] = R(i)
      /\ \A i \in 1..k : Is(i) => \E j \in 1..n : found[j] = R(i)
  BY <1>1, <1>2, Zenon DEF Collected
<1>4. k \in Nat
  <2>1. k \in 0..(Len(section) - 1)
    BY Standing
  <2> QED
    BY <2>1
<1>5. n \in Nat
  BY <1>1
<1>6. a.type = SRV <=> Is(k + 1)
  OBVIOUS
<1>7. Record(a) = R(k + 1)
  OBVIOUS
<1> HIDE DEF Is, R
<1>8. /\ \A j \in 1..Len(found') : \E i \in 1..(k + 1) : Is(i) /\ found'[j] = R(i)
      /\ \A i \in 1..(k + 1) : Is(i) => \E j \in 1..Len(found') : found'[j] = R(i)
  <2>1. CASE ~Is(k + 1)
    <3>1. found' = found
      BY <1>6, <2>1
    <3>2. \A i \in 1..(k + 1) : Is(i) => i \in 1..k
      BY <1>4, <2>1
    <3>3. \A i \in 1..k : i \in 1..(k + 1)
      BY <1>4
    <3> QED
      BY <1>3, <3>1, <3>2, <3>3, Zenon
  <2>2. CASE Is(k + 1)
    <3>1. found' = Append(found, R(k + 1))
      BY <1>6, <1>7, <2>2
    <3>2. /\ Len(found') = n + 1 /\ found'[n + 1] = R(k + 1)
          /\ \A j \in 1..n : found'[j] = found[j]
      BY <1>1, <3>1
    <3> HIDE DEF n
    <3>3. /\ \A i \in 1..k : i \in 1..(k + 1)
          /\ \A i \in 1..(k + 1) : i \in 1..k \/ i = k + 1
          /\ \A j \in 1..(n + 1) : j \in 1..n \/ j = n + 1
          /\ \A j \in 1..n : j \in 1..(n + 1)
          /\ k + 1 \in 1..(k + 1) /\ n + 1 \in 1..(n + 1)
      BY <1>4, <1>5
    <3>4. ASSUME NEW j \in 1..(n + 1) PROVE \E i \in 1..(k + 1) : Is(i) /\ found'[j] = R(i)
      <4>1. CASE j \in 1..n
        <5>1. PICK i \in 1..k : Is(i) /\ found[j] = R(i)
          BY <1>3, <4>1
        <5>2. found'[j] = R(i) /\ i \in 1..(k + 1)
          BY <3>2, <3>3, <4>1, <5>1, Zenon
        <5> QED
          BY <5>1, <5>2
      <4>2. CASE j = n + 1
        BY <2>2, <3>2, <3>3, <4>2, Zenon
      <4> QED
        BY <3>3, <4>1, <4>2
    <3>5. ASSUME NEW i \in 1..(k + 1), Is(i) PROVE \E j \in 1..(n + 1) : found'[j] = R(i)
      <4>1. CASE i \in 1..k
        <5>1. PICK j \in 1..n : found[j] = R(i)
          BY <1>3, <3>5, <4>1
        <5>2. found'[j] = R(i) /\ j \in 1..(n + 1)
          BY <3>2, <3>3, <5>1, Zenon
        <5> QED
          BY <5>2
      <4>2. CASE i = k + 1
        BY <3>2, <3>3, <4>2, Zenon
      <4> QED
        BY <3>3, <4>1, <4>2
    <3>6. \A j \in 1..(n + 1) : \E i \in 1..(k + 1) : Is(i) /\ found'[j] = R(i)
      BY <3>4
    <3>7. \A i \in 1..(k + 1) : Is(i) => \E j \in 1..(n + 1) : found'[j] = R(i)
      BY <3>5
    <3> DEFINE Both(m) == /\ \A j \in 1..m : \E i \in 1..(k + 1) : Is(i) /\ found'[j] = R(i)
                          /\ \A i \in 1..(k + 1) : Is(i) => \E j \in 1..m : found'[j] = R(i)
    <3>8. Both(n + 1)
      BY <3>6, <3>7, Zenon
    <3> HIDE DEF Both
    <3>9. Both(Len(found'))
      BY <3>2, <3>8, Zenon
    <3> QED
      BY <3>9, Zenon DEF Both
  <2> QED
    BY <2>1, <2>2
<1>9. /\ Asked' = SRV /\ ~Misdirected' /\ \A x : Record(x)' = Record(x)
  BY RecordKept, Zenon DEF Asked, Misdirected, Library
<1> QED
  BY <1>2, <1>8, <1>9, Zenon DEF Collected, Is, R

LEMMA StepTakeService ==
  ASSUME IInv, TakeService
  PROVE  IInv'
<1>1. /\ Advance /\ IsService /\ found' = Append(found, Service) /\ Seeks = SRV
      /\ Decodes(NameAt(Data + 6))
      /\ stage = "walking" /\ left > 0 /\ walk' = walk /\ section' = section
  BY Zenon DEF TakeService, Advance, Fits, Reaches, IsService
<1>2. ~Misplaced
  <2> SUFFICES ASSUME Misplaced PROVE FALSE
    OBVIOUS
  <2>1. Library = "csharp" /\ Asked = TXT /\ TXT # SRV
    BY DEF Misplaced, Library, Asked, TXT, SRV
  <2>2. "csharp" # "lua"
    OBVIOUS
  <2> QED
    BY <1>1, <2>1, <2>2, Zenon DEF Seeks
<1>3. PICK k : k = Len(section) - left
  OBVIOUS
<1>4. PICK a : a = section[k + 1]
  OBVIOUS
<1>5. Service = Record(a) /\ a.type = SRV
  BY <1>1, <1>2, <1>3, <1>4, Reading
<1>6. a \in Answer /\ a.type \in {Asked, CNAME}
  BY <1>1, <1>2, <1>3, <1>4, Standing
<1>7. Asked = SRV /\ ~Misdirected
  BY <1>1, <1>2, <1>5, <1>6, SeeksWhat
<1>8. found' = Append(found, Record(a))
  BY <1>1, <1>5, Zenon
<1>9. Collected(k + 1)'
  <2>1. found' = IF a.type = SRV THEN Append(found, Record(a)) ELSE found
    BY <1>5, <1>8, Zenon
  <2> QED
    BY <1>1, <1>2, <1>3, <1>4, <1>7, <2>1, CollectsRecord
<1>10. found' \in Seq(FoundRecord)
  <2>1. found \in Seq(FoundRecord)
    BY <1>7, Zenon DEF IInv, TypeOK, FoundRecord
  <2>2. Record(a) \in FoundRecord
    BY <1>5, <1>6, RecordTyped
  <2> QED
    BY <1>8, <2>1, <2>2
<1>11. ~IsText
  <2>1. SRV # TXT
    BY DEF SRV, TXT
  <2> QED
    BY <1>1, <2>1, Zenon DEF IsText
<1> QED
  BY <1>1, <1>3, <1>7, <1>9, <1>10, <1>11, Advances

LEMMA StepTakeText ==
  ASSUME IInv, TakeText
  PROVE  IInv'
<1>1. /\ Advance /\ IsText /\ found' = Append(found, Text) /\ Seeks = TXT
      /\ Decodes(<<Text>>)
      /\ stage = "walking" /\ left > 0 /\ walk' = walk /\ section' = section /\ Fits
  BY Zenon DEF TakeText, Advance, Fits, Reaches, IsText
<1>2. PICK k : k = Len(section) - left
  OBVIOUS
<1>3. Asked = TXT /\ Text \in Seq(Octet) /\ (~Misplaced => Collected(k + 1)')
  <2>1. CASE Misplaced
    <3>1. Library = "csharp" /\ Asked = TXT
      BY <2>1 DEF Misplaced, Library, Asked
    <3>2. TypeOK
      BY DEF IInv
    <3> QED
      BY <1>1, <2>1, <3>1, <3>2, Ahead
  <2>2. CASE ~Misplaced
    <3>1. PICK a : a = section[k + 1]
      OBVIOUS
    <3>2. Text = Head(a.strings) /\ a.type = TXT
      BY <1>1, <1>2, <2>2, <3>1, Reading
    <3>3. a \in Answer /\ a.type \in {Asked, CNAME}
      BY <1>1, <1>2, <2>2, <3>1, Standing
    <3>4. Asked = TXT
      BY <1>1, <2>2, <3>2, <3>3, SeeksWhat
    <3>5. Text \in Seq(Octet)
      <4> DEFINE ss == a.strings
      <4>1. ss \in Seq(CharacterString) /\ ss # <<>>
        BY <3>2, <3>3, RdataIs
      <4> HIDE DEF ss
      <4>2. Head(ss) \in CharacterString
        BY <4>1
      <4>3. Head(ss) \in Seq(Octet)
        BY <4>2, CountedString
      <4> QED
        BY <3>2, <4>3, Zenon DEF ss
    <3>6. found' = IF a.type = TXT THEN Append(found, Head(a.strings)) ELSE found
      BY <1>1, <3>2, Zenon
    <3>7. Collected(k + 1)'
      BY <1>1, <1>2, <2>2, <3>1, <3>4, <3>6, CollectsText
    <3> QED
      BY <3>4, <3>5, <3>7
  <2> QED
    BY <2>1, <2>2
<1>4. found' \in Seq(Seq(Octet)) /\ Asked # SRV
  <2>1. TXT # SRV
    BY DEF TXT, SRV
  <2>2. Asked # SRV
    BY <1>3, <2>1
  <2> DEFINE B == Seq(Octet)
  <2>3. found \in Seq(B)
    BY <2>2, Zenon DEF IInv, TypeOK
  <2>4. Text \in B
    BY <1>3
  <2> HIDE DEF B
  <2>5. found' \in Seq(B)
    BY <1>1, <2>3, <2>4
  <2> QED
    BY <2>2, <2>5 DEF B
<1>5. ~IsService
  <2>1. SRV # TXT
    BY DEF SRV, TXT
  <2> QED
    BY <1>1, <2>1, Zenon DEF IsService
<1> QED
  BY <1>1, <1>2, <1>3, <1>4, <1>5, Advances

LEMMA StepPassOver ==
  ASSUME IInv, PassOver
  PROVE  IInv'
<1>1. /\ Advance /\ ~IsService /\ ~IsText /\ found' = found
      /\ stage = "walking" /\ left > 0 /\ walk' = walk /\ section' = section
  BY Zenon DEF PassOver, Advance, Fits, Reaches
<1>2. PICK k : k = Len(section) - left
  OBVIOUS
<1>3. ASSUME ~Misplaced PROVE Collected(k + 1)'
  <2>1. PICK a : a = section[k + 1]
    OBVIOUS
  <2>2. (IsService <=> Seeks = SRV /\ a.type = SRV) /\ (IsText <=> Seeks = TXT /\ a.type = TXT)
    BY <1>1, <1>2, <1>3, <2>1, Reading
  <2>3. /\ Asked \in {SRV, TXT} /\ SRV # TXT
        /\ Asked = TXT => Seeks = TXT
        /\ Asked = SRV => (Seeks = SRV <=> ~Misdirected)
    BY <1>1, <1>3, SeeksWhat
  <2>4. CASE Asked = TXT
    <3>1. found' = IF a.type = TXT THEN Append(found, Head(a.strings)) ELSE found
      BY <1>1, <2>2, <2>3, <2>4, Zenon
    <3> QED
      BY <1>1, <1>2, <1>3, <2>1, <2>4, <3>1, CollectsText
  <2>5. CASE Asked = SRV /\ ~Misdirected
    <3>1. found' = IF a.type = SRV THEN Append(found, Record(a)) ELSE found
      BY <1>1, <2>2, <2>3, <2>5, Zenon
    <3> QED
      BY <1>1, <1>2, <1>3, <2>1, <2>5, <3>1, CollectsRecord
  <2>6. CASE Asked = SRV /\ Misdirected
    <3>1. Collected(k)
      BY <1>1, <1>2, <1>3, Zenon DEF IInv, HasRead
    <3>2. found = <<>>
      BY <2>3, <2>6, <3>1, Zenon DEF Collected
    <3>3. Asked' = SRV /\ Misdirected'
      BY <1>1, <2>6, Zenon DEF Asked, Misdirected, Library
    <3> QED
      BY <1>1, <2>3, <3>2, <3>3, Zenon DEF Collected
  <2> QED
    BY <2>3, <2>4, <2>5, <2>6
<1>4. found' \in (IF Asked = SRV THEN Seq(FoundRecord) ELSE Seq(Seq(Octet)))
  BY <1>1, Zenon DEF IInv, TypeOK, FoundRecord
<1> QED
  BY <1>1, <1>2, <1>3, <1>4, Advances

\* The records found are those of the service answers, so the best of them is
\* the best of these.
LEMMA BestIsChosen ==
  ASSUME IInv, ReturnService, ~Misdirected,
         NEW services, services = {answer \in ToSet(section) : answer.type = SRV}
  PROVE  IF services = {} THEN outcome' = Nothing
         ELSE /\ outcome' \notin {Nothing, Threw}
              /\ \E best \in services :
                   /\ \A other \in services : ~Better(other, best)
                   /\ outcome'.port = best.port
                   /\ Legible(best) => outcome'.target = Whole(best.target)
<1>1. stage = "walked" /\ Asked = SRV /\ SRV # TXT
  BY DEF ReturnService, SRV, TXT
<1>2. ~Misplaced
  BY <1>1 DEF Misplaced, Asked
<1> DEFINE n == Len(section)
<1>3. section \in Sections[SRV] /\ left = 0 /\ found \in Seq(FoundRecord) /\ Collected(n - left)
  BY <1>1, <1>2, Zenon DEF IInv, TypeOK, FoundRecord, HasReply, HasRead, ReadsAll
<1>4. /\ n \in Nat /\ DOMAIN section = 1..n
      /\ \A i \in 1..n : section[i] \in Answer
  <2>1. SRV \in {SRV, TXT}
    OBVIOUS
  <2> QED
    BY <1>3, <2>1, SectionIs
<1>5. Collected(n)
  <2>1. n - left = n
    BY <1>3, <1>4
  <2> QED
    BY <1>3, <2>1, Zenon
<1>6. /\ \A j \in 1..Len(found) :
           \E i \in 1..n : section[i].type = SRV /\ found[j] = Record(section[i])
      /\ \A i \in 1..n :
           section[i].type = SRV => \E j \in 1..Len(found) : found[j] = Record(section[i])
  BY <1>1, <1>5, Zenon DEF Collected
<1> HIDE DEF n
<1>7. /\ \A i \in 1..n : section[i].type = SRV => section[i] \in services
      /\ \A s \in services : \E i \in 1..n : s = section[i] /\ s.type = SRV
  BY <1>4 DEF ToSet
<1>8. Len(found) \in Nat /\ DOMAIN found = 1..Len(found)
  BY <1>3
<1>9. CASE services = {}
  <2>1. found = <<>>
    <3>1. ASSUME NEW j \in 1..Len(found) PROVE FALSE
      <4>1. PICK i \in 1..n : section[i].type = SRV
        BY <1>6
      <4> QED
        BY <1>7, <1>9, <4>1
    <3>2. Len(found) = 0
      BY <1>8, <3>1
    <3> QED
      BY <1>3, <3>2, EmptySeq
  <2>2. DOMAIN found = {}
    <3>1. 1..0 = {}
      OBVIOUS
    <3> QED
      BY <1>8, <2>1, <3>1, EmptyLength
  <2>3. outcome' = Nothing
    BY <2>2, Zenon DEF ReturnService
  <2> QED
    BY <1>9, <2>3
<1>10. CASE services # {}
  <2>1. found # <<>>
    <3>1. PICK s \in services : TRUE
      BY <1>10
    <3>2. PICK i \in 1..n : s = section[i] /\ s.type = SRV
      BY <1>7
    <3>3. PICK j \in 1..Len(found) : found[j] = Record(section[i])
      BY <1>6, <3>2
    <3>4. Len(found) # 0
      BY <3>3
    <3> QED
      BY <3>4, EmptyLength
  <2>2. PICK j \in DOMAIN found :
          /\ \A x \in DOMAIN found : ~Sorts(found[x], found[j])
          /\ outcome' = [target |-> found[j].target, port |-> found[j].port]
    BY <2>1, Zenon DEF ReturnService
  <2>3. PICK b \in 1..n : section[b].type = SRV /\ found[j] = Record(section[b])
    BY <1>6, <1>8, <2>2
  <2> DEFINE best == section[b]
  <2>4. best \in services /\ best \in Answer
    BY <1>4, <1>7, <2>3
  <2>5. ASSUME NEW other \in services PROVE ~Better(other, best)
    <3>1. PICK i \in 1..n : other = section[i] /\ other.type = SRV
      BY <1>7
    <3>2. PICK x \in 1..Len(found) : found[x] = Record(section[i])
      BY <1>6, <3>1
    <3>3. ~Sorts(Record(other), Record(best))
      BY <1>8, <2>2, <2>3, <3>1, <3>2, Zenon
    <3>4. /\ Record(other).priority = other.priority /\ Record(other).weight = other.weight
          /\ Record(best).priority = best.priority /\ Record(best).weight = best.weight
      BY DEF Record
    <3> QED
      BY <3>3, <3>4, Zenon DEF Sorts, Better
  <2>6. outcome' = [target |-> Written(Understood(best.target)), port |-> best.port]
    <3>1. found[j].target = Written(Understood(best.target)) /\ found[j].port = best.port
      BY <2>3 DEF Record
    <3> QED
      BY <2>2, <3>1, Zenon
  <2>7. Written(Understood(best.target)) \in Seq(Seq(Octet)) /\ best.port \in UInt16
    BY <2>3, <2>4, RecordTyped
  <2>8. outcome' \notin {Nothing, Threw}
    <3>1. outcome' \in [target : Seq(Seq(Octet)), port : UInt16]
      BY <2>6, <2>7, Zenon
    <3> QED
      BY <3>1, MarkerAssumption, Zenon
  <2>9. outcome'.port = best.port /\ outcome'.target = Written(Understood(best.target))
    BY <2>6
  <2>10. Legible(best) => Written(Understood(best.target)) = Whole(best.target)
    <3> DEFINE t == best.target
               ls == t.labels
    <3>1. ls \in Seq(Label) /\ Label \subseteq Seq(Octet)
      <4>1. t \in Name
        BY <2>3, <2>4, RdataIs
      <4> QED
        BY <4>1, LabelsAreStrings DEF Label
    <3>2. ASSUME Library = "csharp", Legible(best) PROVE Written(ls) = Whole(t)
      <4>1. ~t.compressed /\ \A i \in DOMAIN ls : ls[i] \in Seq(0..127)
        BY <3>2, Zenon DEF Legible
      <4>2. Whole(t) = ls \o <<>>
        BY <4>1, Zenon DEF Whole
      <4> HIDE DEF ls
      <4>3. ls \o <<>> = ls
        BY <3>1
      <4>4. ls \in Seq(Seq(Octet))
        <5> DEFINE B == Seq(Octet)
        <5>1. Label \subseteq B
          BY <3>1
        <5> HIDE DEF B
        <5>2. ls \in Seq(B)
          BY <3>1, <5>1
        <5> QED
          BY <5>2 DEF B
      <4>5. Written(ls) = ls
        BY <4>1, <4>4, WrittenInAscii
      <4> QED
        BY <4>2, <4>3, <4>5, Zenon
    <3>3. ASSUME Library # "csharp" PROVE Written(Understood(t)) = Whole(t)
      BY <3>3, Zenon DEF Written, Understood
    <3> QED
      BY <3>2, <3>3, Zenon DEF Understood
  <2> QED
    BY <1>10, <2>4, <2>5, <2>8, <2>9, <2>10, Zenon
<1> QED
  BY <1>9, <1>10

LEMMA StepReturnService ==
  ASSUME IInv, ReturnService
  PROVE  IInv'
<1>1. /\ walk' = walk /\ section' = section /\ msg' = msg /\ pos' = pos /\ left' = left
      /\ found' = found /\ stage = "walked" /\ stage' = "done" /\ Asked = SRV
  BY Zenon DEF ReturnService
<1>2. TypeOK
  BY DEF IInv
<1>3. TypeOK'
  BY <1>1, <1>2 DEF TypeOK, Asked
<1>4. stage' \notin {"asked", "walking", "walked"}
  BY <1>1
<1>5. Waits' /\ HasReply' /\ OnStart' /\ HasRead' /\ HasDecoded' /\ ReadsAll'
  BY <1>4, Zenon DEF Waits, HasReply, OnStart, HasRead, HasDecoded, ReadsAll
<1>6. ReadsTexts'
  <2>1. Asked' # TXT
    BY <1>1 DEF Asked, SRV, TXT
  <2> QED
    BY <2>1, Zenon DEF ReadsTexts, TextsAreRead
<1>7. ~GivesUp'
  BY <1>1, NoneGivenUp, Zenon DEF GivesUp, Library
<1>8. ChoosesBest'
  <2> SUFFICES ASSUME ~Misdirected'
               PROVE  LET services == {answer \in ToSet(section') : answer.type = SRV}
                      IN IF services = {} THEN outcome' = Nothing
                         ELSE /\ outcome' \notin {Nothing, Threw}
                              /\ \E best \in services :
                                   /\ \A other \in services : ~Better(other, best)
                                   /\ outcome'.port = best.port
                                   /\ Legible(best)' => outcome'.target = Whole(best.target)
    BY <1>7, Zenon DEF ChoosesBest
  <2>1. ~Misdirected
    BY <1>1, Zenon DEF Misdirected, Library
  <2>2. \A best : Legible(best)' <=> Legible(best)
    BY <1>1, Zenon DEF Legible, Library
  <2>3. PICK services : services = {answer \in ToSet(section) : answer.type = SRV}
    OBVIOUS
  <2>4. IF services = {} THEN outcome' = Nothing
        ELSE /\ outcome' \notin {Nothing, Threw}
             /\ \E best \in services :
                  /\ \A other \in services : ~Better(other, best)
                  /\ outcome'.port = best.port
                  /\ Legible(best) => outcome'.target = Whole(best.target)
    BY <2>1, <2>3, BestIsChosen
  <2>5. services = {answer \in ToSet(section') : answer.type = SRV}
    BY <1>1, <2>3, Zenon
  <2> QED
    BY <2>2, <2>4, <2>5, Zenon
<1> QED
  BY <1>3, <1>5, <1>6, <1>8 DEF IInv

LEMMA StepReturnTexts ==
  ASSUME IInv, ReturnTexts
  PROVE  IInv'
<1>1. /\ walk' = walk /\ section' = section /\ msg' = msg /\ pos' = pos /\ left' = left
      /\ found' = found /\ stage = "walked" /\ stage' = "done" /\ Asked = TXT /\ outcome' = found
  BY Zenon DEF ReturnTexts
<1>2. TypeOK
  BY DEF IInv
<1>3. TypeOK'
  BY <1>1, <1>2 DEF TypeOK, Asked
<1>4. stage' \notin {"asked", "walking", "walked"}
  BY <1>1
<1>5. Waits' /\ HasReply' /\ OnStart' /\ HasRead' /\ HasDecoded' /\ ReadsAll'
  BY <1>4, Zenon DEF Waits, HasReply, OnStart, HasRead, HasDecoded, ReadsAll
<1>6. ChoosesBest'
  <2>1. Asked' # SRV
    BY <1>1 DEF Asked, SRV, TXT
  <2> QED
    BY <2>1, Zenon DEF ChoosesBest
<1>7. ReadsTexts'
  <2>0. ~GivesUp'
    BY <1>1, NoneGivenUp, Zenon DEF GivesUp, Library
  <2> SUFFICES ASSUME ~Misplaced PROVE outcome' = FirstStrings(section')
    BY <1>1, <2>0, Zenon DEF ReadsTexts, TextsAreRead, Misplaced
  <2>1. section \in Sections[TXT] /\ left = 0 /\ Collected(Len(section) - left)
    BY <1>1, Zenon DEF IInv, HasReply, HasRead, ReadsAll
  <2>2. TXT \in {SRV, TXT}
    OBVIOUS
  <2>3. /\ Firsts(section) \in Seq(Seq(Seq(Octet))) /\ Len(Firsts(section)) = Len(section)
        /\ Len(section) \in Nat
    BY <2>1, <2>2, FirstsTyped, SectionIs
  <2>4. Len(section) - left = Len(Firsts(section))
    BY <2>1, <2>3
  <2>5. found = Gathered(Firsts(section), Len(Firsts(section)))
    BY <1>1, <2>1, <2>4, Zenon DEF Collected
  <2>6. found = FlattenSeq(Firsts(section))
    BY <2>3, <2>5, GatheredAll
  <2>7. FirstStrings(section) = FlattenSeq(Firsts(section))
    BY Zenon DEF FirstStrings, Firsts
  <2> QED
    BY <1>1, <2>6, <2>7, Zenon
<1> QED
  BY <1>3, <1>5, <1>6, <1>7 DEF IInv

----
(***************************************************************************)
(* The results.                                                            *)
(***************************************************************************)

THEOREM Invariance == Spec => []IInv
<1>1. Init => IInv
  <2> SUFFICES ASSUME Init PROVE IInv
    OBVIOUS
  <2>1. TypeOK
    BY DEF Init, TypeOK
  <2>2. stage = "asked" /\ section = NoReply /\ found = <<>>
    BY Zenon DEF Init
  <2>3. Waits
    BY <2>2, Zenon DEF Waits
  <2>4. stage \notin {"walking", "walked", "done"}
    BY <2>2
  <2>5. HasReply /\ OnStart /\ HasRead /\ HasDecoded /\ ReadsAll /\ ChoosesBest /\ ReadsTexts
    BY <2>4, Zenon DEF HasReply, OnStart, HasRead, HasDecoded, ReadsAll, ChoosesBest, ReadsTexts,
                       TextsAreRead
  <2> QED
    BY <2>1, <2>3, <2>5 DEF IInv
<1>2. IInv /\ [Next]_vars => IInv'
  <2> SUFFICES ASSUME IInv, [Next]_vars PROVE IInv'
    OBVIOUS
  <2>1. CASE Receive
    BY <2>1, StepReceive
  <2>2. CASE TimesOut
    BY <2>2, StepTimesOut
  <2>3. CASE TakeService
    BY <2>3, StepTakeService
  <2>4. CASE TakeText
    BY <2>4, StepTakeText
  <2>5. CASE PassOver
    BY <2>5, StepPassOver
  <2>6. CASE RunsOver
    BY <2>6, StepRunsOver
  <2>7. CASE Stop
    BY <2>7, StepStop
  <2>8. CASE FailToDecode
    BY <2>8, StepFailToDecode
  <2>9. CASE ReturnService
    BY <2>9, StepReturnService
  <2>10. CASE ReturnTexts
    BY <2>10, StepReturnTexts
  <2>11. CASE UNCHANGED vars
    <3>1. /\ walk' = walk /\ section' = section /\ msg' = msg /\ pos' = pos /\ left' = left
          /\ found' = found /\ stage' = stage /\ outcome' = outcome
      BY <2>11, Zenon DEF vars
    <3>2. \A k : Collected(k)' <=> Collected(k)
      BY <3>1, RecordKept, Zenon DEF Collected, Asked, Misdirected, Library
    <3>3. HasRead'
      BY <3>1, <3>2, Zenon DEF IInv, HasRead, Misplaced
    <3>4. TypeOK' /\ Waits' /\ HasReply' /\ OnStart' /\ HasDecoded' /\ ReadsAll'
      BY <3>1, Zenon DEF IInv, TypeOK, Asked, Waits, HasReply, OnStart, HasDecoded, Library,
                         ReadsAll, Misplaced
    <3>5. ChoosesBest' /\ ReadsTexts'
      BY <3>1, Zenon DEF IInv, ChoosesBest, ReadsTexts, TextsAreRead, Misdirected, Misplaced,
                         Legible, GivesUp, Asked, Library
    <3> QED
      BY <3>3, <3>4, <3>5 DEF IInv
  <2> QED
    BY <2>1, <2>2, <2>3, <2>4, <2>5, <2>6, <2>7, <2>8, <2>9, <2>10, <2>11 DEF Next
<1> QED
  BY <1>1, <1>2, PTL DEF Spec

\* The parsers keep to the types: what they find are records, or texts, even
\* where C# reads the lengths in the wrong place.
THEOREM TypeCorrect == Spec => []TypeOK
<1>1. IInv => TypeOK
  BY DEF IInv
<1> QED
  BY <1>1, Invariance, PTL

\* Between two answers every parser, but that of C# for texts, is where the one
\* ends and the other begins, however many answers, names and strings there are.
THEOREM AlignedHolds == Spec => []Aligned
<1>1. IInv => Aligned
  <2> SUFFICES ASSUME IInv, stage = "walking", ~Misplaced
               PROVE  pos = Len(Message(Asked, SubSeq(section, 1, Len(section) - left)))
    BY Zenon DEF Aligned
  <2>1. PICK k : k = Len(section) - left
    OBVIOUS
  <2>2. /\ section \in Sections[Asked] /\ left \in 0..Len(section) /\ pos = Start(section, k)
        /\ walk \in Walk
    BY <2>1, Zenon DEF IInv, TypeOK, HasReply, HasRead, OnStart
  <2>3. Asked \in {SRV, TXT}
    BY <2>2, WalkIs
  <2>4. Len(section) \in Nat
    BY <2>2, <2>3, SectionIs
  <2>5. k \in 0..Len(section)
    BY <2>1, <2>2, <2>4
  <2>6. Len(Message(Asked, SubSeq(section, 1, k))) = Start(section, k)
    BY <2>2, <2>3, <2>5, MessageOfFirst
  <2> QED
    BY <2>1, <2>2, <2>6, Zenon
<1> QED
  BY <1>1, Invariance, PTL

\* Whatever answers a reply has, in whatever order, the caller gets target and
\* port of a record of lowest priority and then highest weight; Dart throws if
\* it meets a name that is not UTF-8, and only then.
THEOREM ChoosesBestHolds == Spec => []ChoosesBest
<1>1. IInv => ChoosesBest
  BY DEF IInv
<1> QED
  BY <1>1, Invariance, PTL

\* Dart and Lua return the first string of every text record, in order, whatever
\* its octets; Dart throws if it or a name is not UTF-8, and only then.
THEOREM ReadsTextsHolds == Spec => []ReadsTexts
<1>1. IInv => ReadsTexts
  BY DEF IInv
<1> QED
  BY <1>1, Invariance, PTL

====
