---- MODULE Srv_proofs ----
(***************************************************************************)
(* The SRV records of a domain, for answer sections of every length: what  *)
(* the scan of extract_srv chooses, and the libraries that sort; and what  *)
(* callers get that ask for several services, one after the other.         *)
(***************************************************************************)
EXTENDS SrvLibraries, Services, SequenceTheorems, TLAPS

(***************************************************************************)
(* SrvScan and SrvLibraries: the choice of a record.                       *)
(***************************************************************************)

(***************************************************************************)
(* The loop invariant: the locals describe the choice among the answers    *)
(* before i, or no usable answer has been seen.                            *)
(***************************************************************************)
Seen == 1..(i - 1)

NoneSeen == best_idx = 0 => \A j \in Seen : ~IsUsable(response[j])

BestSeen ==
  best_idx # 0 =>
    /\ IsUsable(response[best_idx])
    /\ response[best_idx].priority = best_priority
    /\ response[best_idx].weight = best_weight
    /\ \A j \in Seen : IsUsable(response[j]) =>
         /\ ~RanksBefore(response[j], response[best_idx])
         /\ j < best_idx => RanksBefore(response[best_idx], response[j])

\* A verdict is given only at the end, and says what the locals say.
Verdict ==
  /\ result = "KIRIN_OK" => i = Len(response) + 1 /\ best_idx # 0
  /\ result = "KIRIN_ERR_DNS" => i = Len(response) + 1 /\ best_idx = 0

ScanInv == ScanTypeOK /\ NoneSeen /\ BestSeen /\ Verdict

LEMMA ResponseIsSeq == ScanInit => response \in Seq(Answer)
  BY ResponseAssumption DEF ScanInit

LEMMA ScanInvInit == ScanInit => ScanInv
<1> SUFFICES ASSUME ScanInit PROVE ScanInv
  OBVIOUS
<1>1. response \in Seq(Answer) /\ Len(response) \in Nat
  BY ResponseIsSeq
<1>2. ScanTypeOK
  BY <1>1 DEF ScanInit, ScanTypeOK, UInt16
<1>3. NoneSeen /\ BestSeen /\ Verdict
  BY DEF ScanInit, NoneSeen, BestSeen, Verdict, Seen
<1> QED BY <1>2, <1>3 DEF ScanInv

\* The 16-bit numbers are integers.
LEMMA UInt16Int == ASSUME NEW n \in UInt16 PROVE n \in Int
  BY SMTT(30) DEF UInt16

\* The fields of an answer in the section are 16-bit numbers.
LEMMA AnswerFields ==
  ASSUME ScanTypeOK, NEW j \in DOMAIN response
  PROVE  /\ response[j] \in Answer
         /\ response[j].priority \in Int
         /\ response[j].weight \in Int
<1>1. response[j] \in Answer
  BY DEF ScanTypeOK
<1>2. response[j].priority \in UInt16 /\ response[j].weight \in UInt16
  BY <1>1 DEF Answer
<1> QED BY <1>1, <1>2, UInt16Int DEF Answer

LEMMA SkipKeeps == ScanInv /\ Skip => ScanInv'
<1> SUFFICES ASSUME ScanInv, Skip PROVE ScanInv'
  OBVIOUS
<1>1. ScanTypeOK'
  BY DEF ScanInv, ScanTypeOK, Skip, Looking, best
<1>2. /\ i \in DOMAIN response /\ i' = i + 1 /\ i \in Nat
      /\ UNCHANGED <<response, best_idx, best_priority, best_weight, result>>
  BY DEF ScanInv, ScanTypeOK, Skip, Looking, best
<1>3. Seen' = Seen \cup {i}
  BY <1>2 DEF Seen, ScanInv, ScanTypeOK
<1>4. NoneSeen'
  BY <1>2, <1>3 DEF ScanInv, NoneSeen, Skip, Improves
<1>5. BestSeen'
  <2> SUFFICES ASSUME best_idx # 0, NEW j \in Seen', IsUsable(response[j])
               PROVE  /\ IsUsable(response[best_idx])
                      /\ response[best_idx].priority = best_priority
                      /\ response[best_idx].weight = best_weight
                      /\ ~RanksBefore(response[j], response[best_idx])
                      /\ j < best_idx => RanksBefore(response[best_idx], response[j])
    BY <1>2 DEF BestSeen, ScanInv, RanksBefore
  <2>1. CASE j \in Seen
    BY <2>1 DEF ScanInv, BestSeen
  <2>2. CASE j = i
    <3>1. ~Improves(response[i]) /\ ~(j < best_idx)
      BY <2>2, <1>2 DEF Skip, ScanInv, ScanTypeOK
    <3> QED BY <3>1, <2>2 DEF Improves, RanksBefore, ScanInv, BestSeen
  <2> QED BY <2>1, <2>2, <1>3
<1>6. Verdict'
  BY <1>2 DEF Verdict, Skip, Looking
<1> QED BY <1>1, <1>4, <1>5, <1>6 DEF ScanInv

LEMMA TakeKeeps == ScanInv /\ Take => ScanInv'
<1> SUFFICES ASSUME ScanInv, Take PROVE ScanInv'
  OBVIOUS
<1>1. /\ i \in DOMAIN response /\ i' = i + 1 /\ i \in Nat /\ i # 0
      /\ best_idx' = i
      /\ best_priority' = response[i].priority
      /\ best_weight' = response[i].weight
      /\ IsUsable(response[i])
      /\ UNCHANGED <<response, result>>
  BY DEF ScanInv, ScanTypeOK, Take, Looking
<1>2. ScanTypeOK'
  <2>1. response[i] \in Answer
    BY <1>1, AnswerFields DEF ScanInv
  <2>2. response[i].priority \in UInt16 /\ response[i].weight \in UInt16
    BY <2>1 DEF Answer
  <2> QED BY <1>1, <2>2 DEF ScanInv, ScanTypeOK
<1>3. Seen' = Seen \cup {i}
  BY <1>1 DEF Seen, ScanInv, ScanTypeOK
<1>4. NoneSeen'
  BY <1>1 DEF NoneSeen
<1>5. BestSeen'
  <2> SUFFICES ASSUME NEW j \in Seen', IsUsable(response[j])
               PROVE  /\ ~RanksBefore(response[j], response[i])
                      /\ j < i => RanksBefore(response[i], response[j])
    BY <1>1 DEF BestSeen, RanksBefore
  <2>1. /\ response[i].priority \in Int /\ response[i].weight \in Int
    BY <1>1, AnswerFields DEF ScanInv
  <2>2. CASE j = i
    BY <2>1, <2>2, <1>1 DEF RanksBefore
  <2>3. CASE j \in Seen
    <3>1. j \in DOMAIN response /\ j < i
      BY <2>3, <1>1 DEF Seen, ScanInv, ScanTypeOK
    <3>2. response[j].priority \in Int /\ response[j].weight \in Int
      BY <3>1, AnswerFields DEF ScanInv
    <3>3. best_idx # 0
      BY <2>3 DEF ScanInv, NoneSeen
    <3>4. /\ ~RanksBefore(response[j], response[best_idx])
          /\ response[best_idx].priority = best_priority
          /\ response[best_idx].weight = best_weight
      BY <3>3, <2>3 DEF ScanInv, BestSeen
    <3>5. best_priority \in Int /\ best_weight \in Int
      BY UInt16Int DEF ScanInv, ScanTypeOK
    <3>6. \/ response[i].priority < best_priority
          \/ response[i].priority = best_priority /\ response[i].weight > best_weight
      BY <3>3 DEF Take, Improves
    <3> QED BY <2>1, <3>1, <3>2, <3>4, <3>5, <3>6 DEF RanksBefore
  <2> QED BY <2>2, <2>3, <1>3
<1>6. Verdict'
  BY <1>1 DEF Verdict, Take, Looking
<1> QED BY <1>2, <1>4, <1>5, <1>6 DEF ScanInv

LEMMA FinishKeeps == ScanInv /\ (Finish \/ InitParseFails) => ScanInv'
<1> SUFFICES ASSUME ScanInv, Finish \/ InitParseFails PROVE ScanInv'
  OBVIOUS
<1>1. UNCHANGED <<response, i, best_idx, best_priority, best_weight>>
  BY DEF Finish, InitParseFails, best
<1>2. ScanTypeOK'
  BY <1>1 DEF ScanInv, ScanTypeOK, Finish, InitParseFails
<1>3. NoneSeen' /\ BestSeen'
  BY <1>1 DEF ScanInv, NoneSeen, BestSeen, Seen, RanksBefore
<1>4. Verdict'
  BY <1>1 DEF Verdict, Finish, InitParseFails
<1> QED BY <1>2, <1>3, <1>4 DEF ScanInv

LEMMA ScanInvHolds == ScanSpec => []ScanInv
<1>1. ScanInv /\ [ScanNext]_scanVars => ScanInv'
  <2> SUFFICES ASSUME ScanInv, [ScanNext]_scanVars PROVE ScanInv'
    OBVIOUS
  <2>1. CASE Skip
    BY <2>1, SkipKeeps
  <2>2. CASE Take
    BY <2>2, TakeKeeps
  <2>3. CASE Finish \/ InitParseFails
    BY <2>3, FinishKeeps
  <2>4. CASE UNCHANGED scanVars
    BY <2>4 DEF scanVars, best, ScanInv, ScanTypeOK, NoneSeen, BestSeen, Verdict, Seen,
                RanksBefore
  <2> QED BY <2>1, <2>2, <2>3, <2>4 DEF ScanNext
<1> QED BY ScanInvInit, <1>1, PTL DEF ScanSpec

(***************************************************************************)
(* ScanTypeOK holds of every answer section.                               *)
(***************************************************************************)
THEOREM ScanTypeCorrect == ScanSpec => []ScanTypeOK
<1>1. ScanInv => ScanTypeOK
  BY DEF ScanInv
<1> QED BY ScanInvHolds, <1>1, PTL

(***************************************************************************)
(* What extract_srv returns is the choice over the whole section.          *)
(***************************************************************************)
THEOREM PicksTheChoiceHolds == ScanSpec => []PicksTheChoice
<1>1. ScanInv => PicksTheChoice
  <2> SUFFICES ASSUME ScanInv, result = "KIRIN_OK" PROVE IsChoice(response, best_idx)
    BY DEF PicksTheChoice
  <2>1. best_idx # 0 /\ i = Len(response) + 1
    BY DEF ScanInv, Verdict
  <2>2. Seen = DOMAIN response /\ best_idx \in DOMAIN response
    BY <2>1 DEF Seen, ScanInv, ScanTypeOK
  <2> QED BY <2>1, <2>2 DEF ScanInv, BestSeen, IsChoice
<1> QED BY ScanInvHolds, <1>1, PTL

(***************************************************************************)
(* "No SRV record found" is said only of sections that hold none.          *)
(***************************************************************************)
THEOREM NoFalseFallbackHolds == ScanSpec => []NoFalseFallback
<1>1. ScanInv => NoFalseFallback
  <2> SUFFICES ASSUME ScanInv, result = "KIRIN_ERR_DNS"
               PROVE  \A j \in DOMAIN response : ~IsUsable(response[j])
    BY DEF NoFalseFallback
  <2>1. best_idx = 0 /\ i = Len(response) + 1
    BY DEF ScanInv, Verdict
  <2>2. Seen = DOMAIN response
    BY <2>1 DEF Seen, ScanInv, ScanTypeOK
  <2> QED BY <2>1, <2>2 DEF ScanInv, NoneSeen
<1> QED BY ScanInvHolds, <1>1, PTL

(***************************************************************************)
(* The scan implements the one-step choice it promises: the turns of the   *)
(* loop are invisible, and the last step decides rightly.                  *)
(***************************************************************************)
THEOREM ImplementsSrvQueryHolds == ScanSpec => ImplementsSrvQuery
<1> DEFINE chosen == IF result = "KIRIN_OK" THEN best_idx ELSE 0
<1>1. ScanInit => Promise!Init
  BY DEF ScanInit, Promise!Init
<1>2. ScanInv /\ ScanInv' /\ [ScanNext]_scanVars => [Promise!Next]_(Promise!vars)
  <2> SUFFICES ASSUME ScanInv, ScanInv', [ScanNext]_scanVars
               PROVE  Promise!Next \/ UNCHANGED <<response, chosen, result>>
    BY DEF Promise!vars
  <2>1. CASE Skip \/ Take
    BY <2>1 DEF Skip, Take, Looking
  <2>2. CASE InitParseFails
    BY <2>2 DEF InitParseFails, Promise!Next, Promise!Malformed
  <2>3. CASE Finish
    <3>1. i = Len(response) + 1 /\ result = "scanning"
          /\ UNCHANGED <<response, best_idx>>
      BY <2>3 DEF Finish, best
    <3>2. Seen = DOMAIN response
      BY <3>1 DEF Seen, ScanInv, ScanTypeOK
    <3>3. CASE best_idx = 0
      <4>1. \A j \in DOMAIN response : ~IsUsable(response[j])
        BY <3>2, <3>3 DEF ScanInv, NoneSeen
      <4> QED BY <2>3, <3>1, <3>3, <4>1
              DEF Finish, Promise!Next, Promise!NoneFound, IsUsable, Promise!IsUsable
    <3>4. CASE best_idx # 0 /\ response[best_idx].expands
      <4>1. best_idx \in DOMAIN response
        BY <3>1, <3>4 DEF ScanInv, ScanTypeOK
      <4>2. IsChoice(response, best_idx)
        BY <3>2, <3>4, <4>1 DEF ScanInv, BestSeen, IsChoice
      <4>3. result' = "KIRIN_OK" /\ chosen' = best_idx
        BY <2>3, <3>1, <3>4 DEF Finish
      <4>4. Promise!IsChoice(response, best_idx)
        BY <4>2 DEF IsChoice, RanksBefore, IsUsable, Promise!IsChoice, Promise!RanksBefore,
                        Promise!IsUsable
      <4> QED BY <3>1, <3>4, <4>3, <4>4 DEF Promise!Next, Promise!Choose
    <3>5. CASE best_idx # 0 /\ ~response[best_idx].expands
      BY <2>3, <3>1, <3>5 DEF Finish, Promise!Next, Promise!Malformed
    <3> QED BY <3>3, <3>4, <3>5
  <2>4. CASE UNCHANGED scanVars
    BY <2>4 DEF scanVars, best
  <2> QED BY <2>1, <2>2, <2>3, <2>4 DEF ScanNext
<1> QED BY <1>1, <1>2, ScanInvHolds, PTL DEF ScanSpec, ImplementsSrvQuery, Promise!Spec

\* Where no record is malformed, the libraries choose among the records that
\* the C library can use.
Usable == {k \in DOMAIN response : IsUsable(response[k])}

LEMMA OneList ==
  ASSUME ScanTypeOK, Broken = {}, NEW library \in Libraries, NEW list \in library.lists
  PROVE  list = Usable
<1>1. Decoded = Usable
  <2>1. ASSUME NEW k \in Usable PROVE k \in Decoded
    BY <2>1 DEF Broken, Usable, IsUsable
  <2> QED BY <2>1 DEF Decoded, Usable
<1>2. {k \in DOMAIN response : response[k].form \in {"srv", "bare"} /\ response[k].expands}
        = Usable
  <2>1. ASSUME NEW k \in DOMAIN response, response[k].form = "bare" PROVE FALSE
    BY <2>1 DEF Broken, Decoded, IsUsable
  <2>2. \A k \in DOMAIN response : response[k].form = "srv" <=> k \in Usable
    BY DEF Usable, IsUsable
  <2>3. \A k \in Usable : response[k].expands
    BY <1>1 DEF Decoded
  <2>4. Usable \subseteq DOMAIN response
    BY DEF Usable
  <2> QED BY <2>1, <2>2, <2>3, <2>4
<1>3. ByHand = {Usable} /\ ByResolver = {Usable}
  BY <1>1, <1>2 DEF ByHand, ByResolver
<1>4. library.lists = ByHand \/ library.lists = ByResolver
  BY DEF Libraries, Cpp, Go, Python, Rust, Ruby, Java, Kotlin, Php, Swift
<1> QED BY <1>3, <1>4

(***************************************************************************)
(* The nine libraries that sort and can resolve agree with the scan on     *)
(* sections of every length without a malformed record, but for the order  *)
(* of equals where their sort keeps none; JavaScript's returns nothing.    *)
(***************************************************************************)
THEOREM AllChooseAlikeHolds == ScanSpec => []AllChooseAlike
<1>1. ASSUME ScanInv, PicksTheChoice, NoFalseFallback, Broken = {},
             result \in {"KIRIN_OK", "KIRIN_ERR_DNS"},
             NEW library \in Libraries, NEW pick \in Picks(library)
      PROVE  /\ pick # 0 =>
                  /\ result = "KIRIN_OK"
                  /\ response[pick].priority = response[best_idx].priority
                  /\ response[pick].weight = response[best_idx].weight
                  /\ library.stable => pick = best_idx
             /\ pick = 0 => result = "KIRIN_ERR_DNS"
  <2>1. PICK list \in library.lists :
          pick \in IF list = {} THEN {0}
                  ELSE {k \in list : \A j \in list :
                          /\ ~Sorts(response[j], response[k])
                          /\ library.stable /\ j < k => Sorts(response[k], response[j])}
    BY DEF Picks
  <2>2. list = Usable
    BY <1>1, OneList DEF ScanInv
  <2>3. CASE result = "KIRIN_ERR_DNS"
    <3>1. Usable = {}
      BY <1>1, <2>3 DEF NoFalseFallback, Usable
    <3> QED BY <2>1, <2>2, <2>3, <3>1
  <2>4. CASE result = "KIRIN_OK"
    <3>1. IsChoice(response, best_idx) /\ best_idx \in Usable
      BY <1>1, <2>4 DEF PicksTheChoice, IsChoice, Usable
    <3>2. /\ pick \in Usable
          /\ ~Sorts(response[best_idx], response[pick])
          /\ library.stable /\ best_idx < pick => Sorts(response[pick], response[best_idx])
      BY <2>1, <2>2, <3>1
    <3>3. /\ pick \in DOMAIN response /\ IsUsable(response[pick])
          /\ best_idx \in DOMAIN response
      BY <3>1, <3>2 DEF Usable
    <3>4. /\ response[pick].priority \in Int /\ response[pick].weight \in Int
          /\ response[best_idx].priority \in Int /\ response[best_idx].weight \in Int
      BY <1>1, <3>3, AnswerFields DEF ScanInv
    <3>5. /\ ~RanksBefore(response[pick], response[best_idx])
          /\ pick < best_idx => RanksBefore(response[best_idx], response[pick])
      BY <3>1, <3>3 DEF IsChoice
    <3>6. /\ response[pick].priority = response[best_idx].priority
          /\ response[pick].weight = response[best_idx].weight
      BY <3>2, <3>4, <3>5 DEF Sorts, RanksBefore
    <3>7. pick \in Nat \ {0} /\ best_idx \in Nat
      BY <1>1, <3>3 DEF ScanInv, ScanTypeOK
    <3>8. ~(pick < best_idx) /\ (library.stable => ~(best_idx < pick))
      BY <3>2, <3>4, <3>5, <3>6 DEF Sorts, RanksBefore
    <3> QED BY <2>4, <3>6, <3>7, <3>8
  <2> QED BY <1>1, <2>3, <2>4
<1>2. Picks(JavaScript) = {0}
  BY DEF Picks, JavaScript
<1>3. ScanInv /\ PicksTheChoice /\ NoFalseFallback => AllChooseAlike
  BY <1>1, <1>2 DEF AllChooseAlike
<1> QED BY <1>3, ScanInvHolds, PicksTheChoiceHolds, NoFalseFallbackHolds, PTL
----
(***************************************************************************)
(* Services: what a call of several queries finds and does not find,       *)
(* whatever the owner publishes and whichever replies get lost.            *)
(***************************************************************************)

Queried == Service \cup {"bogus"}
Result == Answer \cup {NoResult, Fallback}
Codes == {"none", "KIRIN_OK", "KIRIN_ERR_DNS", "KIRIN_ERR_PARSE", "throws"}

\* A service is asked for once in a call.
OnceEach(queue) == \A m, n \in 1..Len(queue) : queue[m] = queue[n] => m = n

TypeInv ==
  /\ zone \in [Service -> Section]
  /\ caller \in DOMAIN Function \cup {"none"}
  /\ todo \in Seq(Queried)
  /\ results \in [Service -> Result]
  /\ offered \in [Service -> SUBSET Section]
  /\ found \subseteq asked /\ asked \subseteq Service /\ lost \subseteq Service
  /\ results["http"] # Fallback /\ results["https"] # Fallback
  /\ code \in Codes

QueueInv ==
  /\ OnceEach(todo)
  /\ \A m \in 1..Len(todo) : todo[m] \notin asked
  /\ \A s \in Service : zone[s] \in offered[s]

\* What FoundWasOffered says of a service, and of a section, whoever calls.
BestOf(section, a) ==
  /\ \E k \in DOMAIN section : section[k] = a
  /\ a.form \in {"srv", "bare"}
  /\ \A k \in DOMAIN section :
       IsUsable(section[k]) /\ section[k].expands => ~RanksBefore(section[k], a)

\* And what it says of a caller of the C library.
UsableInC == caller \in InC => \A s \in found : IsUsable(results[s])

NoneIn(section) == \A a \in Chosen(section) : ~a.expands

\* AbsentForCause, at any time of a call.
AbsentInv ==
  \A s \in asked \ found : s \in lost \/ \E section \in offered[s] : NoneIn(section)

Inv == TypeInv /\ QueueInv /\ FoundWasOffered /\ AbsentInv

LEMMA OneService ==
  ASSUME NEW S, NEW a \in S
  PROVE  <<a>> \in Seq(S) /\ OnceEach(<<a>>)
BY DEF OnceEach

LEMMA ThreeServices ==
  ASSUME NEW S, NEW a \in S, NEW b \in S, NEW c \in S, a # b, b # c, a # c
  PROVE  <<a, b, c>> \in Seq(S) /\ OnceEach(<<a, b, c>>)
<1>1. <<a, b, c>> \in Seq(S)
  OBVIOUS
<1> DEFINE q == <<a, b, c>>
<1>2. Len(q) = 3 /\ q[1] = a /\ q[2] = b /\ q[3] = c
  OBVIOUS
<1> HIDE DEF q
<1>3. OnceEach(q)
  BY <1>2 DEF OnceEach
<1> QED
  BY <1>1, <1>3 DEF q

LEMMA Functions ==
  ASSUME NEW f \in DOMAIN Function, NEW queue \in Function[f]
  PROVE  queue \in Seq(Queried) /\ OnceEach(queue)
<1>1. f \in {"kirin_resolve_service", "kirin_resolve_all_services", "resolveService",
             "resolveAllServices", "resolve_kirin_dns", "ResolveAllServicesAsync"}
  BY DEF Function
<1>2. \/ queue = <<"ws">> \/ queue = <<"bogus">>
      \/ queue = <<"http", "https", "ws">> \/ queue = <<"ws", "http", "https">>
  BY <1>1 DEF Function
<1>3. /\ "ws" \in Queried /\ "http" \in Queried /\ "https" \in Queried /\ "bogus" \in Queried
      /\ "ws" # "http" /\ "http" # "https" /\ "ws" # "https"
  BY DEF Queried, Service
<1> QED
  BY <1>2, <1>3, OneService, ThreeServices

\* The first record is the choice of a section at most once.
LEMMA OneChosen ==
  ASSUME NEW section \in Section, NEW a \in Chosen(section), NEW b \in Chosen(section)
  PROVE  a = b
<1>1. PICK m \in DOMAIN section : a = section[m] /\ IsChoice(section, m)
  BY DEF Chosen
<1>2. PICK n \in DOMAIN section : b = section[n] /\ IsChoice(section, n)
  BY DEF Chosen
<1>3. m \in Int /\ n \in Int
  <2>1. section \in Seq(Answer)
    BY ServicesAssumption
  <2> QED
    BY <2>1
<1>4. m = n
  BY <1>1, <1>2, <1>3 DEF IsChoice
<1> QED
  BY <1>1, <1>2, <1>4

LEMMA ChosenBest ==
  ASSUME NEW section, NEW a \in Chosen(section)
  PROVE  BestOf(section, a) /\ IsUsable(a)
<1>1. PICK m \in DOMAIN section : a = section[m] /\ IsChoice(section, m)
  BY DEF Chosen
<1>2. IsUsable(a) /\ a.form = "srv"
  BY <1>1 DEF IsChoice, IsUsable
<1> QED
  BY <1>1, <1>2 DEF IsChoice, BestOf

LEMMA SortedBest ==
  ASSUME NEW section, NEW a \in Sorted(section)
  PROVE  BestOf(section, a)
<1>1. a \in Kept(section) /\ \A b \in Kept(section) : ~RanksBefore(b, a)
  BY DEF Sorted
<1>2. ASSUME NEW k \in DOMAIN section, IsUsable(section[k]), section[k].expands
      PROVE  section[k] \in Kept(section)
  BY <1>2 DEF Kept, IsUsable
<1>3. a.form \in {"srv", "bare"} /\ \E k \in DOMAIN section : section[k] = a
  BY <1>1 DEF Kept
<1> QED
  BY <1>1, <1>2, <1>3 DEF BestOf

\* The C++ library finds nothing only where the choice has no target.
LEMMA NoneKept ==
  ASSUME NEW section, Kept(section) = {}
  PROVE  NoneIn(section)
<1> SUFFICES ASSUME NEW a \in Chosen(section), a.expands PROVE FALSE
  BY Zenon DEF NoneIn
<1>1. PICK m \in DOMAIN section : a = section[m] /\ IsUsable(section[m])
  BY DEF Chosen, IsChoice
<1>2. a \in Kept(section)
  BY <1>1 DEF Kept, IsUsable
<1> QED
  BY <1>2

\* Whatever a caller takes is an answer, and the best of its section; a caller
\* of the C library can use it.
LEMMA CandidateBest ==
  ASSUME NEW section \in Section, NEW a \in Candidates(section)
  PROVE  a \in Answer /\ BestOf(section, a) /\ (caller \in InC => IsUsable(a))
<1>1. CASE caller \in InCpp
  <2>1. a \in Sorted(section) /\ caller \notin InC
    BY <1>1 DEF Candidates, InC, InCpp
  <2> QED
    BY <2>1, SortedBest, ServicesAssumption DEF BestOf
<1>2. CASE caller \notin InCpp
  <2>1. a \in Chosen(section)
    BY <1>2 DEF Candidates
  <2> QED
    BY <2>1, ChosenBest, ServicesAssumption DEF BestOf
<1> QED
  BY <1>1, <1>2

LEMMA FoundIsBest ==
  FoundWasOffered <=>
    /\ \A s \in found : \E section \in offered[s] : BestOf(section, results[s])
    /\ UsableInC
<1>1. ASSUME NEW s, NEW section
      PROVE  /\ BestOf(section, results[s]) <=>
                  /\ \E k \in DOMAIN section : section[k] = results[s]
                  /\ results[s].form \in {"srv", "bare"}
                  /\ \A k \in DOMAIN section :
                       IsUsable(section[k]) /\ section[k].expands
                         => ~RanksBefore(section[k], results[s])
  BY Zenon DEF BestOf
<1> QED
  BY <1>1, Zenon DEF FoundWasOffered, UsableInC

LEMMA FoundNextIsBest ==
  FoundWasOffered' <=>
    /\ \A s \in found' : \E section \in offered'[s] : BestOf(section, results'[s])
    /\ UsableInC'
<1>1. ASSUME NEW s, NEW section
      PROVE  /\ BestOf(section, results'[s]) <=>
                  /\ \E k \in DOMAIN section : section[k] = results'[s]
                  /\ results'[s].form \in {"srv", "bare"}
                  /\ \A k \in DOMAIN section :
                       IsUsable(section[k]) /\ section[k].expands
                         => ~RanksBefore(section[k], results'[s])
  BY Zenon DEF BestOf
<1> QED
  BY <1>1, Zenon DEF FoundWasOffered, UsableInC

\* The service that is asked for was not asked for before, nor will it be again.
LEMMA Queue ==
  ASSUME TypeInv, QueueInv, NEW s, Asking(s)
  PROVE  /\ s \in Queried /\ s \notin asked /\ s \notin found
         /\ Tail(todo) \in Seq(Queried) /\ OnceEach(Tail(todo))
         /\ \A m \in 1..Len(Tail(todo)) : Tail(todo)[m] \notin asked \cup {s}
<1>1. todo \in Seq(Queried) /\ todo # <<>> /\ s = Head(todo)
  BY DEF TypeInv, Asking
<1>2. /\ Len(todo) \in Nat \ {0} /\ s = todo[1]
      /\ Tail(todo) \in Seq(Queried) /\ Len(Tail(todo)) = Len(todo) - 1
  BY <1>1, EmptySeq
<1>3. \A m \in 1..Len(Tail(todo)) : Tail(todo)[m] = todo[m + 1] /\ m + 1 \in 1..Len(todo) /\ m + 1 # 1
  BY <1>1, <1>2
<1>4. 1 \in 1..Len(todo)
  BY <1>2
<1>5. s \in Queried /\ s \notin asked /\ s \notin found
  <2>1. todo[1] \in Queried
    BY <1>1, <1>4
  <2> QED
    BY <1>2, <1>4, <2>1 DEF QueueInv, TypeInv
<1>6. OnceEach(Tail(todo))
  <2> SUFFICES ASSUME NEW m \in 1..Len(Tail(todo)), NEW n \in 1..Len(Tail(todo)),
                      Tail(todo)[m] = Tail(todo)[n]
               PROVE  m = n
    BY DEF OnceEach
  <2>1. todo[m + 1] = todo[n + 1] /\ m + 1 \in 1..Len(todo) /\ n + 1 \in 1..Len(todo)
    BY <1>3
  <2>2. m + 1 = n + 1
    BY <2>1 DEF QueueInv, OnceEach
  <2> QED
    BY <2>2
<1>7. ASSUME NEW m \in 1..Len(Tail(todo))
      PROVE  Tail(todo)[m] \notin asked \cup {s}
  <2>1. todo[m + 1] \notin asked
    BY <1>3 DEF QueueInv
  <2>2. todo[m + 1] # todo[1]
    BY <1>3, <1>4 DEF QueueInv, OnceEach
  <2> QED
    BY <1>2, <1>3, <2>1, <2>2
<1> QED
  BY <1>2, <1>5, <1>6, <1>7

\* The caller's results, with what stands in place of a service not found.
LEMMA MissingType ==
  ASSUME TypeInv, NEW s
  PROVE  /\ Missing(s) \in [Service -> Result]
         /\ Missing(s)["http"] # Fallback /\ Missing(s)["https"] # Fallback
         /\ \A u \in Service : u # s => Missing(s)[u] = results[u]
         /\ caller \in InC => Missing(s) = results
<1>1. /\ results \in [Service -> Result] /\ Fallback \in Result
      /\ results["http"] # Fallback /\ results["https"] # Fallback
      /\ "http" \in Service /\ "https" \in Service /\ "ws" \in Service
      /\ "http" # "ws" /\ "https" # "ws"
  BY DEF TypeInv, Result, Service
<1>2. CASE caller = "resolve_kirin_dns" /\ s = "ws"
  <2>1. Missing(s) = [results EXCEPT !["ws"] = Fallback]
    BY <1>2 DEF Missing
  <2>2. caller \notin InC
    BY <1>2 DEF InC
  <2> QED
    BY <1>1, <1>2, <2>1, <2>2
<1>3. CASE ~(caller = "resolve_kirin_dns" /\ s = "ws")
  <2>1. Missing(s) = results
    BY <1>3 DEF Missing
  <2> QED
    BY <1>1, <2>1
<1> QED
  BY <1>2, <1>3

LEMMA PublishKeeps ==
  ASSUME Inv, Publish
  PROVE  Inv'
<1>1. PICK u \in Service, published \in Section :
        /\ zone' = [zone EXCEPT ![u] = published]
        /\ offered' = [offered EXCEPT ![u] = @ \cup {published}]
  BY DEF Publish
<1>2. /\ caller' = caller /\ todo' = todo /\ results' = results /\ found' = found
      /\ code' = code /\ asked' = asked /\ lost' = lost
  BY DEF Publish, call
<1>3. zone' \in [Service -> Section] /\ offered' \in [Service -> SUBSET Section]
  BY <1>1 DEF Inv, TypeInv
<1>4. \A s \in Service : offered[s] \subseteq offered'[s] /\ zone'[s] \in offered'[s]
  BY <1>1 DEF Inv, TypeInv, QueueInv
<1>5. TypeInv'
  BY <1>2, <1>3 DEF Inv, TypeInv
<1>6. QueueInv'
  BY <1>2, <1>4 DEF Inv, QueueInv, OnceEach
<1>7. found \subseteq Service /\ asked \subseteq Service
  BY DEF Inv, TypeInv
<1>8. \A s \in found' : \E section \in offered'[s] : BestOf(section, results'[s])
  BY <1>2, <1>4, <1>7, FoundIsBest DEF Inv
<1>9. AbsentInv'
  BY <1>2, <1>4, <1>7 DEF Inv, AbsentInv
<1>10. FoundWasOffered'
  <2>1. UsableInC
    BY FoundIsBest DEF Inv
  <2>2. UsableInC'
    BY <1>2, <2>1 DEF UsableInC
  <2> QED
    BY <1>8, <2>2, FoundNextIsBest
<1> QED
  BY <1>5, <1>6, <1>9, <1>10 DEF Inv

LEMMA CallKeeps ==
  ASSUME Inv, Call
  PROVE  Inv'
<1>1. /\ caller' \in DOMAIN Function /\ todo' \in Function[caller']
      /\ found' = {} /\ asked' = {} /\ lost' = {} /\ code' = "none" /\ zone' = zone
      /\ offered' = [s \in Service |-> {zone[s]}]
      /\ results' = results \/ results' = [s \in Service |-> NoResult]
  BY DEF Call
<1>2. todo' \in Seq(Queried) /\ OnceEach(todo')
  BY <1>1, Functions
<1>3. zone \in [Service -> Section]
  BY DEF Inv, TypeInv
<1>4. offered' \in [Service -> SUBSET Section] /\ \A s \in Service : zone'[s] \in offered'[s]
  BY <1>1, <1>3
<1>5. /\ results' \in [Service -> Result]
      /\ results'["http"] # Fallback /\ results'["https"] # Fallback
  <2>1. NoResult # Fallback /\ NoResult \in Result /\ "http" \in Service /\ "https" \in Service
    BY ServicesAssumption DEF Result, Service
  <2> QED
    BY <1>1, <2>1 DEF Inv, TypeInv
<1>6. TypeInv'
  BY <1>1, <1>2, <1>3, <1>4, <1>5 DEF TypeInv, Codes
<1>7. QueueInv'
  BY <1>1, <1>2, <1>4 DEF QueueInv, OnceEach
<1>8. FoundWasOffered' /\ AbsentInv'
  BY <1>1 DEF FoundWasOffered, AbsentInv
<1> QED
  BY <1>6, <1>7, <1>8 DEF Inv

\* The part of a query that is the same for every outcome: s is asked for, and
\* the sections stay as they are.
LEMMA AskedKeeps ==
  ASSUME Inv, NEW s \in Service, Asking(s), GoOn(s), zone' = zone, offered' = offered
  PROVE  /\ todo' \in Seq(Queried) /\ asked' \subseteq Service /\ asked' = asked \cup {s}
         /\ QueueInv'
         /\ found \subseteq asked' /\ s \notin found
<1>1. todo' = Tail(todo) /\ asked' = asked \cup {s}
  BY DEF GoOn
<1> QED
  BY <1>1, Queue DEF Inv, TypeInv, QueueInv, OnceEach

LEMMA FindKeeps ==
  ASSUME Inv, NEW s, Find(s)
  PROVE  Inv'
<1>1. /\ s \in Service /\ Asking(s) /\ GoOn(s) /\ zone' = zone /\ offered' = offered
      /\ caller' = caller /\ found' = found \cup {s} /\ lost' = lost /\ code' = "KIRIN_OK"
  BY DEF Find
<1>2. PICK a \in Candidates(zone[s]) : results' = [results EXCEPT ![s] = a]
  BY DEF Find
<1>3. zone[s] \in Section /\ zone[s] \in offered[s]
  BY <1>1 DEF Inv, TypeInv, QueueInv
<1>4. a \in Answer /\ BestOf(zone[s], a)
  BY <1>2, <1>3, CandidateBest
<1>5. /\ todo' \in Seq(Queried) /\ asked' \subseteq Service /\ asked' = asked \cup {s}
      /\ QueueInv' /\ found \subseteq asked' /\ s \notin found
  BY <1>1, AskedKeeps
<1>6. /\ results' \in [Service -> Result] /\ results'[s] = a
      /\ \A u \in Service \ {s} : results'[u] = results[u]
      /\ results'["http"] # Fallback /\ results'["https"] # Fallback
  <2>1. a \in Result /\ a # Fallback /\ "http" \in Service /\ "https" \in Service
    BY <1>4, ServicesAssumption DEF Result, Service
  <2> QED
    BY <1>1, <1>2, <2>1 DEF Inv, TypeInv
<1>7. TypeInv'
  BY <1>1, <1>5, <1>6 DEF Inv, TypeInv, Codes
<1>8. ASSUME NEW u \in found'
      PROVE  \E section \in offered'[u] : BestOf(section, results'[u])
  <2>1. CASE u = s
    BY <1>1, <1>3, <1>4, <1>6, <2>1
  <2>2. CASE u # s
    <3>1. u \in found /\ u \in Service \ {s}
      BY <1>1, <2>2 DEF Inv, TypeInv
    <3>2. PICK section \in offered[u] : BestOf(section, results[u])
      BY <3>1, FoundIsBest DEF Inv
    <3>3. results'[u] = results[u]
      BY <1>6, <3>1
    <3> QED
      BY <1>1, <3>2, <3>3
  <2> QED
    BY <2>1, <2>2
<1>9. FoundWasOffered'
  <2>1. UsableInC
    BY FoundIsBest DEF Inv
  <2>2. ASSUME caller \in InC, NEW u \in found' PROVE IsUsable(results'[u])
    <3>1. CASE u = s
      BY <1>3, <1>6, <2>2, <3>1, CandidateBest
    <3>2. CASE u # s
      <4>1. u \in found /\ u \in Service \ {s}
        BY <1>1, <3>2 DEF Inv, TypeInv
      <4> QED
        BY <1>6, <2>1, <2>2, <4>1 DEF UsableInC
    <3> QED
      BY <3>1, <3>2
  <2>3. UsableInC'
    BY <1>1, <2>2 DEF UsableInC
  <2> QED
    BY <1>8, <2>3, FoundNextIsBest
<1>10. AbsentInv'
  <2>1. asked' \ found' \subseteq asked \ found
    BY <1>1, <1>5
  <2> QED
    BY <1>1, <2>1 DEF Inv, AbsentInv
<1> QED
  BY <1>5, <1>7, <1>9, <1>10 DEF Inv

\* A query that finds nothing, for a cause of its own.
LEMMA NothingKeeps ==
  ASSUME Inv, NEW s \in Service, Asking(s), GoOn(s), zone' = zone, offered' = offered,
         caller' = caller, found' = found, results' = Missing(s), code' \in Codes,
         lost \subseteq lost', lost' \subseteq Service, s \in lost' \/ NoneIn(zone[s])
  PROVE  Inv'
<1>1. /\ todo' \in Seq(Queried) /\ asked' \subseteq Service /\ asked' = asked \cup {s}
      /\ QueueInv' /\ found \subseteq asked' /\ s \notin found
  BY AskedKeeps
<1>2. TypeInv
  BY DEF Inv
<1>3. TypeInv'
  BY <1>1, <1>2, MissingType DEF TypeInv
<1>4. ASSUME NEW u \in found'
      PROVE  \E section \in offered'[u] : BestOf(section, results'[u])
  <2>1. u \in found /\ u \in Service /\ u # s
    BY <1>1 DEF Inv, TypeInv
  <2>2. results'[u] = results[u]
    BY <1>2, <2>1, MissingType
  <2>3. PICK section \in offered[u] : BestOf(section, results[u])
    BY <2>1, FoundIsBest DEF Inv
  <2> QED
    BY <2>2, <2>3
<1>5. FoundWasOffered'
  <2>1. UsableInC
    BY FoundIsBest DEF Inv
  <2>2. ASSUME caller \in InC, NEW u \in found' PROVE IsUsable(results'[u])
    BY <1>2, <2>1, <2>2, MissingType DEF UsableInC
  <2>3. UsableInC'
    BY <2>2 DEF UsableInC
  <2> QED
    BY <1>4, <2>3, FoundNextIsBest
<1>6. ASSUME NEW u \in asked' \ found'
      PROVE  u \in lost' \/ \E section \in offered'[u] : NoneIn(section)
  <2>1. CASE u = s
    <3>1. zone[s] \in offered[s]
      BY DEF Inv, QueueInv
    <3> QED
      BY <2>1, <3>1
  <2>2. CASE u # s
    <3>1. u \in asked \ found
      BY <1>1, <2>2
    <3> QED
      BY <3>1 DEF Inv, AbsentInv
  <2> QED
    BY <2>1, <2>2
<1>7. AbsentInv'
  BY <1>6 DEF AbsentInv, NoneIn, Chosen
<1> QED
  BY <1>1, <1>3, <1>5, <1>7 DEF Inv

LEMMA NotFoundKeeps ==
  ASSUME Inv, NEW s, NotFound(s)
  PROVE  Inv'
<1>1. /\ s \in Service /\ Asking(s) /\ GoOn(s) /\ zone' = zone /\ offered' = offered
      /\ caller' = caller /\ found' = found /\ results' = Missing(s) /\ lost' = lost
      /\ code' \in Codes
      /\ Nothing(zone[s]) \/ Malformed(zone[s])
  BY DEF NotFound, Codes
<1>2. zone[s] \in Section /\ lost \subseteq Service
  BY <1>1 DEF Inv, TypeInv
<1>3. NoneIn(zone[s])
  <2>1. CASE Malformed(zone[s])
    <3>1. PICK b \in Chosen(zone[s]) : ~b.expands
      BY <2>1 DEF Malformed
    <3> QED
      BY <1>2, <3>1, OneChosen DEF NoneIn
  <2>2. CASE Nothing(zone[s])
    <3>1. Kept(zone[s]) = {} \/ Chosen(zone[s]) = {}
      BY <2>2 DEF Nothing
    <3> QED
      BY <3>1, NoneKept DEF NoneIn
  <2> QED
    BY <1>1, <2>1, <2>2
<1> QED
  BY <1>1, <1>2, <1>3, NothingKeeps

\* A call that is given up, or one service of it, with nothing asked for.
LEMMA DroppedKeeps ==
  ASSUME Inv, OnceEach(todo'), todo' \in Seq(Queried),
         \A m \in 1..Len(todo') : todo'[m] \notin asked,
         zone' = zone, offered' = offered, caller' = caller,
         found' = found, results' = results, asked' = asked, code' \in Codes,
         lost \subseteq lost', lost' \subseteq Service
  PROVE  Inv'
<1>1. TypeInv'
  BY DEF Inv, TypeInv
<1>2. QueueInv'
  BY DEF Inv, QueueInv, OnceEach
<1>3. FoundWasOffered'
  BY DEF Inv, FoundWasOffered
<1>4. AbsentInv'
  BY DEF Inv, AbsentInv, NoneIn, Chosen
<1> QED
  BY <1>1, <1>2, <1>3, <1>4 DEF Inv

LEMMA ThrowKeeps ==
  ASSUME Inv, Throw, zone' = zone, offered' = offered, caller' = caller,
         lost \subseteq lost', lost' \subseteq Service
  PROVE  Inv'
<1>1. /\ todo' = <<>> /\ code' \in Codes /\ results' = results /\ found' = found
      /\ asked' = asked
  BY DEF Throw, Codes
<1>2. /\ todo' \in Seq(Queried) /\ OnceEach(todo')
      /\ \A m \in 1..Len(todo') : todo'[m] \notin asked
  BY <1>1 DEF OnceEach
<1>3. caller' \in DOMAIN Function \cup {"none"}
  BY DEF Inv, TypeInv
<1> QED
  BY <1>1, <1>2, <1>3, DroppedKeeps

LEMMA UnknownKeeps ==
  ASSUME Inv, NEW s, Unknown(s)
  PROVE  Inv'
<1>1. /\ Asking(s) /\ zone' = zone /\ offered' = offered /\ caller' = caller /\ lost' = lost
  BY DEF Unknown
<1>2. /\ lost \subseteq Service /\ caller' \in DOMAIN Function \cup {"none"}
      /\ TypeInv /\ QueueInv
  BY <1>1 DEF Inv, TypeInv
<1>3. CASE caller \in InC
  <2>1. /\ code' \in Codes /\ todo' = Tail(todo)
        /\ results' = results /\ found' = found /\ asked' = asked
    BY <1>3 DEF Unknown, Codes
  <2>2. /\ todo' \in Seq(Queried) /\ OnceEach(todo')
        /\ \A m \in 1..Len(todo') : todo'[m] \notin asked
    BY <1>1, <1>2, <2>1, Queue
  <2> QED
    BY <1>1, <1>2, <2>1, <2>2, DroppedKeeps
<1>4. CASE caller \notin InC
  <2>1. Throw
    BY <1>4 DEF Unknown
  <2> QED
    BY <1>1, <1>2, <2>1, ThrowKeeps
<1> QED
  BY <1>3, <1>4

LEMMA LoseKeeps ==
  ASSUME Inv, NEW s, Lose(s)
  PROVE  Inv'
<1>1. /\ s \in Service /\ Asking(s) /\ zone' = zone /\ offered' = offered /\ caller' = caller
      /\ lost' = lost \cup {s} /\ lost \subseteq Service
  BY DEF Lose, Inv, TypeInv
<1>2. CASE caller = "ResolveAllServicesAsync"
  <2>1. Throw
    BY <1>2 DEF Lose
  <2> QED
    BY <1>1, <2>1, ThrowKeeps
<1>3. CASE caller # "ResolveAllServicesAsync"
  <2>1. code' \in Codes /\ results' = Missing(s) /\ GoOn(s) /\ found' = found
    BY <1>3 DEF Lose, Codes
  <2> QED
    BY <1>1, <2>1, NothingKeeps
<1> QED
  BY <1>2, <1>3

LEMMA InvInit == Init => Inv
<1> SUFFICES ASSUME Init PROVE Inv
  OBVIOUS
<1>1. /\ zone \in [Service -> Section] /\ caller = "none" /\ todo = <<>> /\ found = {}
      /\ results = [s \in Service |-> NoResult] /\ code = "none" /\ asked = {} /\ lost = {}
      /\ offered = [s \in Service |-> {zone[s]}]
  BY DEF Init
<1>2. /\ results \in [Service -> Result]
      /\ results["http"] # Fallback /\ results["https"] # Fallback
  BY <1>1, ServicesAssumption DEF Result, Service
<1>3. TypeInv
  BY <1>1, <1>2 DEF TypeInv, Codes
<1>4. QueueInv
  BY <1>1 DEF QueueInv, OnceEach
<1> QED
  BY <1>1, <1>3, <1>4 DEF Inv, FoundWasOffered, AbsentInv

LEMMA InvNext == Inv /\ [Next]_vars => Inv'
<1> SUFFICES ASSUME Inv, [Next]_vars PROVE Inv'
  OBVIOUS
<1>1. CASE UNCHANGED vars
  BY <1>1 DEF vars, call, Inv, TypeInv, QueueInv, OnceEach, FoundWasOffered, AbsentInv, NoneIn,
              Chosen
<1>2. CASE Return
  <2>1. /\ caller' = "none" /\ UNCHANGED <<zone, todo, results, found, code, asked, lost, offered>>
    BY <1>2 DEF Return
  <2>2. "none" \notin InC
    BY DEF InC
  <2> QED
    BY <2>1, <2>2
    DEF Inv, TypeInv, QueueInv, OnceEach, FoundWasOffered, AbsentInv, NoneIn, Chosen
<1>3. ASSUME NEW s, Query(s) PROVE Inv'
  BY <1>3, UnknownKeeps, FindKeeps, NotFoundKeeps, LoseKeeps DEF Query
<1> QED
  BY <1>1, <1>2, <1>3, PublishKeeps, CallKeeps DEF Next

LEMMA InvHolds == Spec => []Inv
BY InvInit, InvNext, PTL DEF Spec

\* The callers' results are answers, or what stands for one, and only ws is
\* ever replaced by the domain itself.
THEOREM TypeCorrect == Spec => []TypeOK
<1>1. Inv => TypeOK
  BY DEF Inv, TypeInv, TypeOK, Codes
<1> QED
  BY <1>1, InvHolds, PTL

\* Whatever a call reports as found was published for that service while the
\* call ran, and is the best of its section: for all sections and any owner.
THEOREM FoundWasOfferedHolds == Spec => []FoundWasOffered
<1>1. Inv => FoundWasOffered
  BY DEF Inv
<1> QED
  BY <1>1, InvHolds, PTL

\* What a call does not find it has a cause for that is the service's own.
THEOREM AbsentForCauseHolds == Spec => []AbsentForCause
<1>1. Inv => AbsentForCause
  BY DEF Inv, AbsentInv, AbsentForCause, NoneIn
<1> QED
  BY <1>1, InvHolds, PTL

\* The C library writes to its caller's result only what it has found.
THEOREM UntouchedHolds == Spec => Untouched
<1>1. ASSUME Inv, [Next]_vars, caller \in InC, todo' # todo, code' # "KIRIN_OK"
      PROVE  results' = results
  <2>1. todo' = todo \/ Call \/ \E s \in Queried : Query(s)
    BY <1>1 DEF Next, Publish, Return, vars, call, Queried
  <2>2. ~Call
    BY <1>1 DEF Call, InC
  <2>3. ASSUME NEW s, Query(s) PROVE results' = results
    <3>1. CASE Unknown(s)
      BY <3>1 DEF Unknown, Throw
    <3>2. CASE Find(s)
      BY <1>1, <3>2 DEF Find
    <3>3. CASE NotFound(s) \/ Lose(s)
      <4>1. results' = Missing(s) \/ results' = results
        BY <3>3 DEF NotFound, Lose, Throw
      <4> QED
        BY <1>1, <4>1, MissingType DEF Inv
    <3> QED
      BY <2>3, <3>1, <3>2, <3>3 DEF Query
  <2> QED
    BY <1>1, <2>1, <2>2, <2>3
<1> QED
  BY <1>1, InvHolds, PTL DEF Spec, Untouched
====
