---- MODULE Services ----
(***************************************************************************)
(* Callers of the C, C++ and C# libraries that resolve the services of a   *)
(* domain: one query after the other, while its owner publishes other SRV  *)
(* records and replies get lost.                                           *)
(***************************************************************************)
EXTENDS SrvRecords, FiniteSets

CONSTANTS
  Section,     \* answer sections, the empty one among them
  MaxCalls,    \* bounds the calls
  MaxChanges,  \* bounds the owner's changes
  NoResult,    \* what is in a result before anything was found
  Fallback     \* the domain itself with its standard port

ASSUME ServicesAssumption ==
  /\ Section \subseteq Seq(Answer)
  /\ MaxCalls \in Nat /\ MaxChanges \in Nat
  /\ Fallback \notin Answer \cup {NoResult}

Service == {"http", "https", "ws"}  \* SRV_SERVICES, srv_prefix

\* The functions that callers call, with the services they ask for in turn.
Function ==
  [kirin_resolve_service      |-> {<<"ws">>, <<"bogus">>},
   kirin_resolve_all_services |-> {<<"http", "https", "ws">>},
   resolveService             |-> {<<"ws">>, <<"bogus">>},
   resolveAllServices         |-> {<<"http", "https", "ws">>},
   resolve_kirin_dns          |-> {<<"ws", "http", "https">>},
   ResolveAllServicesAsync    |-> {<<"http", "https", "ws">>}]

InC == {"kirin_resolve_service", "kirin_resolve_all_services"}
InCpp == {"resolveService", "resolveAllServices", "resolve_kirin_dns"}

VARIABLES
  zone,     \* the domain's answer section for each service
  caller,   \* the function being called, or "none"
  todo,     \* the services it has still to ask for
  results,  \* for each service, what the caller has in its result
  found,    \* the services that its last call has found
  code,     \* the result of the last query
  calls, changes,
  \* What the properties compare with, of the last call:
  asked,    \* the services asked for
  lost,     \* those whose reply got lost
  offered   \* for each service, the sections published meanwhile

call == <<caller, todo, results, found, code, calls, asked, lost>>
vars == <<zone, call, changes, offered>>

Init ==
  /\ zone \in [Service -> Section]
  /\ caller = "none" /\ todo = <<>>
  /\ results = [s \in Service |-> NoResult] /\ found = {} /\ code = "none"
  /\ calls = 0 /\ changes = 0
  /\ asked = {} /\ lost = {} /\ offered = [s \in Service |-> {zone[s]}]

Publish ==
  /\ changes < MaxChanges
  /\ \E s \in Service, section \in Section :
       /\ zone' = [zone EXCEPT ![s] = section]
       /\ offered' = [offered EXCEPT ![s] = @ \cup {section}]
  /\ changes' = changes + 1
  /\ UNCHANGED call

\* The C caller hands over the structures of its last call, as they are.
Call ==
  /\ caller = "none" /\ calls < MaxCalls
  /\ caller' \in DOMAIN Function
  /\ todo' \in Function[caller']
  /\ results' = IF caller' \in InC THEN results ELSE [s \in Service |-> NoResult]
  /\ found' = {} /\ code' = "none"
  /\ calls' = calls + 1
  /\ asked' = {} /\ lost' = {} /\ offered' = [s \in Service |-> {zone[s]}]
  /\ UNCHANGED <<zone, changes>>
----
Asking(s) == caller # "none" /\ todo # <<>> /\ s = Head(todo)

\* Goes on to the next service.
GoOn(s) == todo' = Tail(todo) /\ asked' = asked \cup {s}

\* The caller gets an exception, and nothing else.
Throw == code' = "throws" /\ todo' = <<>> /\ UNCHANGED <<results, found, asked>>

\* srv_prefix does not know the service, SRV_SERVICES neither.
Unknown(s) ==
  /\ Asking(s) /\ s \notin Service
  /\ IF caller \in InC
     THEN /\ code' = "KIRIN_ERR_PARSE" /\ todo' = Tail(todo)
          /\ UNCHANGED <<results, found, asked>>
     ELSE Throw
  /\ UNCHANGED <<zone, caller, calls, changes, lost, offered>>

\* What the C++ library reads a target of: a record that has one, or a bare one
\* (rdlen 6) with something that reads as a name behind it.
Kept(section) ==
  {section[k] : k \in {k \in DOMAIN section :
                         section[k].form \in {"srv", "bare"} /\ section[k].expands}}

\* Faulty variant: the records are not sorted.
Sorted_Unsorted(section) == Kept(section)

\* The C++ library sorts the records it keeps with an unstable sort.
Sorted(section) == {a \in Kept(section) : \A b \in Kept(section) : ~RanksBefore(b, a)}

\* The record that the C and C# libraries choose: one or none.
Chosen(section) == {section[k] : k \in {k \in DOMAIN section : IsChoice(section, k)}}

Candidates(section) == IF caller \in InCpp THEN Sorted(section) ELSE Chosen(section)

\* No record is left to choose from.
Nothing(section) == IF caller \in InCpp THEN Kept(section) = {} ELSE Chosen(section) = {}

\* The choice has no target: the C library gives up, whatever else there is.
Malformed(section) == caller \in InC /\ \E a \in Chosen(section) : ~a.expands

Find(s) ==
  /\ Asking(s) /\ s \in Service /\ ~Malformed(zone[s])
  /\ \E a \in Candidates(zone[s]) : results' = [results EXCEPT ![s] = a]
  /\ found' = found \cup {s} /\ code' = "KIRIN_OK"
  /\ GoOn(s)
  /\ UNCHANGED <<zone, caller, calls, changes, lost, offered>>

\* What resolve_kirin_dns puts in place of ws.
Missing(s) ==
  IF caller = "resolve_kirin_dns" /\ s = "ws" THEN [results EXCEPT ![s] = Fallback]
  ELSE results

\* Faulty variant: one service that is not found ends the call.
NotFound_Ends(s) ==
  /\ Asking(s) /\ s \in Service
  /\ Nothing(zone[s]) \/ Malformed(zone[s])
  /\ code' = IF Malformed(zone[s]) THEN "KIRIN_ERR_PARSE" ELSE "KIRIN_ERR_DNS"
  /\ results' = Missing(s)
  /\ todo' = <<>> /\ asked' = asked \cup {s} \cup {todo[n] : n \in DOMAIN todo}
  /\ UNCHANGED <<zone, caller, found, calls, changes, lost, offered>>

NotFound(s) ==
  /\ Asking(s) /\ s \in Service
  /\ Nothing(zone[s]) \/ Malformed(zone[s])
  /\ code' = IF Malformed(zone[s]) THEN "KIRIN_ERR_PARSE" ELSE "KIRIN_ERR_DNS"
  /\ results' = Missing(s)
  /\ GoOn(s)
  /\ UNCHANGED <<zone, caller, found, calls, changes, lost, offered>>

\* Faulty variant: the query is sent again and again.
Lose_Retry(s) ==
  /\ Asking(s) /\ s \in Service
  /\ lost' = lost \cup {s}
  /\ code' = IF code = "KIRIN_ERR_DNS" THEN "none" ELSE "KIRIN_ERR_DNS"
  /\ UNCHANGED <<zone, caller, calls, changes, offered, found, results, todo, asked>>

\* res_query gives up waiting, or gets a server failure.  UdpClient throws.
Lose(s) ==
  /\ Asking(s) /\ s \in Service
  /\ lost' = lost \cup {s}
  /\ IF caller = "ResolveAllServicesAsync" THEN Throw
     ELSE /\ code' = "KIRIN_ERR_DNS" /\ results' = Missing(s)
          /\ GoOn(s) /\ UNCHANGED found
  /\ UNCHANGED <<zone, caller, calls, changes, offered>>

Return ==
  /\ caller # "none" /\ todo = <<>>
  /\ caller' = "none"
  /\ UNCHANGED <<zone, todo, results, found, code, calls, changes, asked, lost, offered>>

Query(s) == Unknown(s) \/ Find(s) \/ NotFound(s) \/ Lose(s)

Next == Publish \/ Call \/ (\E s \in Service \cup {"bogus"} : Query(s)) \/ Return

\* A call goes on by itself, for res_query does not wait for ever.
Fairness ==
  /\ WF_vars(\E s \in Service \cup {"bogus"} : Query(s))
  /\ WF_vars(Return)

Spec == Init /\ [][Next]_vars /\ Fairness
----
(***************************************************************************)
(* Properties.                                                             *)
(***************************************************************************)

TypeOK ==
  /\ zone \in [Service -> Section] /\ caller \in DOMAIN Function \cup {"none"}
  /\ found \subseteq asked /\ asked \subseteq Service /\ lost \subseteq Service
  /\ results["http"] # Fallback /\ results["https"] # Fallback
  /\ code \in {"none", "KIRIN_OK", "KIRIN_ERR_DNS", "KIRIN_ERR_PARSE", "throws"}

\* What a call reports as found is an SRV record of its own service, was
\* published while it ran, and no record that the caller could use instead ranks
\* before it: never a leftover of an earlier call with the same structures, nor
\* in C a record without a target.
FoundWasOffered ==
  \A s \in found : \E section \in offered[s] :
    /\ \E k \in DOMAIN section : section[k] = results[s]
    /\ results[s].form \in {"srv", "bare"}
    /\ caller \in InC => IsUsable(results[s])
    /\ \A k \in DOMAIN section :
         IsUsable(section[k]) /\ section[k].expands => ~RanksBefore(section[k], results[s])

\* A service is missing from what a call returns, or falls back, for a cause of
\* its own: a lost reply, or a section without a choice that has a target.
\* No failure of one service takes another one with it.
AbsentForCause ==
  caller = "none" /\ code # "throws" =>
    \A s \in asked \ found :
      \/ s \in lost
      \/ \E section \in offered[s] : \A a \in Chosen(section) : ~a.expands

\* "leaves `result` untouched": whatever the C library does not find stays.
Untouched ==
  [][(caller \in InC /\ todo' # todo /\ code' # "KIRIN_OK") => results' = results]_vars

\* Every call returns.
Returns == caller # "none" ~> caller = "none"

====
