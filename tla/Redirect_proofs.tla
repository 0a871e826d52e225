---- MODULE Redirect_proofs ----
(***************************************************************************)
(* Proofs about redirects, for all hosts, ports and assignments of records.*)
(***************************************************************************)
EXTENDS Redirect, FiniteSetTheorems, TLAPS

CacheIsZone == \A host \in Host : cache[host] \in {NoRecord, zone[host]}

\* Each redirect goes down in rank but one, to the port of the host it is at,
\* after which that host redirects no more.
Descending ==
  \A rank \in [Host -> Nat] : Descends(rank) =>
    \/ hops + rank[url.host] <= rank[start.host]
    \/ /\ hops + rank[url.host] = rank[start.host] + 1
       /\ zone[url.host] # NoRecord /\ url.port = zone[url.host].port

\* Until the first answer of the listener the request is the one started.
NotYet ==
  /\ hops = 0 => url = start
  /\ hops = 0 /\ fate = "requested" => due = NoRecord
  /\ due \in {NoRecord, zone[start.host]}

OnRecord ==
  due # NoRecord /\ due.port # DefaultPort /\ start.port # due.port
      /\ (Named(start, due) = start.host \/ zone[Named(start, due)] = NoRecord) =>
    hops > 0 /\ url = [host |-> Named(start, due), port |-> due.port]

IInv == TypeOK /\ CacheIsZone /\ Descending /\ NotYet /\ OnRecord

LEMMA HopsNatural == ASSUME TypeOK PROVE hops \in Nat
<1>1. hops \in 0..MaxHops
  BY DEF TypeOK
<1> QED
  BY <1>1, MaxHopsAssumption

LEMMA HopsStayInRange ==
  /\ 0 \in 0..MaxHops
  /\ \A n \in 0..MaxHops : n < MaxHops => n + 1 \in 0..MaxHops
  BY MaxHopsAssumption

LEMMA HostsOfUrls == ASSUME TypeOK PROVE url.host \in Host /\ start.host \in Host
  BY DEF TypeOK, Url

LEMMA TypeInvariant == Spec => []TypeOK
<1>1. Init => TypeOK
  BY ZonesAssumption, MaxHopsAssumption DEF Init, TypeOK, NothingCached, Zone
<1>2. TypeOK /\ [Next]_vars => TypeOK'
  <2> SUFFICES ASSUME TypeOK, [Next]_vars PROVE TypeOK'
    OBVIOUS
  <2> USE DEF TypeOK
  <2>1. CASE Redirected
    <3>1. cache[url.host] \in Record /\ cache[url.host].port # DefaultPort
      BY <2>1 DEF Redirected, Redirects, Zone, Url
    <3>2. url' \in Url
      BY <2>1, <3>1 DEF Redirected, RedirectUrl, Record, Url
    <3>3. hops' \in 0..MaxHops
      <4>1. hops \in 0..MaxHops /\ hops < MaxHops /\ hops' = hops + 1
        BY <2>1 DEF Redirected
      <4> QED
        BY <4>1, HopsStayInRange
    <3>4. due' \in Record \cup {NoRecord}
      BY <2>1, <3>1 DEF Redirected
    <3> QED
      BY <2>1, <3>2, <3>3, <3>4 DEF Redirected
  <2>2. CASE Proceeds
    BY <2>2 DEF Proceeds, Zone, Url
  <2>3. CASE GivesUp
    BY <2>3 DEF GivesUp
  <2>4. CASE NewRequest
    BY <2>4, HopsStayInRange DEF NewRequest
  <2>5. ASSUME NEW host \in Host, Learns(host) PROVE TypeOK'
    BY <2>5 DEF Learns, Zone
  <2>6. ASSUME NEW hosts, Forgets(hosts) PROVE TypeOK'
    BY <2>6 DEF Forgets, Zone
  <2>7. CASE UNCHANGED vars
    BY <2>7 DEF vars
  <2> QED
    BY <2>1, <2>2, <2>3, <2>4, <2>5, <2>6, <2>7 DEF Next
<1> QED
  BY <1>1, <1>2, PTL DEF Spec

\* The state keeps its shape, for all hosts, ports and zones.
THEOREM TypeCorrect == Spec => []TypeOK
  BY TypeInvariant

\* What a redirect finds: a record of the zone, with another port.
LEMMA RedirectedFinds ==
  ASSUME TypeOK, CacheIsZone, Redirected
  PROVE  LET srv == zone[url.host] IN
         /\ srv \in Record /\ cache[url.host] = srv /\ srv # NoRecord
         /\ srv.port # DefaultPort /\ url.port # srv.port
         /\ url' = RedirectUrl(url, srv) /\ hops' = hops + 1 /\ hops \in Nat
         /\ due' = IF hops = 0 THEN srv ELSE due
         /\ UNCHANGED <<zone, cache, start, fate>> /\ fate = "requested"
  BY MaxHopsAssumption DEF TypeOK, CacheIsZone, Redirected, Redirects, Zone, Url

LEMMA Inductive == Spec => []IInv
<1>1. Init => IInv
  <2> SUFFICES ASSUME Init, TypeOK PROVE IInv
    BY ZonesAssumption, MaxHopsAssumption DEF Init, TypeOK, NothingCached, Zone
  <2>1. CacheIsZone /\ NotYet /\ OnRecord
    BY DEF Init, NothingCached, CacheIsZone, NotYet, OnRecord
  <2>2. Descending
    <3>1. ASSUME NEW rank \in [Host -> Nat]
          PROVE  hops + rank[url.host] <= rank[start.host]
      <4>1. start.host \in Host /\ url = start /\ hops = 0
        BY DEF Init, TypeOK, Url
      <4> QED
        BY <4>1
    <3> QED
      BY <3>1 DEF Descending
  <2> QED
    BY <2>1, <2>2 DEF IInv
<1>2. TypeOK /\ TypeOK' /\ IInv /\ [Next]_vars => IInv'
  <2> SUFFICES ASSUME TypeOK', IInv, [Next]_vars PROVE IInv'
    OBVIOUS
  <2> USE DEF IInv
  <2>1. CASE Redirected
    <3> DEFINE srv == zone[url.host]
    <3>1. /\ srv \in Record /\ srv # NoRecord /\ cache[url.host] = srv
          /\ srv.port # DefaultPort /\ url.port # srv.port
          /\ url' = RedirectUrl(url, srv) /\ hops' = hops + 1 /\ hops \in Nat
          /\ due' = IF hops = 0 THEN srv ELSE due
          /\ UNCHANGED <<zone, cache, start, fate>> /\ fate = "requested"
      BY <2>1, RedirectedFinds
    <3>2. CacheIsZone'
      BY <3>1 DEF CacheIsZone
    <3>3. Descending'
      <4> SUFFICES ASSUME NEW rank \in [Host -> Nat], Descends(rank)
                   PROVE  \/ hops' + rank[url'.host] <= rank[start.host]
                          \/ /\ hops' + rank[url'.host] = rank[start.host] + 1
                             /\ zone[url'.host] # NoRecord /\ url'.port = zone[url'.host].port
        BY <3>1 DEF Descending, Descends
      <4>1. url.host \in Host /\ start.host \in Host /\ url'.host \in Host
        BY DEF TypeOK, Url
      <4>2. rank[url.host] \in Nat /\ rank[start.host] \in Nat /\ rank[url'.host] \in Nat
        BY <4>1
      <4>3. hops + rank[url.host] <= rank[start.host]
        BY <3>1 DEF Descending
      <4>4. url'.port = srv.port
        BY <3>1 DEF RedirectUrl
      <4>5. CASE url'.host = url.host
        BY <3>1, <4>2, <4>3, <4>4, <4>5
      <4>6. CASE url'.host # url.host
        <5>1. url'.host = srv.target /\ srv.target \notin {url.host, NoTarget}
          BY <3>1, <4>6 DEF RedirectUrl
        <5>2. rank[url'.host] < rank[url.host]
          BY <3>1, <4>1, <5>1 DEF Descends
        <5> QED
          BY <3>1, <4>2, <4>3, <5>2
      <4> QED
        BY <4>5, <4>6
    <3>4. NotYet'
      BY <3>1 DEF NotYet
    <3>5. OnRecord'
      <4>1. CASE hops = 0
        <5>1. url = start /\ due' = srv
          BY <3>1, <4>1 DEF NotYet
        <5> QED
          BY <3>1, <5>1 DEF OnRecord, RedirectUrl, Named
      <4>2. CASE hops # 0
        <5>1. due' = due
          BY <3>1, <4>2
        <5>2. /\ due # NoRecord /\ due.port # DefaultPort /\ start.port # due.port
              /\ Named(start, due) = start.host \/ zone[Named(start, due)] = NoRecord
              => FALSE
          <6> SUFFICES ASSUME due # NoRecord, due.port # DefaultPort, start.port # due.port,
                              Named(start, due) = start.host \/ zone[Named(start, due)] = NoRecord
                       PROVE  FALSE
            OBVIOUS
          <6>1. url = [host |-> Named(start, due), port |-> due.port]
            BY DEF OnRecord
          <6>2. url.host = Named(start, due) /\ url.port = due.port
            BY <6>1
          <6>3. due = zone[start.host]
            BY DEF NotYet
          <6> QED
            BY <3>1, <6>2, <6>3
        <5> QED
          BY <3>1, <5>1, <5>2 DEF OnRecord, Named
      <4> QED
        BY <4>1, <4>2
    <3> QED
      BY <3>2, <3>3, <3>4, <3>5
  <2>2. CASE Proceeds
    <3>1. /\ UNCHANGED <<zone, cache, start, url, hops>> /\ fate = "requested"
          /\ due' = IF hops = 0 THEN cache[url.host] ELSE due
          /\ fate' = "proceeds" /\ ~Redirects(url, cache[url.host])
      BY <2>2 DEF Proceeds
    <3>2. url.host \in Host /\ hops \in Nat
      BY HopsNatural, HostsOfUrls
    <3>3. CacheIsZone' /\ Descending'
      BY <3>1 DEF CacheIsZone, Descending, Descends
    <3>4. NotYet'
      BY <3>1, <3>2 DEF NotYet, CacheIsZone
    <3>5. OnRecord'
      <4>1. CASE hops = 0
        <5>1. due' = cache[start.host] /\ ~Redirects(start, due')
          BY <3>1, <4>1 DEF NotYet
        <5> QED
          BY <3>1, <5>1 DEF OnRecord, Redirects
      <4>2. CASE hops # 0
        BY <3>1, <4>2 DEF OnRecord, Named
      <4> QED
        BY <4>1, <4>2
    <3> QED
      BY <3>3, <3>4, <3>5
  <2>3. CASE GivesUp
    BY <2>3 DEF GivesUp, CacheIsZone, Descending, Descends, NotYet, OnRecord, Named
  <2>4. CASE NewRequest
    <3>1. /\ start' \in Url /\ url' = start' /\ due' = NoRecord /\ hops' = 0
          /\ UNCHANGED <<zone, cache>>
      BY <2>4 DEF NewRequest
    <3>2. CacheIsZone' /\ NotYet' /\ OnRecord'
      BY <3>1 DEF CacheIsZone, NotYet, OnRecord
    <3>3. Descending'
      <4>1. ASSUME NEW rank \in [Host -> Nat]
            PROVE  hops' + rank[url'.host] <= rank[start'.host]
        <5>1. start'.host \in Host
          BY <3>1 DEF Url
        <5> QED
          BY <3>1, <5>1
      <4> QED
        BY <4>1 DEF Descending
    <3> QED
      BY <3>2, <3>3
  <2>5. ASSUME NEW host \in Host, Learns(host) PROVE IInv'
    <3>1. UNCHANGED <<zone, start, due, url, hops, fate>>
      BY <2>5 DEF Learns
    <3>2. CacheIsZone'
      BY <2>5 DEF Learns, CacheIsZone, TypeOK, Zone
    <3> QED
      BY <3>1, <3>2 DEF Descending, Descends, NotYet, OnRecord, Named
  <2>6. ASSUME NEW hosts, Forgets(hosts) PROVE IInv'
    <3>1. UNCHANGED <<zone, start, due, url, hops, fate>>
      BY <2>6 DEF Forgets
    <3>2. CacheIsZone'
      BY <2>6 DEF Forgets, CacheIsZone
    <3> QED
      BY <3>1, <3>2 DEF Descending, Descends, NotYet, OnRecord, Named
  <2>7. CASE UNCHANGED vars
    BY <2>7 DEF vars, CacheIsZone, Descending, Descends, NotYet, OnRecord, Named
  <2> QED
    BY <2>1, <2>2, <2>3, <2>4, <2>5, <2>6, <2>7 DEF Next
<1> QED
  BY <1>1, <1>2, TypeInvariant, PTL DEF Spec

\* Without a circle of targets the redirects end, after one for each host at
\* most, whatever the cache does meanwhile; for any number of hosts.
THEOREM BoundedHopsHolds == Spec => []BoundedHops
<1>1. IInv => BoundedHops
  <2> SUFFICES ASSUME IInv, NEW rank \in [Host -> 0..(Cardinality(Host) - 1)], Descends(rank)
               PROVE  hops <= Cardinality(Host)
    BY DEF BoundedHops
  <2>1. Cardinality(Host) \in Nat
    BY HostAssumption, FS_CardinalityType
  <2>2. rank \in [Host -> Nat]
    BY <2>1
  <2>3. url.host \in Host /\ start.host \in Host /\ hops \in Nat
    BY HopsNatural, HostsOfUrls DEF IInv
  <2>4. hops + rank[url.host] <= rank[start.host] + 1
    BY <2>2, <2>3 DEF IInv, Descending
  <2>5. rank[url.host] \in Nat /\ rank[start.host] \in Nat
        /\ rank[start.host] <= Cardinality(Host) - 1
    BY <2>1, <2>3
  <2> QED
    BY <2>1, <2>3, <2>4, <2>5
<1> QED
  BY <1>1, Inductive, PTL

\* A request for a host whose record was known ends at its target and port.
THEOREM LandsOnRecordHolds == Spec => []LandsOnRecord
<1>1. IInv => LandsOnRecord
  BY DEF IInv, OnRecord, LandsOnRecord
<1> QED
  BY <1>1, Inductive, PTL
====
