---- MODULE Redirect ----
(***************************************************************************)
(* How the extension moves a request to the port of an SRV record: the     *)
(* onBeforeRequest listener and buildRedirectUrl                           *)
(* (03_Browser_Extension/service_worker.js).  The browser issues the       *)
(* redirected request anew, so the listener sees it again, under its new   *)
(* host and port, while resolutions in the background fill the cache and   *)
(* failures empty it.                                                      *)
(*                                                                         *)
(* A redirect keeps the scheme, so one scheme is modelled.                 *)
(***************************************************************************)
EXTENDS Integers, FiniteSets

CONSTANTS
  Host,
  Port,
  DefaultPort,  \* FALLBACK_PORTS of the scheme
  NoPort,       \* url.port of a URL that names none, or the default one: ""
  NoTarget,     \* a target that is no host name: the root, or the host itself missing
  NoRecord,     \* a host without an SRV record, or one the cache does not know
  Zones,        \* the assignments of records to hosts considered
  MaxHops       \* the redirects the browser follows

Record == [target : Host \cup {NoTarget}, port : Port]
Zone == [Host -> Record \cup {NoRecord}]
Url == [host : Host, port : (Port \ {DefaultPort}) \cup {NoPort}]

ASSUME MarkerAssumption ==
  /\ DefaultPort \in Port /\ NoPort \notin Port /\ NoTarget \notin Host
  /\ NoRecord \notin Record
ASSUME HostAssumption == IsFiniteSet(Host)
ASSUME ZonesAssumption == Zones \subseteq Zone
ASSUME MaxHopsAssumption == MaxHops \in Nat

VARIABLES
  zone,   \* the SRV records
  cache,  \* SRV_CACHE: NoRecord for undefined and for the null sentinel
  start,  \* history: the URL first requested
  due,    \* history: what the cache held for it when it was
  url,    \* the URL now requested
  hops,   \* redirects followed
  fate    \* "requested", "proceeds" or "given up"

vars == <<zone, cache, start, due, url, hops, fate>>

NothingCached == [host \in Host |-> NoRecord]
----
(***************************************************************************)
(* buildRedirectUrl, applied where there is a record.                      *)
(***************************************************************************)
\* Faulty variant: a URL that has the record's port already is redirected too.
Redirects_Again(u, srv) == srv # NoRecord /\ srv.port # DefaultPort

Redirects(u, srv) == srv # NoRecord /\ srv.port # DefaultPort /\ u.port # srv.port

\* Faulty variant: only the port is replaced.
RedirectUrl_PortOnly(u, srv) == [host |-> u.host, port |-> srv.port]

\* The hostname setter ignores what is no host name.
RedirectUrl(u, srv) ==
  [host |-> IF srv.target = NoTarget THEN u.host ELSE srv.target, port |-> srv.port]
----
Init ==
  /\ zone \in Zones
  /\ cache = NothingCached
  /\ start \in Url
  /\ due = NoRecord
  /\ url = start
  /\ hops = 0
  /\ fate = "requested"

\* The listener returns redirectUrl, and the browser requests that.
Redirected ==
  /\ fate = "requested" /\ hops < MaxHops
  /\ Redirects(url, cache[url.host])
  /\ url' = RedirectUrl(url, cache[url.host])
  /\ due' = IF hops = 0 THEN cache[url.host] ELSE due
  /\ hops' = hops + 1
  /\ UNCHANGED <<zone, cache, start, fate>>

\* The listener returns undefined.
Proceeds ==
  /\ fate = "requested"
  /\ ~Redirects(url, cache[url.host])
  /\ due' = IF hops = 0 THEN cache[url.host] ELSE due
  /\ fate' = "proceeds"
  /\ UNCHANGED <<zone, cache, start, url, hops>>

\* The browser ends a chain of too many redirects.
GivesUp ==
  /\ fate = "requested" /\ hops = MaxHops
  /\ Redirects(url, cache[url.host])
  /\ fate' = "given up"
  /\ UNCHANGED <<zone, cache, start, due, url, hops>>

\* resolveSrv or loadCache puts a host's record into the cache.
Learns(host) ==
  /\ cache[host] # zone[host]
  /\ cache' = [cache EXCEPT ![host] = zone[host]]
  /\ UNCHANGED <<zone, start, due, url, hops, fate>>

\* A failing resolution deletes it, or the worker restarts.
Forgets(hosts) ==
  /\ cache' = [host \in Host |-> IF host \in hosts THEN NoRecord ELSE cache[host]]
  /\ cache' # cache
  /\ UNCHANGED <<zone, start, due, url, hops, fate>>

\* The next request, of any URL.
NewRequest ==
  /\ fate # "requested"
  /\ start' \in Url
  /\ url' = start'
  /\ due' = NoRecord
  /\ hops' = 0
  /\ fate' = "requested"
  /\ UNCHANGED <<zone, cache>>

Next ==
  \/ Redirected \/ Proceeds \/ GivesUp \/ NewRequest
  \/ \E host \in Host : Learns(host)
  \/ \E hosts \in {Host} \cup {{host} : host \in Host} : Forgets(hosts)

Spec == Init /\ [][Next]_vars
----
(***************************************************************************)
(* Properties.                                                             *)
(***************************************************************************)

TypeOK ==
  /\ zone \in Zone
  /\ cache \in Zone
  /\ start \in Url /\ url \in Url
  /\ due \in Record \cup {NoRecord}
  /\ hops \in 0..MaxHops
  /\ fate \in {"requested", "proceeds", "given up"}

\* Following targets leads down in rank, so never in a circle.
Descends(rank) ==
  \A host \in Host :
    zone[host] # NoRecord /\ zone[host].target \notin {host, NoTarget} =>
      rank[zone[host].target] < rank[host]

\* Where the targets of the records form no circle, a request is redirected at
\* most once for each host, whatever the cache learns and forgets meanwhile.
BoundedHops ==
  \A rank \in [Host -> 0..(Cardinality(Host) - 1)] :
    Descends(rank) => hops <= Cardinality(Host)

Named(u, srv) == IF srv.target = NoTarget THEN u.host ELSE srv.target

\* "redirects them to SRV-discovered non-standard ports": a request for a host
\* whose record was known ends at the record's target and port, if that target
\* has no record of its own.
LandsOnRecord ==
  fate = "proceeds" /\ due # NoRecord /\ due.port # DefaultPort
      /\ start.port # due.port
      /\ (Named(start, due) = start.host \/ zone[Named(start, due)] = NoRecord) =>
    url = [host |-> Named(start, due), port |-> due.port]

====
