# Verification of KirinNet's resolvers

KirinNet publishes, for a domain, three DNS service records
(`_kirinnet-{http,https,ws}._tcp.<domain> SRV`) and a set of TXT records that
declare a `did:dns` identity. This repository holds what reads them: client
libraries in fourteen languages (`02_Libraries`) and a Manifest V3 browser
extension (`03_Browser_Extension`) that redirects requests to the ports the
service records name. This directory models those programs in TLA+, checks the
models with TLC and proves the main results with TLAPS.

    tlc -workers 2 -config MCServiceWorker.cfg MCServiceWorker.tla
    tlapm ServiceWorker_proofs.tla

## Inventory

### Browser extension

**Service worker** (`service_worker.js`). State: `SRV_CACHE` and
`IDENTITY_CACHE` in memory, lost whenever the browser ends the worker;
`chrome.storage.local`, which outlives it. Operations: `loadCache` at start,
the `onBeforeRequest` listener, `resolveSrv` in the background. The listener is
synchronous: it redirects by what memory holds, and starts a resolution for
what memory does not know. Hard: the listener, the resolutions and the load
interleave at every `await`; the worker dies between any two; the storage and
the DoH server fail. Correct if there is one query for a key at a time, no
sentinel (`null`) without a query behind it, answers under the key they were
obtained for, no answer past its time to live taken from the storage, and a
requested host known once failures stop.

**Redirects** (`buildRedirectUrl` and the listener). State: none of its own; a
redirected request comes back to the listener under its new host. Hard: the
cache changes between the hops; records may point at hosts that have records.
Correct if redirects end, and end where the record says.

**DoH fetcher** (`dns_fetcher.js`). State: only the storage, shared with the
worker and with every other caller. Operations: `resolveService`,
`resolveIdentity`, `resolveAllServices` (`Promise.all` of three). Hard: callers
of one key interleave between reading, removing and storing an entry. Correct
if a call resolves to a recent answer for its own key and settles, and queries
that fail make it resolve to null rather than reject.

### Client libraries

All fourteen offer the same operations (JavaScript's resolve nothing, see *Where
code and documents differ*): `resolveService` (one SRV query, the best record or
null), `resolveAllServices`, `parseDidDnsIdentity` with `isValid` on its result,
in eleven also `parseIdentityTxt` with `resolveIdentity`, and some a v1 parser
of JSON ports. They keep no state between calls, but for two things: the C
library's `_res`, and the C++ library's static decoding table. They interact
with nothing but DNS and their callers' structures; hard are the boundaries of
numbers, buffers and texts, the order of records, what counts as "no record",
lost and cut replies, results left over from an earlier call, and that fourteen
translations of one model agree.

| part | state | modules | status |
|---|---|---|---|
| selection of an SRV record | locals of the scan | `SrvRecords`, `SrvQuery`, `SrvScan`, `SrvLibraries` | C step by step; nine others, and JavaScript, by what they return |
| `resolveService`, `resolveAllServices`, `resolve_kirin_dns` | the services still to ask for, the caller's results | `Services` | C, C++ and C# |
| DNS parsers of C#, Dart, Lua | position in the reply | `DnsWire` | modelled for well-formed replies |
| did:dns identity and validity | the identity, the clock | `DidDns`, `DidDnsLibraries` | modelled, all fourteen |
| identity TXT records (`id=...;key=...`) | the structure being filled | `IdentityTxt`, `IdentityLibraries` | modelled, all eleven |
| the buffer C reads them from | position, buffer, offset | `TxtBuffer` | modelled, byte by byte |
| v1 JSON ports and `_res` | the caller's ports, the server named | `LegacyPorts` | C; the others use a JSON parser |
| Base64URL | shift register | `Base64Url` | encoder and decoder of C and C++ |
| C++ decoding table | static array and flag | `RevTable` | modelled, under threads |
| SHA-256 | buffer and counters | `Sha256Blocks` | the blocks of a message; not the compression |

Not in this repository, though described in `01_Standard`: relays, messaging,
content and flood protocols, distributed DNS. `04_Chromium_Browser` and
`05_Adoption` are prose; the `.d.ts` file, tests and build files carry no
behaviour.

## Modules

| module | models | how it corresponds to the code |
|---|---|---|
| `ExtensionStorage` | storage keys and entries | `StorageKeyOf`/`SlotOf`: the key templates and the `split('_')` of `loadCache`; a host is the sequence of its `_`-segments |
| `ServiceWorker` | `service_worker.js` | one action for the code between two awaits: `LoadGet`, `LoadApply`, `OnBeforeRequest`, `FetchOk`, `ReplyUsable`, `StoreOk`, every failure as an action of its own, `WorkerKill`/`WorkerStart`, the clock, another context that writes the storage |
| `SrvCache` | the promise of that cache | unknown, resolving or known per key; `ServiceWorker` implements it |
| `Redirect` | `buildRedirectUrl`, the listener | `Redirected`, `Proceeds`, `GivesUp` per hop; `Learns` and `Forgets` are all that resolutions, loads and restarts do to the cache |
| `DnsFetcher` | `dns_fetcher.js` | one action for the code between two awaits, `Promise.all` included |
| `SrvRecords` | an answer and the rank of one | what `parse_srv_rdata` reads of a record |
| `SrvQuery` | the promise of a query | one step to the choice or to an error; `SrvScan` implements it |
| `SrvScan` | `extract_srv` of `kirin_dns.c` | one turn of the loop is `Skip` or `Take` |
| `SrvLibraries` | `resolveService` of the libraries that neither scan nor decode by hand, and of C++ | a profile per library; what it may choose from the section the scan runs over (JavaScript: nothing) |
| `Services` | the callers above the scan, in C, C++ and C# | one query of a call is `Find`, `NotFound`, `Lose` or `Unknown`; `Publish` is the domain's owner, between any two queries |
| `DnsWire` | the octet parsers of C#, Dart and Lua | `Message` writes a reply, octet by octet, from the answers it is to have; one turn of a parser's loop over it is `TakeService`, `TakeText` or `PassOver`; `FailToDecode` is Dart's `utf8.decode` throwing |
| `DidDns` | `parseDidDnsIdentity`, `isValid` | texts are what they begin with and whether more follows; a profile says what each library makes of them; `Values` and `Wrapped` are the widths of its integers |
| `DidDnsLibraries` | the conversions of fourteen libraries | one profile each |
| `IdentityTxt` | `parseIdentityTxt`, `resolveIdentity` | one text of the reply is one `Try`; the structure survives a text that is refused |
| `IdentityLibraries` | the eleven libraries that read such records | one profile each |
| `TxtBuffer` | `extract_all_txt` and the walk of `kirin_resolve_identity` | `Count` and `Copy` are the two passes over the reply, `Try` one text of the walk; the C++ texts beside it |
| `LegacyPorts` | `kirin_resolve`, `kirin_resolve_with_server`, `json_get_uint16` | one action per call; a v2 call uses the same `_res` |
| `TxtRecords` | | those three side by side, as `kirin_dns.c` has them |
| `Base64Url` | `base64url_encode`, `base64url_decode`, `base64urlEncode`, `base64urlDecode` | one byte or digit per action; the register at a width of its own |
| `RevTable` | the static table of `base64urlDecode` | one store or load per action and thread; `FlagOvertakes` is the outcome of the race on the flag |
| `Sha256Blocks` | `sha256_update`, `sha256_final`, C++ `sha256` | one byte per action; bytes are told by where they come from |
| `MC*` | | values of the constants; `MCFingerprint` runs `Base64Url`, `RevTable` and `Sha256Blocks` |
| `*_proofs` | | theorems: `Srv_proofs` is about `SrvScan`, `SrvLibraries` and `Services`, `TxtRecords_proofs` about the readers of TXT records, `Fingerprint_proofs` about codec, table and blocks, the others about the module they are named after |

Modules that are proved about together have names of their own for what each
has: `ScanInit`, `BufferNext`, `PortsSpec`, `TableTypeOK`.

Definitions called *Faulty variant* (`Name_Suffix`) are plausible bugs. Nothing
uses them; each stands in for the definition it precedes when the properties
are tested, and each must then be refuted.

## What the runs show

| run | bounds | shows |
|---|---|---|
| `service_worker` | 2 hosts (`alice`, `alice_lan`: one key a prefix of the other), http, 2 activations, TTL 1, 2 ticks; 118,286 states | `SingleFlight`, `NullMeansInProgress`, `FiledUnderItsKey`, `BoundedStaleness`, `SentinelClears`, `CachedOnceHealthy`, `ImplementsSrvCache` |
| `fetcher` | 1 host, 3 kinds, one caller beside `resolveAllServices`; 162,596 | `ResolvedIsRecent`, `AllAreOwnAndRecent`, `AnsweredOnceSound`, `EveryCallSettles` |
| `fetcher_fresh_kept` | the same, one kind | refuted: a removal meant for an expired entry takes a fresh one |
| `redirect` | 3 hosts, all 2197 assignments of records, 2 ports and the default one, 4 hops; 509,562 | `BoundedHops`, `LandsOnRecord` |
| `srv_scan` | up to 3 answers; priority and weight 0, 1, 65535; 57,858 | `PicksTheChoice`, `AllChooseAlike`, `ImplementsSrvQuery` |
| `services` | 2 calls of any of six functions, 1 change by the owner, four sections per service; 379,143 | `FoundWasOffered`, `AbsentForCause`, `Returns` |
| `wire` | up to 2 answers after an alias or not, three owner names, five targets, five texts, in ASCII, in UTF-8 or in neither; 113,573 | `Aligned`, `ChoosesBest`, `ReadsTexts` |
| `wire_texts` | the same | refuted: the C# parser reads no text of any reply |
| `did_dns` | 14 libraries; every field well-formed or deviating, every order, records missing or doubled; numbers past 32 and 64 bits (3 and 31 stand for their limits) and past fifteen characters; 2 seconds; 690,480 | `FailClosed`, `ConformsOnWellFormed`, `OrderIndependent`, `InvalidIsFinal` |
| `did_agree` | the same | refuted: on records that are not well-formed the libraries disagree |
| `txt_records` | 11 libraries, up to 3 records of up to 3 pairs; 2 answers of up to 4 bytes; 3 legacy calls, 2 servers; 439,602 | `OneRecords`, `NonePassedOver`, `AllReadAlike`, `FindsFirst`, `ReadsProper`, `AsksLastNamed`, `TypesOK` |
| `fingerprint` | up to 4 bytes or 5 digits over a register of 12 bits; messages of 0 to 130 bytes; 3 threads, 3 characters; 1,185,142 | `DecodesDigits`, `RoundTrip`, `FeedsPadded`, `RightWhenAlone`, `NeverAcceptsWrong` |

`MCTxtRecords` and `MCFingerprint` each put three components together that read
one kind of thing and share no state. A variable `part` names the one that runs
while the others stay in one initial state: the states are those of the three
taken one after the other, and each property but `TypesOK` is about one of
them. `TypesOK` says more than types: that the second pass over a reply
stays within the buffer sized by the first, and leaves no byte of it unwritten.

### Why the bounds are enough

*Extension.* Keys of different hosts meet only in the storage's key strings: two
hosts with a common prefix show that. Two activations on two keys give every pair of
activations on a key, and a restart in between; times matter only against TTL,
so a clock of two ticks has entries before, at and past it. The safety
properties are also proved for any number of activations. No symmetry is used,
since the run has liveness properties.

*Redirects.* `MaxHops` (the browser's limit) is larger than the number of hosts,
so that a request can take more hops than `BoundedHops` allows where targets
form a circle, and the proof covers any number of hosts.

*Scan and parsers.* The scan keeps one record and meets one other; three records
give each order of three ranks. The values are the ones the scan starts from and
the limits of the field. For the parsers, two answers show that the first leaves
the position where the second begins; priorities 1 and 256 show the order of
octets. A name that is not UTF-8 occurs as an owner and as a target, beside one
that is: either makes Dart give up the reply.

*Identities.* Fields are converted one by one; the sets have each field's
deviations singly, and pairs where two act together (a blank before the
declaration with a version that is not 1). `Max32` = 3 and `Max64` = 31 stand
for the limits of integers: only the side of a limit matters, and where a number
wraps to. 2 * (`Max32` + 1) + 1 is to a 32-bit version what 4294967297 is, and
is far from `Max64`. In the proofs both limits are any numbers.

*Services.* Two calls show what one leaves in the other's structures; one change
during three queries separates a result from the sections before and after it.
The sections have a record or none, two in the wrong order, and a best one whose
target does not expand.

*Identity texts and buffer.* Two or three records are one that is refused and
the one that must not inherit its fields; a text of three pairs has a name
twice, or one missing. Two answers of four bytes have every way a
character-string can fit, be empty, be cut off, hold a NUL, or follow another.

*Codec, blocks, table.* A register of twelve bits loses bits from the third digit
on, one of 32 from the sixth; the proof is for every width. 130 bytes go past
two blocks, so each edge of the padding occurs in the first and in a later one.
With three threads one fills the table, one fills it again and one reads.

### Fairness

`ServiceWorker` assumes weak fairness of each activation's steps, and
`DnsFetcher` of each call's steps and of `Promise.all`: the browser settles
every promise it handed out, and the event loop runs the continuation. Neither
`fetch` nor the storage calls have a time-out of their own, so if the browser
never settled one, its sentinel would stand. Nothing makes a failure, a load, a
restart or a page's write happen. `CachedOnceHealthy` adds in the property
itself that the worker is started and the host is requested again and again,
and that failures stop. `Services` assumes that a query ends (`res_query` and its
like give up after their time-outs) and that a call goes on to its return;
nothing makes the owner publish or a caller call.

## Proofs

Every theorem holds for all values of the constants under the assumptions
declared with them (distinct markers, natural bounds, finite `Host`).

**`ServiceWorker_proofs`**. `SingleFlight`, `NullMeansInProgress`,
`FiledUnderItsKey`, `BoundedStaleness` and the refinement of `SrvCache`. The
invariants are not inductive: nothing in `SingleFlight` says that a request
finds its key taken. `IInv` adds `SlotHeld` (a running activation's key is in
the map, so no request starts a second; only its own `GiveUp` takes it out),
`StoredUnderItsKey` (the storage and the load's snapshot hold answers under
their keys, which needs that `SlotOf` undoes `StorageKeyOf`), and `DeadIsEmpty`
(a worker that does not run holds nothing, so a start may set `boot`). The
refinement follows action by action from `IInv`.

**`Srv_proofs`**, the scan. A loop invariant (`ScanInv`): the locals are those of
the choice among the answers before `i`, or none was usable. From it,
`PicksTheChoice`, `NoFalseFallback`, `AllChooseAlike` (the choice is what each
sorting library may choose) and the refinement of `SrvQuery`, for sections of
every length and all 16-bit values. The calls: `QueueInv` has the services still
to be asked for outside `asked`, without repetition, so that no query takes back
what an earlier one found; `AbsentInv` is `AbsentForCause` while the call still
runs. With `FoundWasOffered` they are inductive, whatever the owner publishes.

**`DnsFetcher_proofs`**. `IInv` follows an answer from the query to the storage,
from there to another caller, and on to what `resolveAllServices` hands out.
`FiledUnderItsKey`: what is stored under a key was obtained for the one slot
that has it (no two slots share a key, `StorageKeyIsOwn`). `HeldIsRecent`: what
a call holds is of its own slot, and was at most TTL old when the call was made;
an entry that another call stores in between is younger than that. From it
`ResolvedIsRecent`; with `CalledByName`, that the three calls of
`resolveAllServices` are for the slots they are named by, and
`AnswersAreTheirs`, that `answers` has what each of them resolved to,
`AllAreOwnAndRecent`. `QueriesDoNotReject`: unless the storage has failed or a
JSON reply had another shape than the code expects, no call has rejected,
whatever became of the queries (`NoneRejected`); that a caller who asks again is
then answered (`AnsweredOnceSound`) needs fairness.

**`DnsWire_proofs`**. For sections of any length whose counts and lengths fit
their 16-bit fields, names of any labels, compressed or not, strings of any
octets, and any set of octet strings for the ones that are UTF-8. `AfterName`,
`NameAt` and `FlattenSeq` are recursive functions, and that such a function
exists and unfolds is itself to be shown: the library's theorems for it take
operators, so `NatMin` (a nonempty set of numbers has a least element, from the
well-foundedness of `<`) takes their place, with `UpTo` for inductions to a
bound. `Gathered(ss, k)` are the first k of a sequence of pieces, run together;
`Holds(s, p, piece)` says that a piece stands at a position, and `GatheredHolds`
that each stands where those before it end. So whatever the sender wrote at a
position, the parsers' operators read there: the name they skip, the name that
`NameAt` follows through the pointer to the question, the numbers and the first
string. The invariant has the parser at `Start` of an answer (`OnStart`) with
what the answers before it hold (`HasRead`), in Dart each of them UTF-8
(`HasDecoded`), and no answer left when the loop ends (`ReadsAll`); from it
`Aligned`, `ChoosesBest` and `ReadsTexts`.

**`TxtRecords_proofs`**, identities. The texts before `k` were refused, and the
one a parser accepted is the one its identity is of: from it, for every profile
and every reply, `OneRecords` (no field is left over from a text that was
refused), `NonePassedOver` and `AllReadAlike` (JavaScript finds no identity in
any reply, and is not among the libraries that read alike). The ports: what a
server answers is read from its first text, member by member, so `ReadsProper`;
and `server = named` is what `AsksLastNamed` needs, though a call in between
uses `_res` for something else.

The buffer. `Visits` has the places that a pass comes to, `Offsets` where each
string begins in the buffer. `Counting` and `Copying` say of both passes that they
come to the same string at the same place, with as many bytes counted or
written as the strings before it take; hence `TypesOK`, the second pass fits
what the first has counted. `Walking`: where no string has a NUL, the walk stands
at an offset, and the NUL it seeks is the end of that string; hence
`FindsFirst`, for replies of every size.

**`Fingerprint_proofs`**, the codec. `DecodesDigits` for every text and every
register of twelve bits or more: `Pending` says, for each remainder of four digits, which low
bits of the register are those of the last digit that are still to go out,
whatever was shifted out above.
`RoundTrip` by `EncodeInv`, the same for the bytes encoded.

The blocks. `BlocksInv` gives each phase its invariant: what is in
the buffer up to `datalen`, that the blocks compressed are those of the padded
message, and for C++ that `msg` is a prefix of it. From it `FeedsPadded` for
messages of every length.

The table. `NeverAcceptsWrong` for any number of threads: while stores
keep their order, every entry that a set flag or a thread past its first loop
vouches for has been stored to, and is -1 or the character's value (`TableInv`);
so the digits a thread has read are the values of its key's characters
(`ReadInv`), though another thread may be clearing the table. `RightWhenAlone`
holds in builds that reorder the stores too: each entry is right, or a thread is
still going to put it right, or none has begun (`TableSettles`); and a call that
nobody races with fills the table itself or sees a flag that vouches for all of
it (`AloneFills`, `FlagSeen`).

**`Redirect_proofs`**. `BoundedHops` by a potential (`Descending`): for every
ranking that targets descend, `hops + rank[url.host]` never exceeds
`rank[start.host] + 1`, and exceeds `rank[start.host]` only once the request
has its host's own port, from where it is not redirected. The cache may change
between the hops because it holds nothing but the zone's records
(`CacheIsZone`). `LandsOnRecord` by `OnRecord`: after the first hop the request
is where the record points, and a host without a record redirects no further.

**`DidDns_proofs`**. `HeldIsParsed`: what a caller holds is what parsing the
answer gave. From it and lemmas about each conversion, for every profile:
`FailClosed`, `InvalidIsFinal`, and `ConformsOnWellFormed`, hence that all
libraries agree on well-formed records: versions of 31 bits, times of 63, in no
more than fifteen characters. `OrderIndependent` from the same invariant: with
one record of a type, the first of a type is the same record in every order
(`RawReordered`), and the parser sees nothing else.

The type invariants of all of these modules are theorems too (`TypeCorrect` and
the like), as are `Untouched` of `Services` and `NoFalseFallback` of `SrvScan`.

Only model-checked: the liveness properties `SentinelClears`,
`CachedOnceHealthy`, `EveryCallSettles`, `AnsweredOnceSound` and `Returns`,
whose proof needs fairness and ENABLED. Every other property of the runs that
pass is a theorem. The runs still say what the theorems do not: that the cases
the properties speak of occur, and that the constants' assumptions can be met.

What the theorems take for granted is declared beside the constants, and each
assumption is about data the code does not choose: markers differ from values,
bounds are natural numbers, hosts are finitely many, a register has twelve bits
or more. The profiles of libraries are constants as well; their assumptions
(`ProfileAssumption`, `RecordsAssumption`) say what all the profiles of
`DidDnsLibraries` and `IdentityLibraries` share, and TLC evaluates them for those.

## Where code and documents differ

Shown by a run:

- `KirinDns.cs` `ExtractTxtAnswers` skips type, class *and* lifetime, then four
  octets more "for the TTL": C# finds no TXT record at all (`wire_texts`).
- `dns_fetcher.js` removes by key after an await: a fresh entry may be what it
  removes (`fetcher_fresh_kept`).
- The libraries turn texts that are not numbers, empty fields and padded keys
  into different verdicts (`did_agree`).

Found while modelling:

- The JavaScript library resolves nothing: it awaits the callback functions of
  `dns` without a callback (`kirin_dns.js:39`, 88, 350, and in
  `resolveIdentityDidDns`), which throw, and takes that for "no record". Its tests
  replace them by functions that return promises.
- A JSON reply of another shape than expected (`null`, an `Answer` that is no
  array, `data` that is no string) makes `resolveService` and
  `resolveAllServices` of the extension reject (`dns_fetcher.js:107-120`), against
  "@returns ...|null" (line 77).
- No document bounds the numbers of a declaration. `v=4294967297` is version 1 in C
  and C++, which wrap, and in Rust, Java, Kotlin and C#, which fall back to the
  default; Go wraps at 64 bits, Dart and Swift fall back there, PHP stays at the
  limit. C reads fifteen characters of a number, so an `exp` of fifteen zeros and
  then digits never expires.
- C++ keeps an SRV record of six octets (`kirin_dns.hpp:189`), C asks for seven
  (`kirin_dns.c:208`).
- Dart throws if a name or text of the reply is not UTF-8 (`kirin_dns.dart:130`,
  200), against "null if no SRV record found" (line 261); C# replaces what it
  cannot decode.
- An answer already used for redirects is dropped when storing it fails
  (`service_worker.js:123`), against "subsequent requests to the same domain
  will be redirected" (line 13).
- A record with the scheme's default port is ignored, target and all
  (`service_worker.js:133`), where `spec_v1.md:307-309` has its target used.
- `extract_srv` promises `KIRIN_OK` "if at least one valid SRV record was found"
  (`kirin_dns.c:185`); if the best record's target does not expand it gives
  `KIRIN_ERR_PARSE` (line 225), where C++ takes the next one.
- `KIRIN_ERR_TIMEOUT` (`kirin_dns.h:91`) is returned by nothing: a lost reply is
  `KIRIN_ERR_DNS` (`kirin_dns.c:388`), like a domain without records.
- Two threads whose first calls decode keys race on the C++ library's static
  table (`kirin_dns.hpp:402`); at best one of them calls a sound identity broken,
  against "True iff declared fp matches" (line 458).
- `kirin_resolve_with_server` reads the first TXT string of the reply
  (`kirin_dns.c:477`), not "the first valid ADRP JSON record" (`kirin_dns.h:181`).
- The walk over the C library's buffer ends at a text that begins with a NUL
  (`kirin_dns.c:428`), against "try each one" (line 425).
- Rust takes a text for an identity that has only a key or a nickname
  (`lib.rs:154`), which `02_Libraries/README.md:32` has refused; the other ten
  refuse it.
- The standard refuses an identity whose `iat` is not within five minutes
  (`spec_v1.md:222-223`), and Python says "in window" (`kirin_dns.py:136`);
  `isStale` exists in seven libraries and nothing calls it.
- The standard requires `exp` and `kty`; every library accepts records without.
- Lua's `parseDnsResponse` finds no service in a reply that begins with an alias;
  C#'s `ReadName` does not follow a compression pointer. `ChoosesBest` leaves out
  the one and asks only the port of the other.

## Abstractions

- An answer in the extension is the key it was obtained for and its time; the
  choice among several answers is modelled for the libraries only.
- A fingerprint is the key it was computed from: the hash has no collisions, and
  its compression function is left out of `Sha256Blocks`.
- Blanks around `key=value` pairs are not modelled in `DidDns`, but for a blank
  before the whole declaration and in the blacklist, where libraries differ. NaN
  is 0. Where an outcome depends on bytes the model drops (a key with foreign
  characters), every outcome is possible.
- In C and C++ the Base64URL codec shifts a signed register that overflows, which
  is undefined; `Base64Url` has the outcome of the builds that keep its low bits.
- The race on the C++ table is undefined too; `RevTable` has stores seen in order,
  or the flag seen before the table is full.
- Numbers in `DidDns` are in their shortest spelling but for leading zeros (the
  fifteen characters of C), `unsigned long` has 64 bits, and what a double rounds
  past 2^53 is still past every version and clock.
- In `DnsWire` which octets are UTF-8 is a constant, and one U+FFFD stands for the
  whole of a text that C# replaces parts of. Strings with a byte order mark, which
  Dart drops, are left out.
- Identity texts are cut at ";" only, and Swift's `dig` output has no escapes.
- Replies in `DnsWire` are well-formed and whole; a compressed name ends in a
  pointer to the question's name. A lost reply is `TimesOut`. Empty character-strings
  are left out, of which each parser makes something else. `Message` is
  written from the DNS message format, not from the parsers.
- `Redirect` has one scheme, which a redirect keeps, and targets and ports a URL
  accepts; the root as a target is `NoTarget`, which the `hostname` setter
  ignores.

## Not modelled

- SHA-256's compression: arithmetic without state of its own.
- `parse_srv_response` of the C++ library and `parseIdentityTxt` of the service
  worker: nothing calls them. `kirin_cleanup`: no later call sees what it does.
- The legacy v1 parsers of the other libraries, which hand the text to a JSON
  parser, and `resolveAllServices` of the other languages, a loop like C++'s.
- Malformed replies, and replies cut at 512 octets: a section cut at an answer is
  a shorter section to every parser.
- Which answer the service worker takes of several: the rule is the libraries'.

## Plan

1. A common abstract specification that the parsers of `DnsWire` implement, as
   `SrvScan` implements `SrvQuery`: one step from the reply to its result, with the
   walk invisible.
2. `DnsFetcher` against a specification of a cache with a time to live, for which
   `HeldIsRecent` already has what the mapping needs.
3. For each liveness property the part that is safety: a number that every step of
   a call, and nothing else, makes smaller, so that fairness alone is left to TLC.
