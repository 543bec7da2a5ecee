# BridgeDB in TLA+

BridgeDB collects descriptors of Tor bridges from the bridge authority, splits
the bridges among distributors, and gives a few of them to each client that
asks by email, over HTTPS or through moat. This directory holds a formal model
of its core logic: TLA+ modules translated from the source under `src/`, TLC
configurations that check them on small instances, and proofs, checked by TLAPS,
of what holds for every instance. Paths below are relative to `src/bridgedb/`
unless they start with `src/`.

## The system

| part | state | operations | talks to |
|---|---|---|---|
| database handle (`Storage.py`) | a re-entrant lock, `_LOCKED`, `_OPENED_DB`, `_REFCOUNT` | `getDB`, `commit`, `rollback`, `close` | every thread that reads or writes a table |
| tables (`Storage.py`) | Bridges, EmailedBridges, WarnedEmails, BridgeMeasurements, BridgeHistory | one method per query | handle |
| bridge splitter (`bridgerings.py`) | rings, shares, `pValues` | `addRing`, `insert` | Bridges table, hashrings |
| hashrings (`bridgerings.py`) | bridges by HMAC, sorted positions, sub-rings by filter | `insert`, `remove`, `getBridges`, `addRing` | distributors |
| reload (`main.py`) | a new splitter per reload, the reactor's queue | SIGHUP, `load`, `replaceBridgeRings` | descriptor files, splitter, reactor |
| email (`distributors/email/`) | times of answers and warnings | `getBridges`, `cleanDatabase`, checks, sending | handle, hashring |
| HTTPS and moat (`distributors/https`, `moat`) | hashring, proxies, captchas | client to position, answer | hashring, proxies |
| proxies (`proxy.py`) | addresses with tags and times | add, replace, expire, exit list | reload thread, reactor |
| bridges (`bridges.py`, `parse/`) | one object per bridge, built from three descriptors | `updateFrom...`, `getBridgeLine` | load, measurements |
| measurements (`Storage.py`, `main.py`) | rows by fingerprint, place and time | `getBlockedBridgesFromSql`, `loadBlockedBridges` | bridges |
| stability (`Stability.py`) | BridgeHistory rows | add, discount, prune | handle |
| servers (`distributors/https/server.py`, `moat/server.py`, `email/autoresponder.py`) | answers still to be sent | captcha pages and their check, requests, bots, mails and their checks | distributors, metrics |
| schedules, captchas (`schedule.py`, `captcha.py`) | intervals, HMACed time stamps | `intervalStart`, `createChallenge`, `check` | servers, distributors |
| metrics (`metrics.py`) | hot and cold counters | `set`, `inc`, `reset`, `export` | servers, reload thread, a looping call |

One reactor thread serves all clients and runs the periodic tasks. Jobs given to
`reactor.callInThread` (every SIGHUP's `reload()`, and the stability update) run
in a thread pool beside it, and hand results back with `callFromThread`. All of
them share the database file. What is hard about this is listed, line by line,
under `hazards` in `PROJECT.json`: three threads and one connection, exceptions
between a lock and its count, reloads that overlap or fail half way, a hand-over
in several steps, a bridge inserted twice with different requests, two tables
of rounded times that expire at different moments, a set of proxies that two
threads change without a lock, rings cached by a name made of their filters,
measurements that arrive in any order, counters that are exported while the
reload's thread sets them, and captchas without a server-side record.

## Modules

| module | models | kind |
|---|---|---|
| `SerialStore` | what `getDB` promises: sessions one at a time, writes appear at commit | abstract specification |
| `Storage`, `MCStorage` | `getDB` step by step, and the statements of its bodies | component; refines `SerialStore` |
| `StorageProofs` | exclusion, exact counts, nothing leaks, the refinement | proofs |
| `RingAssignment` | the decision inside `BridgeSplitter.insert` | operators, shared by the next two |
| `BridgeSplitter`, `MCBridgeSplitter` | which distributor each bridge is given to, over reloads | component |
| `BridgeSplitterProofs` | the assertion in `insert`, shares, requests, the record | proofs |
| `AuthorityFiles` | what the authorities' files, read in turn, make of a bridge | operators, shared by the next two |
| `StagedReload` | what `reload()` promises those who are served meanwhile | abstract specification |
| `Reload`, `MCReload` | concurrent `reload()`s, files read one by one, two-session inserts, hand-over | composition of splitter, table and reactor; refines `StagedReload` |
| `ReloadProofs` | what is served, with and without overlap, the refinement | proofs |
| `Load`, `MCLoad` | bridges made of three kinds of descriptors, and of measurements | component |
| `LoadProofs` | what is offered was vouched for, blocks follow the rows | proofs |
| `BridgeRing` | positions, forced ports and flags, subnets: the lookup in one ring | operators |
| `Filters` | which bridges and which of their lines fit a request | operators |
| `Requests` | what each server makes of what a client asks | operators |
| `ProxySet` | the proxies, changed by two threads | component |
| `Distribution`, `MCDistribution` | the three distributors over their hashrings | composition: extends the four above |
| `DistributionProofs` | fresh rings, fit and full answers, proxies apart, consistent hashing | proofs |
| `EmailDistributor`, `MCEmailDistributor` | the rate limit and its two tables, in seconds | component |
| `EmailDistributorProofs` | spacing of answers, one warning, refusals and rows end | proofs |
| `Schedule` | interval starts and ends | functions |
| `ScheduleProofs` | which times are told an interval, in fractions of a second; carrying months | proofs |
| `Metrics` | hot and cold counters, their export | component |
| `WebServers` | captchas, HTTPS and moat requests, reCAPTCHA's late answers | component: extends `Metrics`, `Schedule` |
| `EmailServer` | a mail's way from SMTP to the reply | component: extends `Metrics` |
| `Frontends`, `MCFrontends` | all the servers in one reactor, beside a reload's thread | composition: extends `WebServers`, `EmailServer` |
| `FrontendsProofs` | captchas guard, replies are due, requests are counted once | proofs |

Operators called *Fault* in a comment are not part of any specification: each is
a definition with a plausible bug, and the property it is paired with under
`mutants` in `PROJECT.json` is violated when it takes the definition's place.

The compositions meet at what one component promises the next: `Reload` takes
sessions of `Storage` as single steps (that they are exclusive is proved there);
`Distribution` takes a load, the bridges of one generation of `Reload` with the
blocks of `Load`, as any of a set; `Frontends` takes a period of
`EmailDistributor` as one step (`NewPeriod`) and an answer of `Distribution` as
some bridges, none or an exception.

### Storage

`lockOwner` and `lockCount` are the `RLock`; `locked`, `refcount` and `opened`
are the globals; `pc` says where in `getDB` each thread is and `depth` how many
bodies it is inside of. Only the owner of the lock touches the globals, so the
code from the acquisition to the `yield` is two steps and the `finally` clause
two more (drop the reference and maybe close; count down and release), with an
exception possible between any of them. `view` is the data as the open
connection sees it and `store` the committed data: each row names the thread
that wrote it last. A `getDB(False)` that is refused yields `False` and raises at
`assert own_lock`. `Restart` is the death of the process at any point.

*Fairness.* A scheduled thread runs `getDB` to its end and every body ends
(weak fairness of `Steps` and `Exit` per thread). `threading.RLock` is not fair
among waiters, so only the acquisition by *some* waiter is assumed: the liveness
property is that somebody is served, not that everybody is.

### BridgeSplitter

`rings`, `pValues` and `totalP` are the fields of the splitter; `held` gives the
bridges of each ring in `ringsByName`; `db` is the distributor column of the
Bridges table, which survives `NewSplitter` (a reload or a restart). `AddRing`
follows the fixed order of `createBridgeRings`, any ring may be off. `Insert` is
the whole method, both database sessions included; it runs at most `Authorities`
times per bridge and splitter because `load` inserts once per authority
directory. A digest is an arbitrary natural number per bridge. `share` and
`asked` are history variables.

A request always reaches `insert`: `Bridge.distribution_request` is "any" by
default, which is why the branch that would keep the recorded ring is never
taken; the run `splitter_any` shows the consequence.

### Reload

A *generation* is one run of `reload()`. `load` goes through the authorities in
turn, and so does each generation (`turn`): it reads the networkstatus of one
(`ReadStatus`), then its server descriptors (`ReadServers`), inserts the bridges
of the two (`todo`) and only then opens the next authority's files
(`NextAuthority`). A file may be replaced between any two of these steps
(`Update`), so what is read (`read`) can be half old and half new. Every bridge
is inserted once for each authority that lists it, into the one splitter of the
generation (`held`), and an authority may ask for another ring than the one
before. The table `db` is shared by the generations. The two sessions of
`insert` are two steps (`ReadRecord`, `Assign`), so another generation can write
between them; that each session is exclusive is what `Storage` shows.
`CallFromThread` and `ReplaceBridgeRings` are the two ends of the reactor's
queue. A load may fail at any point (`Fail`); a startup that fails ends the
process and is not followed.

`AuthorityFiles` says what the files make of a bridge: `Asked` is what `insert` is
asked on behalf of an authority, or `Gone` if the bridge is not listed, not
running, barred, or its descriptor is not the one the networkstatus names. From
that follow the ring the table names after some authorities (`RecordedBy`) and
the rings that hold the bridge (`Kept`), if nobody else writes the table. These
can be several: an insert takes the bridge out of the ring on record only, and
one for "any" takes it out of none, so that "moat" from one authority and "any"
from the next leave it in moat and in the ring of its hash. If another reload
writes the table meanwhile, it is between `SurelyKept` and `MaybeKept`.

`StagedReload` promises that much: a generation reads the files in their order, one
at a moment (`Read`), and each distributor is given, at one moment, rings that
follow from the files its generation read (`Fits`): exactly `Kept` if the
generation ran alone, and between the other two if not. `Reload` is mapped to it
by `givenOut` (what the generation that a distributor serves holds for it). A
reload that fails is one that never gives anything; the rows it leaves in the
table are not seen. What `StagedReload` does not promise, that the distributors end
with the same generation and never go back to an older one, `Reload` states by
itself, for reloads that come one at a time. During a hand-over distributors serve
different generations, and a bridge that moved can be given by two of them.

`PreviousRingIsLeft` states what the comment in `insert` says of a bridge that
asks for another ring than the one on record, and overlap breaks it: a generation
puts the bridge into moat for one authority, another generation records https, and
the first one's insert for the next authority, which names https, finds nothing
to leave. Alone, and with at most two authorities, it holds (proved).

Abstracted: extra-infos, which do not decide where a bridge goes (`Load` has them);
several `BRIDGE_FILES` of an authority are one; a file is read as it is at one
moment; the places of hashes do not change between reloads; and of the reasons to
skip a bridge only whether there is one (`barred`). That a networkstatus file
without bridges makes the load loop for ever is in `Load`, not here.

*Fairness.* The pool starts its jobs, its threads are scheduled and the reactor
goes round (weak fairness of `Start`, `Work`, `ReplaceBridgeRings`). Neither a
SIGHUP nor a failure is ever required.

### Load

One authority after the other (`turn`), and of each the networkstatus, the server
descriptors and the extra-infos (`stage`), each in any order of its files and
with any of them missing. `bridges` is `load()`'s dictionary, `newest` what
`deduplicate` keeps of the extra-infos, `hashring` the bridges inserted at the
end of a turn; then the measurements are read row by row into `blocked` and
`reachable`, whose order is the order of the lists in
`getBlockedBridgesFromSql`, and applied. An address stands for an address and a
port, a key for a signature that verifies with it. A server descriptor is
believed if it has the digest of the networkstatus, unless `IGNORE_NETWORKSTATUS`
is set; what is not believed takes the bridge out of the dictionary. A
networkstatus without an `r` line never ends `parseNetworkStatusFile`
(`LookForever`), and the load stops there. The query's limit of three years is
in the choice of rows.

### BridgeRing, Filters, Requests, Distribution

`hashring[d]` is what a distributor serves: its load and the rings it has made,
by the name of their filters. `Position` and `Place` stand for HMACs, as numbers
on a small circle; different bridges have different places. `Ahead` is how far a
bridge is from a position, around the end of the circle. `getBridges` of a
ring walks the circle from the client's position, first through the sub-rings
of forced ports and flags, then through all, twice as far as it will return
(`Oversampled`); the HTTPS and moat distributors then keep one bridge per subnet
and drop those without an address. `Filters` gives the filters of a request, the name a ring is
cached under, the endpoints of a bridge that `getBridgeLine` picks from
(`EndpointsFor`), and those of which `_constructBridgeLine` makes a line
(`BridgeLines`): a main endpoint without address or port (`Incomplete`) counts as an
IPv4 one for `byIPv` and has no line. `AnyFilters` stands for the
functions that `filters.py` keeps in `_cache`: found by name, whoever made them.
`Requests` is what the HTTPS form, moat's JSON and the body of a mail become;
words matching a pattern only by their beginning are that beginning. `GetBridges`
makes the ring if there is none of that name, `Reload` replaces the whole hashring
(with the two that `prepopulateRings` makes), and `Start` decides once whether
the distributor shares the process's `ProxySet`, as `if proxies:` does. One
distributor is deployed at a time, since they share nothing but the proxies.

`ProxySet` has the two statements of each method as two steps: the reload's
thread reads the proxy files, file by file, and drops what no file names any more; the
reactor replaces the exit relays. Iterating over a dictionary of which the other
thread changes the size raises, and ends that update.

### EmailDistributor

Time is counted in seconds. `getBridges` reads the clock (`Receive`) before it
asks for the database, and the wait for it is bounded by `MaxWait`; the rest is
one session: `Answer`, `Warn` or `Ignore`. `cleanDatabase` runs at any time (in
the reactor or at the end of a reload) and at least every `CleanEvery`, the
looping call's 30 minutes plus its delay. Both tables store times without their
seconds (`timeToStr`), with `MINUTE` as the unit lost.

### Schedule, Metrics

A time is a number of ticks, `TicksPerSecond` of them to a second, because the
servers pass the float of `time.time()`; `intervalStart` rounds it up to a second
(`Ceil`) as the code does, and so tells the next interval in the last fraction of a
second of one. Captchas pass whole seconds (`AtSecond`). `Schedule` has
`intervalStart` and `nextIntervalStarts` for the units of fixed length, and over
year and month for the unit that has no fixed length. `Metrics` has the pair of
counters of the process: `inc` and `set` act on the hot ones, an export rotates
and writes the cold ones, rounded up to the bin. The reload's thread calls
`set` between any two of these (`RecordBridgesInHashring`), in two steps, one to choose
the counters and one to write them: an export that is iterating meanwhile raises
a `RuntimeError`, which `writeMetrics` does not catch, and its looping call
stops; the lines of all requests are in the file by then, because the ring sizes are
in the dictionary of `InternalMetrics`, the last of the four that are written. The
four are one bag here. An `IOError` leaves some of the lines. One key is set, once: that is enough to disturb an export. `told` and
`toldBefore` are history variables, the bags of what clients were told in the
interval that is counted and in the one before; `CountedOnce` compares the counters
with the number of tellings in them.

### WebServers, EmailServer, Frontends

A captcha is a time stamp under an HMAC of server and client (`challenges`); the
server keeps no record, so what `CaptchaGuards` says is about the whole
history of what it made. A client may post any challenge ever made, a forged one,
a right or wrong solution, or no fields. Gimp captchas are checked at once;
reCAPTCHA's answer comes later (`pending`) and may be an error; without its fields
the HTTPS server answers a second later, or raises with reCAPTCHA and counts
nothing. A solved captcha can be used again while it lasts. What the distributor finds (bridges, none, an
exception) is chosen; moat's errors 4 and 5 are both a refusal. The server without a
captcha, the statistics of handouts and the counter of empty responses are
left out.

A mail becomes a message for each accepted recipient. Twisted hands them to
`eomReceived` one after the other (`delivery`), while the reactor serves nobody
else; only time and the reload's thread go on. Each is checked (canonical
domain, white- and blacklist, DKIM, nearness to a blacklisted address even of
whitelisted ones): who fails is neither answered nor counted, the others are
answered, warned or ignored, and counted. A client is the mail's address without dots and `+` where the provider ignores them. A mail that
is too long, or from a domain not supported, has no messages; an exception in
`validateFrom` lets the mail through without its canonical domain. The case of letters is left
out.

## Runs

| run | shows | distinct states |
|---|---|---|
| `storage` | exclusive sessions, exact counts, nothing uncommitted leaks, somebody is served, refinement of `SerialStore` | 14 413 |
| `storage_open_fails` | *violation*: one failed `Database()` makes `assert _REFCOUNT == 0` fail from then on | |
| `splitter` | valid positions, exact shares, the last request honoured, the record correct | 27 732 |
| `splitter_any` | *violation*: "any" moves a bridge that was seen before | |
| `reload` | a reload looks to each distributor like files read in turn and rings that follow from them (refinement of `StagedReload`); sequential reloads end consistent, never go back, and every SIGHUP is answered | 471 240 |
| `reload_race` | *violation*: a record that changes between two sessions leaves a bridge in two rings | |
| `email` | answers are spaced, one warning per period, refusals and rows end | 625 765 |
| `distribution` | answers fit and are full, cached rings are fresh, proxies stay apart and tagged | 284 178 |
| `distribution_proxies` | *violation*: a distributor made before the first proxy never treats any specially | |
| `load` | transports were vouched for, rejection is final, ignored networkstatus gives only flags, blocks follow rows | 233 443 |
| `load_measurements` | *violation*: three measurements leave a bridge blocked where the newest says it is not | |
| `frontends` | bridges only behind a captcha, replies only when due, every request counted once | 1 513 829 |

The violations are disagreements of the code with its own comments,
configuration file or assertions; `findings` in `PROJECT.json` quotes them.

### Bounds, and why they are enough

- `Storage`: three threads (an owner, a waiter and a third that meets both),
  nesting of two (the outer and an inner block), two rows (so that a leaked row
  differs from a kept one), and `MaxDeficit` = 2, because `_REFCOUNT` falls by
  one with every failed opening and the assertion already fails at -1.
- `BridgeSplitter`: three rings in any subset with shares 1 and 2, two bridges
  with hashes in different places, requests for each ring, "any", "none" and one
  nobody knows, two authorities as in the default `src/bridgedb.conf`. With
  three authorities `LatestRequestHonoured` is violated (a ring, then "any",
  then "none"): the property is stated for the default.
- `Reload`: two SIGHUPs make every overlap of two reloads; three generations need
  one more pool thread, and the proofs are about any number of them. Two authorities,
  as in the default `src/bridgedb.conf`: the first names moat or https in files that
  fit each other or not, the second lists the bridge or does not, and asks for moat,
  "any" or "none". One new file at any moment makes a reload read a mixture. One
  bridge: an insert reads and writes its own row and its own places only. The run
  respects the networkstatus; in `reload_race`, two authorities that name two rings
  ignore it. Both stop when the bounds are used up, hence no deadlock check.
- `EmailDistributor`: a minute of 3, a limit of 6, cleaning every 4, and a clock
  of 18 give three periods with every phase between minutes, limit and cleaning;
  one limited client (clients share no row) and a whitelisted one. The run stops
  when the clock does, hence no deadlock check.
- `Distribution`: six bridges, so that a ring has both answer lengths (one and
  more; the thresholds are 2 and 4), with shared subnets, one bridge without
  an address (one of whose endpoints is obfs3, so that it is found by both kinds of
  request), two forced needs, and a circle of 12 on which the walk wraps
  around; two loads, one with a block; requests by each channel with other
  methods, countries and IP versions, among them mails with blank and quoted
  lines; a proxy, two other clients, and one known only by name; `Clusters` = 2,
  so that proxies have the third sub-ring. `MaxRings` = 1 keeps one ring made on
  demand beside the prepopulated ones between two reloads: a wrong ring is wrong
  by itself, and the proofs allow any number. With one
  proxy address and one file `ProxySet` still has every interleaving of its two
  threads on that address; distinct addresses do not touch each other's entries.
- `Load`: two bridges and two authorities (a bridge of both is loaded
  twice), genuine, forged, outdated and malformed documents, an address
  that is not public, a bad version, a home country, a blacklisted fingerprint;
  four rows for one place with alternating verdicts in any order. The run ends with the load, hence no deadlock check.
- `Frontends`: two requests or mails, the fewest that reuse or exchange a
  captcha, or repeat a mail; two recipients; a clock of two with captchas that
  last two, so that one expires; bins of two; senders with dots, with `+`, with
  another domain, whitelisted, blacklisted and near to it. Whatever takes a
  third request is left to the proofs.

### Fairness

Only `Storage` and `Reload` (above) assume any. What the other components
promise is safety: nobody has to answer a client that does not ask again, mail is
sent once without a retry, and an export that was disturbed stops.

### Stated, and known not to hold

These definitions are in the modules for the reader; each states what a comment
or the documentation suggests and the code does not quite do.

- `EmailDistributor.RateIsMinimum`: the limit is up to a minute shorter than its
  name says, as times lose their seconds.
- `EmailDistributor.WarnedBeforeIgnored`: an old warning that was not cleaned yet silences a
  client in its next period.
- `Distribution.AnswersHaveLines`: "Return a valid Bridge Line", says `getBridgeLine`
  (`bridges.py:1335`), but it returns `None` when the address picked or its port is missing
  (`bridges.py:1105`), or when none is left to pick. A bridge without a main address passes
  `byIPv(4)`, and one whose only IPv6 address is blocked passes `byNotBlockedIn`, which looks
  at the main one; an email then reads "None" in the place of a line
  (`autoresponder.py:114`). TLC finds it in the first state after the start, with
  the constants of `distribution`.
- `Load.BlacklistedAreSkipped`: `load` asks `bridge in blacklist.keys()`
  (`main.py:212`), but the keys are fingerprints and a `Bridge` equals none of them, so
  a bridge in `NO_DISTRIBUTION_FILE` is inserted like any other, against the comment
  "Skip insertion of blacklisted bridges".
- `Distribution.ForcedAreGiven`: the bridges of forced ports and flags are found
  first, but the answer is sorted before it is cut (`bridgerings.py:331-341`),
  and they may be cut.

Further disagreements met while modelling, without a run of their own:

- a mail whose SMTP and header domains differ is only logged
  (`distributors/email/autoresponder.py:644-649`, `#return False`);
- `normalizeEmail` keeps the domain as written (`parse/addr.py:514`), so one
  mailbox at googlemail.com and gmail.com is two clients;
- handouts are recorded before bots are told apart (`distributors/https/server.py:1004`,
  `distributors/moat/server.py:752`);
- a bot's decoy is of the first transport asked for, other clients' bridges are of the
  last, and metrics count the first;
- a `RuntimeError` in an export ends its looping call (`writeMetrics` catches only
  `IOError`).

## Proofs

All for every value of the constants that the assumptions named in the modules
allow. Each `...Proofs` module shows that its component's `IInv`, stated at the
end of the component's module, is inductive.

`StorageProofs`. Who is inside `getDB` owns the lock, the owner's recursion level counts its bodies, an open
connection belongs to the owner and has a positive count, and no connection
means no body and nothing uncommitted. The safety properties of the run are not
inductive without the first: exclusion has to come from the lock. `TypeCorrect`, `SessionsAreExclusive`, `LockedCounts`, `ReferencesCounted`,
`NothingLeaks`; `AssertionNeedsFailure` (the failing assertion can only fail if opening can); `Refinement`: every step of `Storage` is a step of `SerialStore` or none, with
`holder` mapped to `opened`.

`BridgeSplitterProofs`. `AssertionHolds`: `pValues` starts at 0 and grows, so the
position of a hash always exists. `SharesKept`: the positions of a ring are an
interval as long as its share, as adding a ring appends to both. `RequestsHonoured`, for at most
two authorities: before its last insert a bridge is held at most by the ring on
record, and an insert clears exactly the ring on record. `HeldRecorded`.

`ReloadProofs`. For each bridge a generation has inserted for some number of
authorities (`Inserted`), and what it holds of the bridge fits the files of those
(`HeldInv`); alone, it also finds in the table what `RecordedBy` says, in both
sessions (`RecordInv`). An insert takes all three from one number to the next
(`InsertFits`, `RecordedNext`, `KeptNext`). Only generations with nothing to do are
queued, and only those are served: `ServedFollowsFiles`. Rings of one generation share
a bridge only where its authorities do not agree (`OneGenerationIsDisjoint`), and of
two authorities the second takes the bridge out of the ring of the first, if it
names one and nobody else wrote the table (`AloneLeavesPreviousRing`). Without
overlap the generation that runs is the youngest, the queue is in order and for one
generation, and what is not yet served is still due: hence `QuietConsistent`,
`QuietMatches`, `NeverGoesBack` and `QuietIsDisjoint`. `Refinement`: every step of
`Reload` is a step of `StagedReload` or none. An insert changes only rings that
nobody serves, a hand-over brings in rings that fit the files its generation read,
and nothing begins before the start is over (`StartInv`, an invariant of its own).

`LoadProofs`. `Known` says of a bridge where each part of it came from: its key
from a server descriptor with its digest, the digest from the authority, its
transports through that chain (`ChainOfTrust`, `Rejected`, `OnlyFlags`). For the rows: one that was read
is listed unless a newer one of the same place contradicts it, lists have no
duplicates, and an older contradicting row is not listed when it was the only one
(`BlocksFollow`). That a list has a first contradicting row follows from the order of
the natural numbers being well-founded.

`DistributionProofs`. The thread's places make the proxy invariant: an address
without a tag is between the two steps of a method, one with a tag that was not
named is still to be dropped (`NoneWithoutTag`, `NoneLeftBehind`). The names of
filters differ for what different requests have, so a ring found by name is the one that would be made
(`FreshRings`); proxies have the sub-ring `Clusters + 1` and others one of
`1..Clusters`, and a bridge is in one sub-ring (`ApartFromProxies`); an
answer is part of its ring, and the filters promise an endpoint, of which there is a
line unless it is the main one and incomplete (`AnswersAreFit`).
`FullAnswers` is about numbers: of a finite set of bridges at distinct places
`FirstOf` returns the wanted number, or all (`FirstOnes`: the rank of a bridge is a
bijection onto an interval); going around the circle keeps distinct places
distinct; and of the bridges that have an address the first is never dropped for
its subnet. An answer by address can be empty although the ring is not, when the
ring has as many bridges without an address as are looked up: the property says
so. `RequestsDoNotInterfere`: a request that adds a ring to a cache leaves every
answer, to whoever asks whichever distributor, as it was, because a ring depends only on what
the hashring was loaded with and on the client's way to it. `LookupsAreStable`, a theorem about the lookup for any ring of bridges: when a
bridge comes or goes, at most one other leaves or joins what is found from a
position. These take the HMACs as the model does: distinct bridges have distinct
places, all of them and the positions on the circle, and there are finitely many bridges.

`EmailDistributorProofs`, for any minute, limit, cleaning period and wait. The
properties speak of when a client was really answered, the code of the rounded
time on record, so the invariant ties the two: a recorded time lags its
answer by less than a minute and a wait; an answer no longer on record is older
than the limit less that lag (cleaning may not shorten the limit); a warning
since the last answer is at least as young as the answer's row (so cleaning
never removes it first); and what survived the last cleaning was young then. The
first lemmas show that `timeToStr` rounds down and keeps the order of times.
`Spacing`, `WarnedOnce`, `RefusalsAreBounded`, `RowsExpire`.

`ScheduleProofs`. A time and the second it is rounded up to are less than a second
apart, and there is one such second (`CeilBounds`, `CeilIsTheOnly`). So the times that are
told an interval are those after a second before its start, up to a second before
its end (`TimeIsInInterval`, `IntervalsAgree`), for every unit of fixed length, and a
whole second lies in the interval it is told (`SecondIsInInterval`, on which the
expiry of captchas rests). `MonthsAreCarried` and
`MonthsAgree`, for up to twelve months, the most the code's single carry
into the year is right for.

`FrontendsProofs`. A captcha's key is that of whom it was made for, and only
reCAPTCHA keeps solutions waiting (`GuardedByCaptchas`); what the distributor
knows of a client is what was sent to its mailbox, so a second answer or a second
warning finds the client known (`OnlyDueReplies`). `EachIsCountedOnce`: every step of
the servers tells nobody anything and counts nothing, or tells one client one thing
and counts it once under what it was (`RecordCounts`); with the tellings in a bag
as the elements of a finite set (`Times`), one more is one more (`OnceMore`). An export
moves counters and tellings together, a rounded number is the number up to less
than a bin, and what the reload's thread sets is a key that no request counts, which
`MetricsAssumption` says of `Sizes`. The invariant `CountInv` also follows the counters
that are being written: they must still be those of the interval that is over.

Bounds such as `MaxTime` and `MaxRequests` only have to be numbers: the proofs hold
for all of them. Every invariant and action property of the passing runs is proved,
and both refinements. Only model-checked: `SomebodyIsServed`, `LoadedIsServed` and
`SIGHUPIsAnswered` (liveness needs fairness and ENABLED, which the prover does not
handle), and the violations.

## Not modelled

- `Stability.py`: dead state. No function commits what it writes, `bridge.running`
  is false for every bridge given to it, and no distributor reads its table.
- `persistent.py`, `configure.py`: one pickled file read at the start of a reload
  and written at its end; the race of two reloads for it is listed as a hazard.
- `crypto.py` and the rest of captchas: HMACs are functions on numbers here, RSA, images and
  Google's service are library code.
- Grammars of addresses, versions, nicknames, headers and documents: string
  parsing, of which only the outcome is modelled.
- `runner.py`, `util.py`, templates, texts, translations, languages, QR codes, logging, the
  dialogue of SMTP, JSON documents, the command line: formatting, library code or I/O.

`PROJECT.json` lists every part with its status.
