--------------------------------- MODULE Load ---------------------------------
(***************************************************************************)
(* How a reload makes bridges of the authorities' documents (load() and    *)
(* loadBlockedBridges() of src/bridgedb/main.py, src/bridgedb/bridges.py,  *)
(* src/bridgedb/parse/descriptors.py, and the measurements in              *)
(* src/bridgedb/Storage.py).  Per authority the networkstatus is read,     *)
(* then server descriptors, then extra-infos, each in the order of its     *)
(* files, which is any; what is left goes into the hashring, whose bridges *)
(* are then marked as blocked.  An address stands for an address and port. *)
(***************************************************************************)
EXTENDS Integers, Sequences

CONSTANTS
  Fingerprint, Address,
  Public,        \* addresses that isIPAddress accepts
  Status,        \* networkstatus entries: [fp, digest, address, more, flags]
  Server,        \* server descriptors: [fp, digest, address, more, key, version]
  Extra,         \* extra-infos: [fp, key, published, transports]; the key that signed
  Measurement,   \* rows: [fp, country, address, date, blocked]
  CountryOf,     \* geo.getCountryCode
  HomeCountries, \* NO_DISTRIBUTION_COUNTRIES
  BadVersions,   \* BLACKLISTED_TOR_VERSIONS
  Blacklist,     \* the fingerprints in NO_DISTRIBUTION_FILE
  Authorities,   \* the number of BRIDGE_AUTHORITY_DIRECTORIES
  None

ASSUME LoadAssumption ==
  /\ Public \subseteq Address /\ None \notin Address
  /\ Authorities \in Nat \ {0}
  /\ Blacklist \subseteq Fingerprint
  /\ \A d \in Status \cup Server \cup Extra : d.fp \in Fingerprint
  /\ Server \cap (Status \cup Extra) = {}
  /\ \A m \in Measurement : m.date \in Int /\ m.blocked \in BOOLEAN

VARIABLES
  ignore,        \* state.IGNORE_NETWORKSTATUS
  stage, turn,   \* what is read, and of which authority
  read,          \* the documents read of this authority
  bridges,       \* load()'s bridges, by fingerprint
  newest,        \* the extra-infos deduplicate() has kept so far
  hashring,      \* the bridges inserted
  blocked, reachable      \* the measurements believed, in their order

vars == <<ignore, stage, turn, read, bridges, newest, hashring, blocked, reachable>>

documents == <<ignore, turn, hashring, blocked, reachable>>

Stage == {"status", "server", "extra", "insert", "measure", "done", "hangs"}

NewBridge ==
  [running |-> FALSE, digest |-> None, address |-> None, more |-> {}, key |-> None,
   version |-> None, transports |-> {}, blockedIn |-> {}]

-----------------------------------------------------------------------------
(* Bridge *)

\* isValidIP: no link-local, loopback, private, ... address
isValidIP(a) == a \in Public

\* Fault: an address that is not valid is set, too.
setAnyAddress(old, new) == new

\* The setter of address keeps the old one when the new one is not valid.
setAddress(old, new) == IF isValidIP(new) THEN new ELSE old

\* _updateORAddresses appends to what there is.
updateORAddresses(b, more) == b.more \cup {a \in more : isValidIP(a)}

\* Fault: only the main address is left out when the networkstatus is ignored.
updateFromAnyStatus(b, ns) ==
  [b EXCEPT !.running = "Running" \in ns.flags, !.digest = ns.digest,
            !.address = IF ignore THEN @ ELSE setAddress(@, ns.address),
            !.more = updateORAddresses(b, ns.more)]

updateFromNetworkStatus(b, ns) ==
  [b EXCEPT !.running = "Running" \in ns.flags, !.digest = ns.digest,
            !.address = IF ignore THEN @ ELSE setAddress(@, ns.address),
            !.more = IF ignore THEN @ ELSE updateORAddresses(b, ns.more)]

\* _checkServerDescriptor: the digest the authority vouches for.
checkServerDescriptor(b, sd) == b.digest = sd.digest

updateFromServerDescriptor(b, sd) ==
  [b EXCEPT !.address = setAddress(@, sd.address), !.key = sd.key,
            !.more = updateORAddresses(b, sd.more), !.version = sd.version]

\* Fault: any extra-info is taken.
verifyNothing(b, ei) == TRUE

\* _verifyExtraInfoSignature: without a signing key it raises, too.
verifyExtraInfoSignature(b, ei) == b.key # None /\ b.key = ei.key

\* PluggableTransport._checkArguments
checkArguments(pt) ==
  CASE pt.method = "obfs4" ->
         /\ "iat-mode" \in pt.args
         /\ "cert" \in pt.args \/ {"node-id", "public-key"} \subseteq pt.args
    [] pt.method = "scramblesuit" -> "password" \in pt.args
    [] OTHER -> TRUE

\* PluggableTransport._runChecks, in the order of its exceptions
runChecks(pt) ==
  CASE ~isValidIP(pt.address) -> "invalid address"
    [] isValidIP(pt.address) /\ ~checkArguments(pt) -> "malformed"
    [] OTHER -> "fine"

\* updateFromStemTransport: a transport that is malformed is left out; one
\* whose address is not valid raises what the loop over them does not catch,
\* and leaves out those after it, too.
updateFromStemTransport(pts, i) ==
  runChecks(pts[i]) = "fine" /\ \A j \in 1..i : runChecks(pts[j]) # "invalid address"

updateFromExtraInfoDescriptor(b, ei) ==
  IF verifyExtraInfoSignature(b, ei)
    THEN [b EXCEPT !.transports =
            {ei.transports[i] :
               i \in {k \in DOMAIN ei.transports :
                        updateFromStemTransport(ei.transports, k)}}]
    ELSE b

\* setBlockedIn, for each of the (country, address) of a bridge
setBlockedIn(b, where) ==
  [b EXCEPT !.blockedIn =
     {w \in where :
        w[2] \in {b.address} \cup b.more \cup {pt.address : pt \in b.transports}}]

runsVersion(b) == b.version \in BadVersions

\* `bridge in blacklist.keys()`: a Bridge is never equal to a fingerprint.
blacklisted(b) == b \in Blacklist

-----------------------------------------------------------------------------
Init ==
  /\ ignore \in BOOLEAN
  /\ stage = "status" /\ turn = 1 /\ read = {}
  /\ bridges = [fp \in Fingerprint |-> None]
  /\ newest = [fp \in Fingerprint |-> None]
  /\ hashring = [fp \in Fingerprint |-> None]
  /\ blocked = <<>> /\ reachable = <<>>

\* assertOK only finds what _updateORAddresses has left out already.
ReadNetworkStatus(ns) ==
  /\ stage = "status" /\ ns \notin read
  /\ bridges' = [bridges EXCEPT ![ns.fp] = updateFromNetworkStatus(NewBridge, ns)]
  /\ read' = read \cup {ns}
  /\ UNCHANGED <<stage, newest, documents>>

\* Fault: a descriptor that is rejected is skipped.
ReadServerLeniently(sd) ==
  LET b == bridges[sd.fp] IN
  /\ stage = "server" /\ sd \notin read
  /\ read' = read \cup {sd}
  /\ IF b # None /\ (ignore \/ checkServerDescriptor(b, sd))
       THEN bridges' = [bridges EXCEPT ![sd.fp] = updateFromServerDescriptor(b, sd)]
       ELSE bridges' = bridges
  /\ UNCHANGED <<stage, newest, documents>>

\* A bridge whose descriptor is rejected is dropped.  If the networkstatus is
\* ignored, a bridge that is not in it is made, but not kept.
ReadServerDescriptor(sd) ==
  LET b == bridges[sd.fp] IN
  /\ stage = "server" /\ sd \notin read
  /\ read' = read \cup {sd}
  /\ bridges' = [bridges EXCEPT ![sd.fp] =
                   IF b # None /\ (ignore \/ checkServerDescriptor(b, sd))
                     THEN updateFromServerDescriptor(b, sd) ELSE None]
  /\ UNCHANGED <<stage, newest, documents>>

\* deduplicate keeps the last of those published last.
deduplicate(kept, ei) ==
  IF kept # None /\ kept.published > ei.published THEN kept ELSE ei

\* parseExtraInfoFiles; a file that cannot be parsed is read up to there.
ReadExtraInfo(ei) ==
  /\ stage = "extra" /\ ei \notin read
  /\ read' = read \cup {ei}
  /\ newest' = [newest EXCEPT ![ei.fp] = deduplicate(@, ei)]
  /\ UNCHANGED <<stage, bridges, documents>>

ApplyExtraInfos ==
  /\ stage = "extra"
  /\ stage' = "insert"
  /\ bridges' = [fp \in Fingerprint |->
                   IF bridges[fp] # None /\ newest[fp] # None
                     THEN updateFromExtraInfoDescriptor(bridges[fp], newest[fp])
                     ELSE bridges[fp]]
  /\ UNCHANGED <<read, newest, documents>>

\* The files of a kind end.
EndOfFiles ==
  /\ \/ stage = "status" /\ read # {} /\ stage' = "server"
     \/ stage = "server" /\ stage' = "extra"
  /\ UNCHANGED <<read, bridges, newest, documents>>

\* parseNetworkStatusFile looks for the first "r " line past the end of a file
\* that has none, and never stops.
LookForever ==
  /\ stage = "status" /\ read = {}
  /\ stage' = "hangs"
  /\ UNCHANGED <<read, bridges, newest, documents>>

\* The hashring takes running bridges, in the place of what it had of them.
Insertable(b) ==
  /\ b # None
  /\ b.address = None \/ CountryOf[b.address] \notin HomeCountries
  /\ ~blacklisted(b) /\ ~runsVersion(b)
  /\ b.running

Insert ==
  /\ stage = "insert"
  /\ hashring' = [fp \in Fingerprint |->
                    IF Insertable(bridges[fp]) THEN bridges[fp] ELSE hashring[fp]]
  /\ turn' = turn + 1
  /\ stage' = IF turn = Authorities THEN "measure" ELSE "status"
  /\ read' = {}
  /\ bridges' = [fp \in Fingerprint |-> None]
  /\ newest' = [fp \in Fingerprint |-> None]
  /\ UNCHANGED <<ignore, blocked, reachable>>

-----------------------------------------------------------------------------
(* getBlockedBridgesFromSql: rows in any order within a country *)

compact(m) == <<m.country, m.address>>
Same(m, o) == m.fp = o.fp /\ compact(m) = compact(o)

\* The first that conflicts and is older or newer decides; 0: there is none.
Decides(others, m) ==
  LET conflicting == {i \in DOMAIN others : Same(others[i], m) /\ others[i].date # m.date} IN
  IF conflicting = {} THEN 0
  ELSE CHOOSE i \in conflicting : \A j \in conflicting : i =< j

Without(s, i) == [k \in 1..(Len(s) - 1) |-> IF k < i THEN s[k] ELSE s[k + 1]]

\* Fault: the row read last is believed.
shouldSkipNothing(others, m) ==
  LET i == Decides(others, m) IN
  [skip |-> FALSE, others |-> IF i = 0 THEN others ELSE Without(others, i)]

\* _shouldSkip, and what it leaves of the conflicting measurements
shouldSkip(others, m) ==
  LET i == Decides(others, m) IN
  IF i = 0 THEN [skip |-> FALSE, others |-> others]
  ELSE IF others[i].date > m.date THEN [skip |-> TRUE, others |-> others]
  ELSE [skip |-> FALSE, others |-> Without(others, i)]

\* No measurement is ever found `in` a list of others: it is always appended.
ReadMeasurement(m) ==
  LET found == shouldSkip(IF m.blocked THEN reachable ELSE blocked, m) IN
  /\ stage = "measure" /\ m \notin read
  /\ read' = read \cup {m}
  /\ blocked' = IF ~m.blocked THEN found.others
                ELSE IF found.skip THEN blocked ELSE Append(blocked, m)
  /\ reachable' = IF m.blocked THEN found.others
                  ELSE IF found.skip THEN reachable ELSE Append(reachable, m)
  /\ UNCHANGED <<ignore, stage, turn, bridges, newest, hashring>>

\* loadBlockedBridges
loadBlockedBridges ==
  /\ stage = "measure"
  /\ stage' = "done"
  /\ hashring' = [fp \in Fingerprint |->
       IF hashring[fp] = None THEN None
       ELSE setBlockedIn(hashring[fp],
              {compact(blocked[i]) : i \in {k \in DOMAIN blocked : blocked[k].fp = fp}})]
  /\ UNCHANGED <<ignore, turn, read, bridges, newest, blocked, reachable>>

Next ==
  \/ \E ns \in Status : ReadNetworkStatus(ns)
  \/ \E sd \in Server : ReadServerDescriptor(sd)
  \/ \E ei \in Extra : ReadExtraInfo(ei)
  \/ \E m \in Measurement : ReadMeasurement(m)
  \/ EndOfFiles \/ LookForever \/ ApplyExtraInfos \/ Insert \/ loadBlockedBridges

Spec == Init /\ [][Next]_vars

-----------------------------------------------------------------------------
(* Properties *)

Bridge ==
  [running : BOOLEAN, digest : {d.digest : d \in Status} \cup {None},
   address : Public \cup {None}, more : SUBSET Public,
   key : {d.key : d \in Server} \cup {None},
   version : {d.version : d \in Server} \cup {None},
   transports : SUBSET UNION {{d.transports[i] : i \in DOMAIN d.transports} : d \in Extra},
   blockedIn : SUBSET {compact(m) : m \in Measurement}]

TypeOK ==
  /\ ignore \in BOOLEAN /\ stage \in Stage /\ turn \in 1..(Authorities + 1)
  /\ read \subseteq Status \cup Server \cup Extra \cup Measurement
  /\ bridges \in [Fingerprint -> Bridge \cup {None}]
  /\ hashring \in [Fingerprint -> Bridge \cup {None}]
  /\ newest \in [Fingerprint -> Extra \cup {None}]
  /\ blocked \in Seq(Measurement) /\ reachable \in Seq(Measurement)

Served == {fp \in Fingerprint : hashring[fp] # None}

\* The chain of descriptors behind a transport.
Vouched(fp, pt) ==
  \E sd \in Server, ei \in Extra :
    /\ sd.fp = fp /\ ei.fp = fp /\ ei.key = sd.key
    /\ ~ignore => \E ns \in Status : ns.fp = fp /\ ns.digest = sd.digest
    /\ \E i \in DOMAIN ei.transports : ei.transports[i] = pt

\* Whatever documents there are and in whatever order they come, a pluggable
\* transport is given out only if a chain vouches for it: the authority for the
\* digest of a server descriptor (unless the networkstatus is ignored), that
\* descriptor for a key, and that key for an extra-info of the same bridge.
TransportsAreVouched ==
  \A fp \in Served : \A pt \in hashring[fp].transports : Vouched(fp, pt)

\* A server descriptor the authority does not vouch for costs the bridge its
\* place, whether a good one comes before or after it.
RejectionIsFinal ==
  stage \in {"extra", "insert"} /\ ~ignore =>
    \A sd \in read \cap Server :
      bridges[sd.fp] # None => sd.digest = bridges[sd.fp].digest

\* Is an address from a server descriptor of the bridge?
InServer(fp, a) ==
  a # None => \E sd \in Server : sd.fp = fp /\ a \in {sd.address} \cup sd.more

\* bridgedb.conf, of IGNORE_NETWORKSTATUS: "the only information which we
\* obtain from the networkstatus file are the bridge flags": none of the
\* addresses that are served is from there.
StatusIsOnlyFlags ==
  ignore =>
    \A fp \in Served : \A a \in {hashring[fp].address} \cup hashring[fp].more :
      InServer(fp, a)

Rows(fp, target, isBlocked) ==
  {m \in Measurement : m \in read /\ m.fp = fp /\ compact(m) = target /\ m.blocked = isBlocked}

\* In whatever order the rows come: an address the newest row calls blocked is
\* not given out as reachable; and if each side has one row, the newer decides.
BlocksFollowRows ==
  stage = "done" =>
    \A fp \in Served, m \in Measurement :
      LET b == hashring[fp]
          bad == Rows(fp, compact(m), TRUE)
          good == Rows(fp, compact(m), FALSE) IN
      m.address \in {b.address} \cup b.more \cup {pt.address : pt \in b.transports} =>
        /\ (\E n \in bad : \A o \in good : n.date > o.date) => compact(m) \in b.blockedIn
        /\ (\E n, o \in Measurement : bad = {n} /\ good = {o} /\ o.date > n.date)
             => compact(m) \notin b.blockedIn

\* test_Storage.py: "If multiple measurements disagree, we believe the newest
\* one."
NewestRowIsBelieved ==
  stage = "done" =>
    \A fp \in Served : \A where \in hashring[fp].blockedIn :
      \A o \in Rows(fp, where, FALSE) :
        \E n \in Rows(fp, where, TRUE) : n.date >= o.date

\* main.py: "Skip insertion of blacklisted bridges."
BlacklistedAreSkipped == Served \cap Blacklist = {}
-----------------------------------------------------------------------------
(***************************************************************************)
(* The inductive invariant behind them.  Of a bridge that load() knows:    *)
(* its key is from a server descriptor with the digest it has, its digest  *)
(* from the authority, its transports from a chain of the two.  Of the     *)
(* measurements: a row that is read is in its list unless a newer one of   *)
(* the other kind is read, and rows stay in at most once.                  *)
(***************************************************************************)
Known(fp, b) ==
  /\ b.key # None =>
       \E sd \in Server : /\ sd.fp = fp /\ sd.key = b.key
                          /\ ~ignore => sd.digest = b.digest
  /\ ~ignore => \E ns \in Status : ns.fp = fp /\ ns.digest = b.digest
  /\ \A pt \in b.transports : Vouched(fp, pt)
  /\ ignore => \A a \in {b.address} \cup b.more : InServer(fp, a)

KnownInv ==
  /\ \A fp \in Fingerprint :
       /\ bridges[fp] # None => Known(fp, bridges[fp])
       /\ hashring[fp] # None => Known(fp, hashring[fp])
       /\ newest[fp] # None => newest[fp].fp = fp
  /\ ~ignore /\ stage \in {"server", "extra", "insert"} =>
       \A sd \in read \cap Server :
         bridges[sd.fp] # None => sd.digest = bridges[sd.fp].digest

StageInv ==
  /\ stage \notin {"measure", "done"} =>
       turn =< Authorities /\ blocked = <<>> /\ reachable = <<>>
  /\ stage = "status" => read \subseteq Status
  /\ stage \in {"measure", "done"} => read \subseteq Measurement

\* The rows of a list are read, of one kind, and different.
ListInv(rows, isBlocked) ==
  /\ \A i \in DOMAIN rows : rows[i] \in read /\ rows[i].blocked = isBlocked
  /\ \A i, j \in DOMAIN rows : rows[i] = rows[j] => i = j

Listed(rows, m) == \E i \in DOMAIN rows : rows[i] = m

ListOf(m) == IF m.blocked THEN blocked ELSE reachable

Opposes(o, n) == o.blocked # n.blocked /\ Same(o, n) /\ o.date > n.date

RowsInv ==
  stage \in {"measure", "done"} =>
    /\ ListInv(blocked, TRUE) /\ ListInv(reachable, FALSE)
    /\ \A n \in read : Listed(ListOf(n), n) \/ \E o \in read : Opposes(o, n)
    /\ \A n, o \in read :
         Opposes(o, n) /\ (\A m \in read : Same(m, n) => m \in {n, o})
           => ~Listed(ListOf(n), n)

BlockedInv ==
  stage = "done" =>
    \A fp \in Served :
      LET b == hashring[fp] IN
      b.blockedIn =
        {compact(blocked[i]) :
           i \in {k \in DOMAIN blocked :
                    /\ blocked[k].fp = fp
                    /\ blocked[k].address \in
                         {b.address} \cup b.more \cup {pt.address : pt \in b.transports}}}

IInv == TypeOK /\ KnownInv /\ StageInv /\ RowsInv /\ BlockedInv
===============================================================================
