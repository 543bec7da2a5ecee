----------------------------- MODULE Distribution -----------------------------
(***************************************************************************)
(* Which bridges a client is given: the HTTPS and moat distributors        *)
(* (src/bridgedb/distributors/https/distributor.py), which go by the       *)
(* client's subnet and the set of known proxies, the email distributor's   *)
(* choice of bridges (src/bridgedb/distributors/email/distributor.py), and *)
(* the FilteredBridgeSplitter each of them has as its hashring, with one   *)
(* ring for every set of filters it was asked for.  A reload puts a new    *)
(* hashring in the place of the old one; the distributor stays.            *)
(***************************************************************************)
EXTENDS BridgeRing, Filters, Requests, ProxySet

CONSTANTS
  ByAddress,     \* the distributors that go by the client's address
  ByName,        \* the email distributor
  Client,        \* addresses, the known proxies' among them, and email names
  AreaOf,        \* the /16 or /32 of a client's address; an email name itself
  ProxyGroup,    \* the "proxy-group-%d" of an address
  AreaHash,      \* the integer that assigns an area to a sub-ring
  Interval, Position,      \* places of <<interval, area>> on the circle
  Place,         \* per sub-ring, the places of the bridges; 0: email's ring
  Clusters,      \* N_IP_CLUSTERS
  Deployments,   \* which distributors the configuration may enable
  Asks,          \* per distributor, what clients ask for
  CountryOf,     \* geo.getCountryCode of a client's address
  VersionOf,     \* the version of a client's address
  Loads,         \* what load() may find: [bridges, blocked]
  MaxRings       \* bound: of the rings made for requests, per hashring

Distributor == ByAddress \cup ByName

ASSUME DistributionAssumption ==
  /\ ByAddress \cap ByName = {}
  /\ Address \subseteq Client /\ DOMAIN ProxyGroup \subseteq Client
  /\ Clusters \in Nat \ {0} /\ MaxRings \in Nat
  /\ Deployments \subseteq SUBSET Distributor
  /\ \A i \in Interval, a \in DOMAIN AreaHash \cup {AreaOf[c] : c \in Client} :
       Position[<<i, a>>] \in 0..(Circle - 1)
  /\ \A c \in DOMAIN ProxyGroup : {AreaOf[c], ProxyGroup[c]} \subseteq DOMAIN AreaHash
  /\ \A a \in DOMAIN AreaHash : AreaHash[a] \in Nat
  /\ \A d \in ByAddress, b \in Bridge : ShareHash[d][b] \in Nat
  /\ \A k \in 0..(Clusters + 1), b, c \in Bridge : Place[k][b] = Place[k][c] => b = c
  /\ \A k \in 0..(Clusters + 1), b \in Bridge : Place[k][b] \in 0..(Circle - 1)
  /\ \A load \in Loads :
       load.bridges \subseteq Bridge /\ \A mark \in load.blocked : mark[2] # NoName
  /\ \A b \in Bridge : MainOf[b] \in VanillasOf(b) /\ MainOf[b].version = 4
  /\ \A b \in Bridge : Net[b] = NoNet => b \in Incomplete
  /\ {"scramblesuit", "obfs4"} \subseteq Resistant

VARIABLES
  hashring,      \* bridges and their blocks, and the rings by filters
  shares,        \* does self.proxies hold the process's ProxySet?
  up             \* has the start-up reload ended?

vars == <<proxyVars, hashring, shares, up>>

Tagged == {a \in Address : tagOf[a] # NoTag}

Enabled == DOMAIN hashring

-----------------------------------------------------------------------------
(* FilteredBridgeSplitter *)

\* Who may ask a distributor.
Serves(d, c) == (d \in ByName) = (c \in Client \ DOMAIN ProxyGroup)

\* A client's request, as each server makes it.
RequestOf(d, c, ask) ==
  CASE d \in ByName -> determineBridgeRequestOptions(ask)
    [] d = "moat" -> MoatBridgeRequest(ask, VersionOf[c])
    [] OTHER -> HTTPSBridgeRequest(ask, CountryOf[c])

\* The requests there are.
Request ==
  UNION {{RequestOf(d, c, ask) : c \in {x \in Client : Serves(d, x)}, ask \in Asks[d]} :
           d \in Distributor}

\* Every set of filters somebody may have asked for.
Wanted == {generateFilters(r) : r \in Request} \cup {{byIPv(v)} : v \in {4, 6}}

AnyFilters ==
  Wanted \cup
  {filters \cup {bySubring(d, i, n)} : filters \in Wanted,
     d \in ByAddress, i \in 1..(Clusters + 1), n \in {Clusters, Clusters + 1}}

\* byFilters(filters): the combination that was first made under this name.
Named(filters) == {s \in AnyFilters : Name(s) = Name(filters)}

\* The bridges of the hashring that pass some filters.
Populated(load, filters) ==
  {b \in load.bridges : \A f \in filters : Passes(f, b, load.blocked)}

\* addRing(..., populate_from=self.hashring.bridges), for what has no ring yet.
addRing(ring, sets) ==
  [load |-> ring.load,
   rings |-> [s \in DOMAIN ring.rings \cup sets |->
                IF s \in DOMAIN ring.rings THEN ring.rings[s]
                ELSE Populated(ring.load, CHOOSE n \in Named(s) : TRUE)]]

NewHashring(load) == [load |-> load, rings |-> [s \in {} |-> {}]]

\* totalSubrings, in a distributor made when there were proxies and when not.
totalSubrings(sharing) == IF sharing THEN Clusters + 1 ELSE Clusters

\* prepopulateRings: what a distributor made by this reload asks for.
Prepopulated(d, sharing) ==
  IF d \in ByName
    THEN {{byIPv(v)} : v \in {4, 6}}
    ELSE {{byIPv(v), bySubring(d, i, totalSubrings(sharing))} :
             v \in {4, 6}, i \in 1..totalSubrings(sharing)}

-----------------------------------------------------------------------------
(* A client's way to its ring and its position there *)

usingProxy(d, c) == shares[d] /\ c \in proxies

\* getSubnet
getSubnet(d, c) == IF usingProxy(d, c) THEN ProxyGroup[c] ELSE AreaOf[c]

\* Fault: direct clients are spread over all the sub-rings.
mapSubnetToAnySubring(d, c) ==
  IF usingProxy(d, c) THEN totalSubrings(TRUE)
  ELSE (AreaHash[getSubnet(d, c)] % totalSubrings(shares[d])) + 1

\* mapSubnetToSubring: the last sub-ring is the proxies', if there are proxies.
mapSubnetToSubring(d, c) ==
  IF usingProxy(d, c) THEN totalSubrings(TRUE)
  ELSE (AreaHash[getSubnet(d, c)] % Clusters) + 1

\* The ring for a request, and the key that orders it.
RingKey(d, c, r) ==
  IF d \in ByName THEN generateFilters(r)
  ELSE generateFilters(r) \cup
         {bySubring(d, mapSubnetToSubring(d, c), totalSubrings(shares[d]))}

RingOrder(d, c) == IF d \in ByName THEN Place[0] ELSE Place[mapSubnetToSubring(d, c)]

\* mapClientToHashringPosition, or the email distributor's `pos`
mapClientToHashringPosition(i, d, c) ==
  Position[<<i, IF d \in ByName THEN AreaOf[c] ELSE getSubnet(d, c)>>]

\* What getBridges returns: from the ring on hand, or from one made for it.
Ring(d, c, r) ==
  addRing(hashring[d], {RingKey(d, c, r)}).rings[RingKey(d, c, r)]

Answer(d, c, r, i) ==
  IF hashring[d].load.bridges = {} THEN {}
  ELSE getBridges(Ring(d, c, r), RingOrder(d, c), mapClientToHashringPosition(i, d, c),
                  bridgesPerResponse(Ring(d, c, r)), d \in ByAddress)

-----------------------------------------------------------------------------
Init ==
  /\ ProxyInit
  /\ \E enabled \in Deployments :
       /\ hashring = [d \in enabled |-> NewHashring([bridges |-> {}, blocked |-> {}])]
       /\ shares = [d \in enabled |-> FALSE]
  /\ up = FALSE

\* Fault: the rings of the old hashring are kept.
ReloadedInPlace(d, load, sharing) ==
  addRing([hashring[d] EXCEPT !.load = load], Prepopulated(d, sharing))

\* A hashring loaded from scratch, with its default rings.
Reloaded(d, load, sharing) == addRing(NewHashring(load), Prepopulated(d, sharing))

\* `if proxies:` asks for the length of the set: did this reload find any?
Sharing == [d \in Enabled |-> d \in ByAddress /\ Tagged # {}]

\* The start: the distributors are made for good.
Start(load) ==
  /\ ~up /\ Quiet
  /\ up' = TRUE
  /\ shares' = Sharing
  /\ hashring' = [d \in Enabled |-> Reloaded(d, load, Sharing[d])]
  /\ UNCHANGED proxyVars

\* replaceBridgeRings: of the distributors a reload makes, only the hashrings
\* are kept.
Reload(load) ==
  /\ up /\ job["reload"].at = "idle"
  /\ hashring' = [d \in Enabled |-> Reloaded(d, load, Sharing[d])]
  /\ UNCHANGED <<proxyVars, shares, up>>

\* getBridges, as far as it changes the hashring: a cache miss adds a ring.
GetBridges(d, c, ask) ==
  LET key == RingKey(d, c, RequestOf(d, c, ask)) IN
  /\ up /\ job["reactor"].at = "idle" /\ Serves(d, c)
  /\ hashring[d].load.bridges # {} \/ d \in ByName
  /\ key \notin DOMAIN hashring[d].rings
  /\ Cardinality(DOMAIN hashring[d].rings) <
       MaxRings + Cardinality(Prepopulated(d, shares[d]))
  /\ hashring' = [hashring EXCEPT ![d] = addRing(@, {key})]
  /\ UNCHANGED <<proxyVars, shares, up>>

\* Before the start only the reload runs; exits are downloaded later.
Proxies ==
  /\ ProxyNext
  /\ up \/ job'["reactor"] = job["reactor"]
  /\ UNCHANGED <<hashring, shares, up>>

Next ==
  \/ Proxies
  \/ \E load \in Loads : Start(load) \/ Reload(load)
  \/ \E d \in Enabled, c \in Client : \E ask \in Asks[d] : GetBridges(d, c, ask)

Spec == Init /\ [][Next]_vars

-----------------------------------------------------------------------------
(* Properties.  They are about every request a client could make now. *)

TypeOK ==
  /\ listed \in [File -> SUBSET Address]
  /\ proxies \subseteq Address
  /\ tagOf \in [Address -> Tag \cup {NoTag}]
  /\ up \in BOOLEAN /\ shares \in [Enabled -> BOOLEAN]
  /\ \A d \in Enabled :
        /\ hashring[d].load.bridges \subseteq Bridge
        /\ \A s \in DOMAIN hashring[d].rings : hashring[d].rings[s] \subseteq Bridge

\* Requests are answered, and no update of the proxies is half done (what a
\* request sees of one that is, is a set some finished update leaves too).
Accepting == up /\ Quiet

\* Every ring on hand holds what a ring made now for the same filters would:
\* the cached filters found by their name mean what was asked for, no ring is
\* left from before a reload, and asking again, or after somebody else, gives
\* nothing that asking first would not have given.
RingsAreFresh ==
  \A d \in Enabled : \A s \in DOMAIN hashring[d].rings :
    hashring[d].rings[s] = Populated(hashring[d].load, s)

\* What passes the filters has a line of its own, but that of an IPv6 address
\* the blocks are not looked at, and of an IPv4 address not whether it is there.
Usable(r, b) ==
  r.method = "vanilla" => IF r.version = 4 THEN b \notin Incomplete ELSE r.countries = {}

\* A client is given only bridges it can use and may have: whatever the rings,
\* caches and blocks it came through, and whichever of its endpoints is picked,
\* a bridge gives a line for what the client asked, if it is Usable at all; no
\* line that HTTPS gives is blocked where the client is; none is of a bridge that
\* also runs a transport that resists probing, unless one of those was asked for;
\* and those given by address have one, in distinct subnets.
AnswersFit ==
  Accepting =>
    \A d \in Enabled, c \in Client, i \in Interval : Serves(d, c) =>
      \A ask \in Asks[d] :
        LET r == RequestOf(d, c, ask)
            answer == Answer(d, c, r, i)
            blocked == hashring[d].load.blocked
            lines(b) == BridgeLines(r, b, blocked) IN
        \A b \in answer :
          /\ Usable(r, b) => lines(b) # {} /\ lines(b) = EndpointsFor(r, b, blocked)
          /\ d \in ByAddress \ {"moat"} =>
               \A e \in lines(b) : <<e, CountryOf[c]>> \notin blocked
          /\ hasProbingResistantPT(b) => r.method \in Resistant
          /\ d \in ByAddress =>
               Net[b] # NoNet /\ \A o \in answer : Net[o] = Net[b] => o = b

\* Bridge.getBridgeLine: "Return a valid :term:`Bridge Line` for a client to give
\* to Tor Launcher", for every bridge that the filters let into an answer.
AnswersHaveLines ==
  Accepting =>
    \A d \in Enabled, c \in Client, i \in Interval : Serves(d, c) =>
      \A ask \in Asks[d] :
        LET r == RequestOf(d, c, ask) IN
        \A b \in Answer(d, c, r, i) : BridgeLines(r, b, hashring[d].load.blocked) # {}

\* No bridge is given both to a known proxy and to a client that is not one,
\* whatever either asks for, once there were proxies at the start: mapping of
\* clients and mapping of bridges agree on which sub-ring is the proxies'.
ProxiesApart ==
  Accepting =>
    \A d \in Enabled \cap ByAddress, p, c \in DOMAIN ProxyGroup, i \in Interval :
      usingProxy(d, p) /\ shares[d] /\ ~usingProxy(d, c) =>
        LET given(x) == UNION {Answer(d, x, RequestOf(d, x, ask), i) : ask \in Asks[d]} IN
        given(p) \cap given(c) = {}

\* The assertion len(r) == N, and beyond: an email answer is as long as the
\* ring allows wherever on the circle the client falls.  An answer by address
\* is no longer than that, and it is only empty if the ring is: the bridges
\* that are dropped for their subnet leave one, but those without an address
\* may leave none when there are as many of them as are looked up.
AnswersAreFull ==
  Accepting =>
    \A d \in Enabled, c \in Client, i \in Interval :
      Serves(d, c) /\ hashring[d].load.bridges # {} => \A ask \in Asks[d] :
        LET r == RequestOf(d, c, ask)
            ring == Ring(d, c, r)
            n == bridgesPerResponse(ring)
            strange == {b \in ring : Net[b] = NoNet}
            size == Cardinality(Answer(d, c, r, i)) IN
        IF d \in ByName
          THEN size = IF n =< Cardinality(ring) THEN n ELSE Cardinality(ring)
          ELSE /\ size =< n
               /\ Cardinality(strange) < n + n /\ ring # strange => size > 0

\* bridgedb.conf, of PROXY_LIST_FILES: "All IP-based distributors that see an
\* incoming connection from a proxy will treat them specially", and of the
\* exits: "add those exit relays to the list of proxies".
ProxiesAreTreatedSpecially ==
  Accepting =>
    \A d \in Enabled \cap ByAddress, p \in proxies :
      mapSubnetToSubring(d, p) = totalSubrings(TRUE)

\* bridgedb.conf, of FORCE_PORTS and FORCE_FLAGS: "If possible, always give a
\* certain number of answers with a given ORPort"; it is possible when there
\* is such a bridge in the client's ring.
ForcedAreGiven ==
  Accepting =>
    \A d \in Enabled, c \in Client, i \in Interval, need \in Need :
      Serves(d, c) => \A ask \in Asks[d] :
        LET r == RequestOf(d, c, ask) IN
        SubRing(Ring(d, c, r), need) # {} => SubRing(Answer(d, c, r, i), need) # {}
-----------------------------------------------------------------------------
\* The inductive invariant behind TypeOK, RingsAreFresh, AnswersFit and
\* ProxiesApart: rings are only on hand for filters that some request has.
RingInv ==
  /\ up \in BOOLEAN /\ Enabled \subseteq Distributor
  /\ shares \in [Enabled -> BOOLEAN]
  /\ \A d \in Enabled :
       /\ hashring[d].load \in Loads \cup {[bridges |-> {}, blocked |-> {}]}
       /\ DOMAIN hashring[d].rings \subseteq AnyFilters
  /\ RingsAreFresh

IInv == ProxyInv /\ RingInv
===============================================================================
