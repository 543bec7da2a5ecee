------------------------------- MODULE Filters -------------------------------
(***************************************************************************)
(* The filters a request for bridges becomes (src/bridgedb/filters.py),    *)
(* the names by which filters are cached, and the bridge lines that answer *)
(* it (src/bridgedb/bridges.py).                                           *)
(***************************************************************************)
EXTENDS Integers

CONSTANTS
  EndpointsOf,   \* the addresses of a bridge: [method, version, port] each
  MainOf,        \* its main one
  Incomplete,    \* bridges whose main endpoint has no address or no port
  ShareHash,     \* per distributor, what assigns a bridge to a sub-ring
  Resistant      \* PROBING_RESISTANT_TRANSPORTS

TransportsOf(b) == {e \in EndpointsOf[b] : e.method # "vanilla"}
VanillasOf(b) == EndpointsOf[b] \ TransportsOf(b)
HasIPv(b, version) == \E e \in VanillasOf(b) : e.version = version
hasProbingResistantPT(b) == \E e \in TransportsOf(b) : e.method \in Resistant

\* blocked is a set of <<address, country>>.
transportIsBlockedIn(b, method, country, blocked) ==
  \E e \in TransportsOf(b) : e.method = method /\ <<e, country>> \in blocked

-----------------------------------------------------------------------------
(* Filters, as records *)

byIPv(version) == [by |-> "ip", version |-> version]
byProbingResistance(method, version) ==
  [by |-> "probing resistance", method |-> method, version |-> version]
byTransport(method, version) ==
  [by |-> "transport", method |-> method, version |-> version]
byNotBlockedIn(country, method, version) ==
  [by |-> "unblocked", country |-> country, method |-> method, version |-> version]
bySubring(dist, assigned, total) ==
  [by |-> "subring", dist |-> dist, assigned |-> assigned, total |-> total]

\* Does a bridge pass a filter?
PassesIPv(f, b) == HasIPv(b, f.version)

PassesProbingResistance(f, b) ==
  /\ f.method = "vanilla" => HasIPv(b, f.version)
  /\ hasProbingResistantPT(b) => f.method \in {"scramblesuit", "obfs4"}

PassesTransport(f, b) ==
  \E e \in TransportsOf(b) : e.method = f.method /\ e.version = f.version

\* Fault: the version of the transport is not looked at.
PassesNotBlockedOnly(f, b, blocked) ==
  IF f.method = "vanilla"
    THEN HasIPv(b, f.version) /\ <<MainOf[b], f.country>> \notin blocked
    ELSE /\ ~transportIsBlockedIn(b, f.method, f.country, blocked)
         /\ \E e \in TransportsOf(b) : e.method = f.method

PassesNotBlockedIn(f, b, blocked) ==
  IF f.method = "vanilla"
    THEN HasIPv(b, f.version) /\ <<MainOf[b], f.country>> \notin blocked
    ELSE /\ ~transportIsBlockedIn(b, f.method, f.country, blocked)
         /\ PassesTransport(f, b)

PassesSubring(f, b) == (ShareHash[f.dist][b] % f.total) + 1 = f.assigned

Passes(f, b, blocked) ==
  CASE f.by = "ip" -> PassesIPv(f, b)
    [] f.by = "probing resistance" -> PassesProbingResistance(f, b)
    [] f.by = "transport" -> PassesTransport(f, b)
    [] f.by = "unblocked" -> PassesNotBlockedIn(f, b, blocked)
    [] f.by = "subring" -> PassesSubring(f, b)

\* The words of a filter's name.
Words(f) ==
  CASE f.by = "ip" -> {<<"ipv", f.version>>}
    [] f.by = "probing resistance" ->
         {<<"by-probing-resistance", f.method>>, <<"ipv", f.version>>}
    [] f.by = "transport" -> {<<"transport", f.method>>, <<"ipv", f.version>>}
    [] f.by = "unblocked" -> {<<"transport", f.method>>, <<"ipv", f.version>>,
                              <<"not-blocked-in", f.country>>}
    [] f.by = "subring" -> {<<f.dist, f.assigned, f.total>>}

\* Fault: the words that filters share are left out.
NameByMethod(filters) ==
  UNION {Words(f) \ {<<"ipv", 4>>, <<"ipv", 6>>} : f \in filters}

\* byFilters: " ".join(set(words)), under which the combination is cached.
Name(filters) == UNION {Words(f) : f \in filters}

-----------------------------------------------------------------------------
(* What becomes of a request *)

\* BridgeRequestBase.generateFilters
generateFilters(r) ==
  {byProbingResistance(r.method, r.version)} \cup
  IF r.countries # {}
    THEN {byNotBlockedIn(c, r.method, r.version) : c \in r.countries}
    ELSE IF r.method # "vanilla" THEN {byTransport(r.method, r.version)}
                                 ELSE {byIPv(r.version)}

UnblockedIn(e, countries, blocked) == \A c \in countries : <<e, c>> \notin blocked

\* The endpoints of which getBridgeLine picks one; none: it returns None.
TransportForRequest(r, b, blocked) ==
  {e \in TransportsOf(b) :
     /\ e.method = r.method /\ e.version = r.version
     /\ \A c \in r.countries : ~transportIsBlockedIn(b, r.method, c, blocked)}

VanillaForRequest(r, b, blocked) ==
  {e \in VanillasOf(b) : e.version = r.version /\ UnblockedIn(e, r.countries, blocked)}

EndpointsFor(r, b, blocked) ==
  IF r.method = "vanilla" THEN VanillaForRequest(r, b, blocked)
                          ELSE TransportForRequest(r, b, blocked)

\* Those that _constructBridgeLine makes a line of; of the others it makes None.
BridgeLines(r, b, blocked) ==
  {e \in EndpointsFor(r, b, blocked) : e # MainOf[b] \/ b \notin Incomplete}
===============================================================================
