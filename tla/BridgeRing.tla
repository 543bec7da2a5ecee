------------------------------ MODULE BridgeRing ------------------------------
(***************************************************************************)
(* A hashring of src/bridgedb/bridgerings.py: bridges at places on a       *)
(* circle, looked up from a position onwards.  A ring is the set of the    *)
(* bridges in it; `place` stands for the HMAC under the ring's key.        *)
(***************************************************************************)
EXTENDS Integers, FiniteSets

CONSTANTS
  Bridge,
  Circle,        \* number of places: positions and HMACs are in 0..Circle-1
  Net,           \* the /16 or /32 around each bridge's address
  NoNet,         \* a bridge without an address
  Need,          \* needPorts and needFlags: sets of bridges with their minimum
  FewBridges, ManyBridges     \* _hashringLevelMin, _hashringLevelMax

ASSUME RingAssumption ==
  /\ IsFiniteSet(Bridge)
  /\ Circle \in Nat \ {0}
  /\ \A need \in Need : need.of \subseteq Bridge /\ need.count \in Nat \ {0}
  /\ FewBridges \in Nat /\ ManyBridges \in Nat /\ FewBridges =< ManyBridges

Before(place, b, c) == place[b] < place[c]

\* The n first of some bridges, in the order of their keys.
FirstOf(some, place, n) ==
  {b \in some : Cardinality({c \in some : Before(place, c, b)}) < n}

\* How far a bridge is from a position, going up and, at the end, around.
Ahead(place, pos, b) ==
  IF place[b] >= pos THEN place[b] - pos ELSE place[b] - pos + Circle

\* Fault: no wrapping around.
getBridgeKeysUpTo(ring, place, pos, n) ==
  FirstOf({b \in ring : place[b] >= pos}, place, n)

\* bisect_left, then n keys from there, around the end; all of them if there
\* are no more than n.
getBridgeKeysAt(ring, place, pos, n) ==
  FirstOf(ring, [b \in ring |-> Ahead(place, pos, b)], n)

\* insert puts a bridge in the sub-ring of each forced port and flag it meets.
SubRing(ring, need) == ring \cap need.of

\* Bridges from the sub-rings.
Forced(ring, place, pos) ==
  UNION {getBridgeKeysAt(SubRing(ring, need), place, pos, need.count) : need \in Need}

\* Fault: a bridge without an address is kept.
filterDistinctNets(keys, place) ==
  {b \in keys : \A c \in keys : Before(place, c, b) => Net[c] # Net[b]}

\* Of the bridges of one subnet the first is kept, of those without an
\* address none.
filterDistinctSubnets(keys, place) ==
  {b \in keys :
     /\ Net[b] # NoNet
     /\ \A c \in keys : Before(place, c, b) => Net[c] # Net[b]}

\* What getBridges begins with: twice as many as it returns, and the forced.
Oversampled(ring, place, pos, n) ==
  Forced(ring, place, pos) \cup getBridgeKeysAt(ring, place, pos, n + n)

\* Oversampled, sorted, filtered, and cut to n.
getBridges(ring, place, pos, n, filterBySubnet) ==
  LET keys == Oversampled(ring, place, pos, n) IN
  FirstOf(IF filterBySubnet THEN filterDistinctSubnets(keys, place) ELSE keys, place, n)

\* Distributor.bridgesPerResponse, with its minimum of 1 and maximum of 3.
bridgesPerResponse(ring) ==
  LET n == Cardinality(ring) IN
  IF n < FewBridges THEN 1 ELSE IF n < ManyBridges THEN 2 ELSE 3
===============================================================================
