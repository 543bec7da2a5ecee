---------------------------- MODULE RingAssignment ----------------------------
(***************************************************************************)
(* The decision inside BridgeSplitter.insert (src/bridgedb/bridgerings.py) *)
(* without its state: given the distributor on record and the one a bridge *)
(* asks for, which ring does it leave and which one does it join.          *)
(***************************************************************************)

CONSTANT Unseen    \* the table has no row for the bridge, or one that names
                   \* no ring of this splitter

\* Fault: a bridge that asks for "none" stays where it is.
MustLeaveForRing(orig, request, validRings) ==
  /\ orig # Unseen
  /\ orig # request
  /\ request \in validRings

\* The bridge leaves the ring on record for another ring, or for none.
MustLeave(orig, request, validRings) ==
  /\ orig # Unseen
  /\ orig # request
  /\ request \in validRings \cup {"none"}

\* Fault: the request is taken as it is.
MethodAsAsked(request, validRings, hashPlace) == request

\* The ring the bridge joins: the one it asks for, or, asking for "any" or
\* for something nobody knows, the one its hash falls into.
Method(request, validRings, hashPlace) ==
  IF request \in validRings THEN request ELSE hashPlace
=============================================================================
