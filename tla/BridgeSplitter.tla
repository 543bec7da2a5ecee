---------------------------- MODULE BridgeSplitter ----------------------------
(***************************************************************************)
(* The BridgeSplitter of src/bridgedb/bridgerings.py: which distributor a  *)
(* bridge is given to.  A splitter is made anew by createBridgeRings at    *)
(* every start and reload; then load inserts every bridge of every         *)
(* authority directory, so that a bridge listed by two authorities is      *)
(* inserted twice, maybe with different requests.  The Bridges table of    *)
(* the database survives from one splitter to the next.                    *)
(***************************************************************************)
EXTENDS Integers, Sequences, RingAssignment

CONSTANTS
  Bridge,        \* bridges, by fingerprint
  RingOrder,     \* the order in which createBridgeRings adds the rings
  Share,         \* the shares (p) a configuration may give a ring
  Request,       \* what a descriptor may ask for
  Digest,        \* the integer read off the HMAC of a bridge's identity
  Authorities    \* number of BRIDGE_AUTHORITY_DIRECTORIES

RingName == {RingOrder[i] : i \in DOMAIN RingOrder}

ASSUME SplitterAssumption ==
  /\ RingOrder \in Seq(STRING)
  /\ \A i, j \in DOMAIN RingOrder : RingOrder[i] = RingOrder[j] => i = j
  /\ Share \subseteq Nat \ {0}
  /\ Request \subseteq STRING
  /\ Digest \in [Bridge -> Nat]
  /\ Authorities \in Nat
  /\ Unseen \notin RingName /\ "none" \notin RingName /\ "any" \notin RingName

VARIABLES
  rings,         \* self.rings: names of the rings, in the order added
  pValues,       \* self.pValues: where the interval of each ring begins
  totalP,        \* self.totalP
  held,          \* self.ringsByName: the bridges each ring holds
  db,            \* the distributor column of the Bridges table
  visits,        \* how often load has inserted each bridge
  share,         \* history: the share each ring was added with
  asked          \* history: the last request seen of each running bridge

layout == <<rings, pValues, totalP, share>>
vars == <<rings, pValues, totalP, held, db, visits, share, asked>>

validRings == {rings[i] : i \in DOMAIN rings}

\* Where a bridge is held.
Holders(b) == {r \in RingName : b \in held[r]}

Empty ==
  /\ rings' = <<>> /\ pValues' = <<>> /\ totalP' = 0
  /\ held' = [r \in RingName |-> {}]
  /\ share' = [r \in RingName |-> 0]
  /\ visits' = [b \in Bridge |-> 0]
  /\ asked' = [b \in Bridge |-> Unseen]

Init ==
  /\ rings = <<>> /\ pValues = <<>> /\ totalP = 0
  /\ held = [r \in RingName |-> {}]
  /\ db = [b \in Bridge |-> Unseen]
  /\ share = [r \in RingName |-> 0]
  /\ visits = [b \in Bridge |-> 0]
  /\ asked = [b \in Bridge |-> Unseen]

\* A reload, or a crash and a start: a new splitter, the same table.
NewSplitter ==
  /\ rings # <<>>
  /\ Empty
  /\ UNCHANGED db

\* Fault: an interval starts where it ends.
AddRingAfter(i, p) ==
  /\ visits = [b \in Bridge |-> 0]
  /\ \A j \in i..Len(RingOrder) : RingOrder[j] \notin validRings
  /\ pValues' = Append(pValues, totalP + p)
  /\ rings' = Append(rings, RingOrder[i])
  /\ totalP' = totalP + p
  /\ share' = [share EXCEPT ![RingOrder[i]] = p]
  /\ UNCHANGED <<held, db, visits, asked>>

\* Fault: every ring counts one.
AddRingEvenly(i, p) ==
  /\ visits = [b \in Bridge |-> 0]
  /\ \A j \in i..Len(RingOrder) : RingOrder[j] \notin validRings
  /\ pValues' = Append(pValues, totalP)
  /\ rings' = Append(rings, RingOrder[i])
  /\ totalP' = totalP + 1
  /\ share' = [share EXCEPT ![RingOrder[i]] = p]
  /\ UNCHANGED <<held, db, visits, asked>>

(***************************************************************************)
(* addRing, called by createBridgeRings before anything is inserted and in *)
(* its fixed order; a ring whose distributor is off or has share 0 is      *)
(* skipped.                                                                *)
(***************************************************************************)
AddRing(i, p) ==
  /\ visits = [b \in Bridge |-> 0]
  /\ \A j \in i..Len(RingOrder) : RingOrder[j] \notin validRings
  /\ pValues' = Append(pValues, totalP)
  /\ rings' = Append(rings, RingOrder[i])
  /\ totalP' = totalP + p
  /\ share' = [share EXCEPT ![RingOrder[i]] = p]
  /\ UNCHANGED <<held, db, visits, asked>>

\* Database.getBridgeDistributor
Recorded(b) == IF db[b] \in validRings THEN db[b] ELSE Unseen

\* bisect.bisect_right(self.pValues, n) - 1, counted from 1
Position(n) ==
  CHOOSE i \in DOMAIN pValues :
    /\ pValues[i] =< n
    /\ \A j \in DOMAIN pValues : pValues[j] =< n => j =< i

HashPlace(b) == rings[Position(Digest[b] % totalP)]

\* prevRing.remove(bridge), when the bridge leaves the ring on record
HeldWithout(b, request) ==
  IF MustLeave(Recorded(b), request, validRings)
    THEN [held EXCEPT ![Recorded(b)] = @ \ {b}]
    ELSE held

\* BridgeSplitter.insert of a bridge that is not running.
InsertNotRunning(b) ==
  /\ rings # <<>> /\ visits[b] < Authorities
  /\ visits' = [visits EXCEPT ![b] = @ + 1]
  /\ UNCHANGED <<layout, held, db, asked>>

\* Fault: a row that exists is not updated.
RecordOnce(b, method) ==
  IF db[b] = Unseen THEN db' = [db EXCEPT ![b] = method] ELSE UNCHANGED db

\* Database.insertBridgeAndGetRing, the distributor column
Record(b, method) == db' = [db EXCEPT ![b] = method]

(***************************************************************************)
(* BridgeSplitter.insert of a running bridge.  A descriptor always comes   *)
(* with a request ("any" by default), so the request decides and the       *)
(* record is consulted only for the ring the bridge has to leave.          *)
(***************************************************************************)
Insert(b, request) ==
  /\ rings # <<>> /\ visits[b] < Authorities
  /\ visits' = [visits EXCEPT ![b] = @ + 1]
  /\ asked' = [asked EXCEPT ![b] = request]
  /\ IF request = "none"
       THEN held' = HeldWithout(b, request) /\ UNCHANGED db
       ELSE LET method == Method(request, validRings, HashPlace(b)) IN
            /\ Record(b, method)
            /\ held' = [HeldWithout(b, request) EXCEPT ![method] = @ \cup {b}]
  /\ UNCHANGED layout

Next ==
  \/ NewSplitter
  \/ \E i \in DOMAIN RingOrder, p \in Share : AddRing(i, p)
  \/ \E b \in Bridge :
        \/ InsertNotRunning(b)
        \/ \E request \in Request : Insert(b, request)

Spec == Init /\ [][Next]_vars

-----------------------------------------------------------------------------
(* Properties *)

TypeOK ==
  /\ rings \in Seq(RingName) /\ pValues \in Seq(Nat) /\ totalP \in Nat
  /\ Len(pValues) = Len(rings)
  /\ held \in [RingName -> SUBSET Bridge]
  /\ db \in [Bridge -> RingName \cup {Unseen}]
  /\ visits \in [Bridge -> 0..Authorities]
  /\ share \in [RingName -> Nat]
  /\ asked \in [Bridge -> Request \cup {Unseen}]

\* The assertion in insert, `0 <= pos < len(self.rings)`: whatever rings were
\* added with whatever shares, the hash of a bridge falls in the interval of
\* exactly one of them.
PositionIsValid ==
  rings # <<>> =>
    \A n \in 0..(totalP - 1) :
      \E i \in DOMAIN rings :
        /\ pValues[i] =< n
        /\ \A j \in DOMAIN rings : pValues[j] =< n => j =< i

\* The shares of bridgedb.conf: of the hash values, each ring gets as many as
\* its share says, so bridges that ask for nothing are spread in proportion.
SharesAreKept ==
  \A i \in DOMAIN rings :
    {n \in 0..(totalP - 1) : Position(n) = i}
      = pValues[i]..(pValues[i] + share[rings[i]] - 1)

\* With the two authority directories of the default configuration, what a
\* running bridge asked for last in this load is what it gets: it is in the
\* ring it named and no other, or, asking for "none", in no ring at all, even
\* if the other authority's copy of it had put it somewhere.
LatestRequestHonoured ==
  \A b \in Bridge :
    /\ asked[b] \in validRings => Holders(b) = {asked[b]}
    /\ asked[b] = "none" => Holders(b) = {}

\* A bridge that is being given out is on record, under a ring that holds it:
\* the next load can find it there.
HeldIsRecorded ==
  \A b \in Bridge : Holders(b) # {} => db[b] \in Holders(b)

\* The comment in insert: a bridge is placed by its hash if it asks for "any"
\* and "we've never seen this bridge before"; test_change_distribution: "if
\* the bridge uses "any", it should stay where it is".
AnyStaysWhereItIs ==
  [][\A b \in Bridge :
        /\ visits'[b] = visits[b] + 1
        /\ asked'[b] = "any"
        /\ Recorded(b) # Unseen
        => db'[b] = db[b]]_vars
-----------------------------------------------------------------------------
(***************************************************************************)
(* The inductive invariant, for at most two authorities.  Before its last  *)
(* visit a bridge is held at most by the ring on record, so that the last  *)
(* insert, which can only clear the ring on record, clears all there is.   *)
(* A third visit finds two rings and leaves one of them behind.            *)
(***************************************************************************)
LayoutInv ==
  /\ rings = <<>> <=> totalP = 0
  /\ \A b \in Bridge : visits[b] > 0 => rings # <<>>
  /\ PositionIsValid

\* The intervals of the rings lie one after the other and cover the values.
ShareInv ==
  /\ \A i, j \in DOMAIN rings : i < j =>
       rings[i] # rings[j] /\ pValues[i] + share[rings[i]] =< pValues[j]
  /\ \A i \in DOMAIN rings : pValues[i] + share[rings[i]] =< totalP
  /\ \A n \in 0..(totalP - 1) : \E i \in DOMAIN rings :
       n \in pValues[i]..(pValues[i] + share[rings[i]] - 1)

PlacementInv ==
  \A b \in Bridge :
    /\ Holders(b) \subseteq validRings
    /\ visits[b] = 0 => Holders(b) = {} /\ asked[b] = Unseen
    /\ visits[b] =< 1 => Holders(b) \subseteq {db[b]}

IInv ==
  /\ TypeOK /\ LayoutInv /\ ShareInv
  /\ Authorities =< 2 =>
       PlacementInv /\ LatestRequestHonoured /\ HeldIsRecorded
=============================================================================
