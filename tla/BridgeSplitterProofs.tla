------------------------- MODULE BridgeSplitterProofs -------------------------
(***************************************************************************)
(* Proofs about BridgeSplitter, for any bridges, hashes, rings and shares. *)
(***************************************************************************)
EXTENDS BridgeSplitter, TLAPS, SequenceTheorems

LEMMA InitInv == Init => IInv
  <1> SUFFICES ASSUME Init PROVE IInv
    OBVIOUS
  <1> USE SplitterAssumption DEF Init
  <1>1. TypeOK
    BY DEF TypeOK
  <1>2. LayoutInv
    BY DEF LayoutInv, PositionIsValid
  <1>3. validRings = {} /\ \A b \in Bridge : Holders(b) = {} /\ asked[b] = Unseen
    BY DEF validRings, Holders
  <1>4. PlacementInv /\ LatestRequestHonoured /\ HeldIsRecorded
    BY <1>3 DEF PlacementInv, LatestRequestHonoured, HeldIsRecorded
  <1>5. ShareInv
    BY DEF ShareInv
  <1> QED
    BY <1>1, <1>2, <1>4, <1>5 DEF IInv

\* A new splitter holds nothing, and promises nothing yet.
LEMMA NewSplitterStep == ASSUME IInv, NewSplitter PROVE IInv'
  <1> USE SplitterAssumption DEF NewSplitter, Empty
  <1>1. TypeOK'
    BY DEF IInv, TypeOK
  <1>2. LayoutInv'
    BY DEF LayoutInv, PositionIsValid
  <1>3. validRings' = {} /\ \A b \in Bridge : Holders(b)' = {} /\ asked'[b] = Unseen
    BY DEF validRings, Holders
  <1>4. (PlacementInv /\ LatestRequestHonoured /\ HeldIsRecorded)'
    BY <1>3 DEF PlacementInv, LatestRequestHonoured, HeldIsRecorded
  <1>5. ShareInv'
    BY DEF ShareInv
  <1> QED
    BY <1>1, <1>2, <1>4, <1>5 DEF IInv

\* The new ring takes over the hash values from totalP on; those below it
\* stay where they were.
LEMMA AddRingStep ==
  ASSUME IInv, NEW i \in DOMAIN RingOrder, NEW p \in Share, AddRing(i, p)
  PROVE  IInv'
  <1> DEFINE last == Len(rings) + 1
  <1>1. RingOrder[i] \in RingName /\ p \in Nat \ {0}
    BY SplitterAssumption DEF RingName
  <1>2. TypeOK'
    <2>1. /\ rings' \in Seq(RingName) /\ pValues' \in Seq(Nat) /\ totalP' \in Nat
          /\ Len(pValues') = Len(rings')
      BY <1>1 DEF IInv, TypeOK, AddRing
    <2>2. share' \in [RingName -> Nat] /\ UNCHANGED <<held, db, visits, asked>>
      BY <1>1 DEF IInv, TypeOK, AddRing
    <2> QED
      BY <2>1, <2>2 DEF IInv, TypeOK
  <1>3. /\ rings' # <<>> /\ totalP' = totalP + p /\ totalP' # 0
        /\ Len(rings') = last /\ Len(pValues') = last
        /\ DOMAIN rings' = 1..last /\ DOMAIN rings = 1..Len(rings)
        /\ pValues'[last] = totalP
        /\ \A j \in 1..Len(rings) : pValues'[j] = pValues[j] /\ rings'[j] = rings[j]
    BY <1>1 DEF IInv, TypeOK, AddRing
  <1>4. PositionIsValid'
    <2> SUFFICES ASSUME NEW n \in 0..(totalP' - 1)
                 PROVE  \E k \in 1..last :
                          /\ pValues'[k] =< n
                          /\ \A j \in 1..last : pValues'[j] =< n => j =< k
      BY <1>3 DEF PositionIsValid
    <2>1. CASE n < totalP
      <3>1. rings # <<>>
        BY <2>1 DEF IInv, LayoutInv, TypeOK
      <3>0. n \in 0..(totalP - 1)
        BY <2>1 DEF IInv, TypeOK
      <3>2. PICK k \in 1..Len(rings) :
              /\ pValues[k] =< n
              /\ \A j \in 1..Len(rings) : pValues[j] =< n => j =< k
        BY <1>3, <3>0, <3>1 DEF IInv, LayoutInv, PositionIsValid
      <3>3. k \in 1..last /\ pValues'[k] =< n
        BY <1>3, <3>2 DEF IInv, TypeOK
      <3>4. ASSUME NEW j \in 1..last, pValues'[j] =< n PROVE j =< k
        <4>1. j # last
          BY <1>3, <2>1, <3>4 DEF IInv, TypeOK
        <4>2. j \in 1..Len(rings)
          BY <4>1, <1>3
        <4> QED
          BY <4>2, <1>3, <3>2, <3>4
      <3> QED
        BY <3>3, <3>4
    <2>2. CASE n >= totalP
      <3>1. last \in 1..last /\ pValues'[last] =< n
        BY <1>3, <2>2 DEF IInv, TypeOK
      <3> QED
        BY <3>1
    <2> QED
      BY <2>1, <2>2 DEF IInv, TypeOK
  <1>5. LayoutInv'
    BY <1>3, <1>4 DEF LayoutInv, IInv
  <1>6. \A b \in Bridge : visits[b] = 0 /\ visits' = visits
    BY DEF AddRing
  <1>7. ASSUME PlacementInv
        PROVE  (PlacementInv /\ LatestRequestHonoured /\ HeldIsRecorded)'
    <2>1. \A b \in Bridge : Holders(b)' = {} /\ asked'[b] = Unseen
      BY <1>6, <1>7 DEF PlacementInv, AddRing, Holders
    <2>2. validRings' \subseteq RingName
      BY <1>2 DEF validRings, TypeOK
    <2> QED
      BY <2>1, <2>2, SplitterAssumption
      DEF PlacementInv, LatestRequestHonoured, HeldIsRecorded
  <1>8. ShareInv'
    <2>1. /\ rings'[last] = RingOrder[i] /\ share' = [share EXCEPT ![RingOrder[i]] = p]
          /\ totalP \in Nat /\ p \in Nat /\ totalP' \in Nat
      BY <1>1, <1>3 DEF AddRing, IInv, TypeOK
    <2>2. \A j \in 1..Len(rings) : rings[j] # RingOrder[i]
      <3>1. RingOrder[i] \notin validRings
        BY SplitterAssumption DEF AddRing
      <3> QED
        BY <1>3, <3>1 DEF validRings
    <2>6. \A j \in 1..Len(rings) :
            /\ rings[j] \in RingName /\ pValues[j] \in Nat /\ share[rings[j]] \in Nat
            /\ pValues[j] + share[rings[j]] =< totalP
      <3>1. \A j \in 1..Len(rings) : rings[j] \in RingName
        BY <1>3 DEF IInv, TypeOK
      <3>2. \A j \in 1..Len(rings) : pValues[j] \in Nat
        BY <1>3 DEF IInv, TypeOK
      <3>3. \A j \in 1..Len(rings) : share[rings[j]] \in Nat
        BY <3>1 DEF IInv, TypeOK
      <3>4. \A j \in 1..Len(rings) : pValues[j] + share[rings[j]] =< totalP
        BY <1>3 DEF IInv, ShareInv
      <3> QED
        BY <3>1, <3>2, <3>3, <3>4
    <2>7. \A j \in 1..Len(rings) :
            /\ share'[rings'[j]] = share[rings[j]] /\ rings'[j] # rings'[last]
            /\ pValues'[j] = pValues[j]
      <3>1. share \in [RingName -> Nat]
        BY DEF IInv, TypeOK
      <3> QED
        BY <1>3, <2>1, <2>2, <2>6, <3>1
    <2>8. share'[rings'[last]] = p
      <3>1. share \in [RingName -> Nat]
        BY DEF IInv, TypeOK
      <3> QED
        BY <1>1, <2>1, <3>1
    <2>3. \A j, k \in 1..last : j < k =>
            rings'[j] # rings'[k] /\ pValues'[j] + share'[rings'[j]] =< pValues'[k]
      <3> SUFFICES ASSUME NEW j \in 1..last, NEW k \in 1..last, j < k
                   PROVE  rings'[j] # rings'[k]
                          /\ pValues'[j] + share'[rings'[j]] =< pValues'[k]
        OBVIOUS
      <3>1. j \in 1..Len(rings)
        BY <1>3 DEF IInv, TypeOK
      <3>2. CASE k = last
        BY <1>3, <2>6, <2>7, <3>1, <3>2
      <3>3. CASE k # last
        <4>1. k \in 1..Len(rings)
          BY <3>3, <1>3 DEF IInv, TypeOK
        <4> QED
          BY <1>3, <2>7, <3>1, <4>1 DEF IInv, ShareInv
      <3> QED
        BY <3>2, <3>3
    <2>4. \A j \in 1..last : pValues'[j] + share'[rings'[j]] =< totalP'
      <3>1. ASSUME NEW j \in 1..last, j # last PROVE j \in 1..Len(rings)
        BY <3>1, <1>3
      <3>2. \A j \in 1..Len(rings) : pValues'[j] + share'[rings'[j]] =< totalP'
        BY <1>3, <2>1, <2>6, <2>7
      <3>3. pValues'[last] + share'[rings'[last]] =< totalP'
        BY <1>3, <2>1, <2>8
      <3> QED
        BY <3>1, <3>2, <3>3
    <2>5. \A n \in 0..(totalP' - 1) : \E j \in 1..last :
            n \in pValues'[j]..(pValues'[j] + share'[rings'[j]] - 1)
      <3> SUFFICES ASSUME NEW n \in 0..(totalP' - 1)
                   PROVE  \E j \in 1..last :
                            n \in pValues'[j]..(pValues'[j] + share'[rings'[j]] - 1)
        OBVIOUS
      <3>1. CASE n < totalP
        <4>0. n \in 0..(totalP - 1)
          BY <3>1 DEF IInv, TypeOK
        <4>1. PICK j \in 1..Len(rings) :
                n \in pValues[j]..(pValues[j] + share[rings[j]] - 1)
          BY <1>3, <4>0 DEF IInv, ShareInv
        <4> QED
          BY <1>3, <2>7, <4>1
      <3>2. CASE n >= totalP
        <4>1. n \in pValues'[last]..(pValues'[last] + share'[rings'[last]] - 1)
          BY <1>3, <2>1, <2>8, <3>2
        <4> QED
          BY <1>3, <4>1
      <3> QED
        BY <3>1, <3>2 DEF IInv, TypeOK
    <2> QED
      BY <1>3, <2>3, <2>4, <2>5 DEF ShareInv
  <1> QED
    BY <1>2, <1>5, <1>7, <1>8 DEF IInv

LEMMA NotRunningStep ==
  ASSUME IInv, NEW b \in Bridge, InsertNotRunning(b)
  PROVE  IInv'
  <1> USE SplitterAssumption DEF InsertNotRunning, layout
  <1>1. TypeOK'
    BY DEF IInv, TypeOK
  <1>2. LayoutInv'
    BY DEF IInv, LayoutInv, PositionIsValid
  <1>3. validRings' = validRings /\ \A c \in Bridge : Holders(c)' = Holders(c)
    BY DEF validRings, Holders
  <1>4. \A c \in Bridge : visits'[c] \in Nat /\ visits'[c] >= visits[c] /\ visits[c] \in Nat
    BY DEF IInv, TypeOK
  <1>5. PlacementInv => PlacementInv'
    BY <1>3, <1>4 DEF PlacementInv, IInv, TypeOK
  <1>6. LatestRequestHonoured /\ HeldIsRecorded => (LatestRequestHonoured /\ HeldIsRecorded)'
    BY <1>3 DEF LatestRequestHonoured, HeldIsRecorded
  <1>7. ShareInv'
    BY DEF IInv, ShareInv
  <1> QED
    BY <1>1, <1>2, <1>5, <1>6, <1>7 DEF IInv

\* The hash of a bridge leads to a ring that exists.
LEMMA HashPlaceIsValid ==
  ASSUME IInv, rings # <<>>, NEW b \in Bridge
  PROVE  HashPlace(b) \in validRings /\ HashPlace(b) \in RingName
  <1> DEFINE n == Digest[b] % totalP
  <1>1. totalP \in Nat \ {0} /\ Digest[b] \in Nat
    BY SplitterAssumption DEF IInv, LayoutInv, TypeOK
  <1>2. n \in 0..(totalP - 1)
    BY <1>1
  <1>3. DOMAIN pValues = DOMAIN rings
    BY DEF IInv, TypeOK
  <1>4. \E k \in DOMAIN pValues : /\ pValues[k] =< n
                                  /\ \A j \in DOMAIN pValues : pValues[j] =< n => j =< k
    BY <1>2, <1>3 DEF IInv, LayoutInv, PositionIsValid
  <1>5. Position(n) \in DOMAIN rings
    BY <1>3, <1>4 DEF Position
  <1> QED
    BY <1>5 DEF HashPlace, validRings, IInv, TypeOK

(***************************************************************************)
(* A running bridge is inserted.  Whatever held it before its last visit   *)
(* is the ring on record, which is the one the insert clears.              *)
(***************************************************************************)
LEMMA InsertStep ==
  ASSUME IInv, NEW b \in Bridge, NEW request \in Request, Insert(b, request)
  PROVE  IInv'
  <1> DEFINE method == Method(request, validRings, HashPlace(b))
  <1>1. rings # <<>> /\ visits[b] < Authorities
    BY DEF Insert, Record
  <1>2. method \in validRings /\ method \in RingName
    BY <1>1, HashPlaceIsValid DEF Method, validRings, IInv, TypeOK
  <1>3. HeldWithout(b, request) \in [RingName -> SUBSET Bridge]
    BY DEF HeldWithout, MustLeave, IInv, TypeOK
  <1>4. held' \in [RingName -> SUBSET Bridge]
    BY <1>2, <1>3 DEF Insert, Record
  <1>5. TypeOK'
    <2>1. db' \in [Bridge -> RingName \cup {Unseen}]
      BY <1>2 DEF Insert, Record, IInv, TypeOK
    <2>2. visits' \in [Bridge -> 0..Authorities]
      BY <1>1, SplitterAssumption DEF Insert, Record, IInv, TypeOK
    <2> QED
      BY <1>4, <2>1, <2>2 DEF Insert, Record, layout, IInv, TypeOK
  <1>6. LayoutInv'
    BY <1>1 DEF Insert, Record, layout, IInv, LayoutInv, PositionIsValid
  <1>7. validRings' = validRings
    BY DEF Insert, Record, layout, validRings
  \* Only the bridge inserted is moved.
  <1>8. ASSUME NEW c \in Bridge \ {b}
        PROVE  /\ Holders(c)' = Holders(c)
               /\ UNCHANGED <<db[c], visits[c], asked[c]>>
    <2>1. \A r \in RingName : c \in HeldWithout(b, request)[r] <=> c \in held[r]
      BY <1>8 DEF HeldWithout, MustLeave, IInv, TypeOK
    <2>2. \A r \in RingName : c \in held'[r] <=> c \in held[r]
      BY <1>2, <1>3, <1>8, <2>1 DEF Insert, Record
    <2> QED
      BY <1>8, <2>2 DEF Insert, Record, Holders, IInv, TypeOK
  <1>9. ASSUME Authorities =< 2,
               PlacementInv, LatestRequestHonoured, HeldIsRecorded
        PROVE  (PlacementInv /\ LatestRequestHonoured /\ HeldIsRecorded)'
    <2> DEFINE kept == {r \in RingName : b \in HeldWithout(b, request)[r]}
    <2>1. visits[b] =< 1 /\ visits'[b] = visits[b] + 1 /\ visits[b] \in Nat
      BY <1>1, <1>9, SplitterAssumption DEF Insert, Record, IInv, TypeOK
    <2>2. Holders(b) \subseteq {db[b]} /\ Holders(b) \subseteq validRings
      BY <1>9, <2>1 DEF PlacementInv
    <2>3. kept \subseteq Holders(b)
      BY DEF HeldWithout, MustLeave, Holders, IInv, TypeOK
    <2>4. request \in validRings \cup {"none"} => kept \subseteq {request}
      <3> SUFFICES ASSUME request \in validRings \cup {"none"},
                          NEW r \in kept, r # request
                   PROVE  FALSE
        OBVIOUS
      <3>1. r = db[b] /\ Recorded(b) = r /\ Recorded(b) # Unseen
        BY <2>2, <2>3, SplitterAssumption DEF Recorded, Holders
      <3>2. MustLeave(Recorded(b), request, validRings)
        BY <3>1 DEF MustLeave
      <3> QED
        BY <3>1, <3>2 DEF HeldWithout, IInv, TypeOK
    <2>5. "none" \notin RingName /\ Unseen \notin RingName
      BY SplitterAssumption
    <2>6. CASE request = "none"
      <3>1. Holders(b)' = kept /\ kept = {}
        BY <2>4, <2>5, <2>6 DEF Insert, Record, Holders
      <3>2. asked'[b] = "none" /\ "none" \notin validRings
        BY <2>5, <2>6 DEF Insert, Record, IInv, TypeOK, validRings
      <3> QED
        BY <1>7, <1>8, <1>9, <2>1, <3>1, <3>2
        DEF PlacementInv, LatestRequestHonoured, HeldIsRecorded
    <2>7. CASE request # "none"
      <3>1. Holders(b)' = kept \cup {method}
        BY <1>2, <1>3, <2>7 DEF Insert, Record, Holders
      <3>2. db'[b] = method /\ asked'[b] = request
        BY <2>7 DEF Insert, Record, IInv, TypeOK
      <3>3. request \in validRings => Holders(b)' = {request}
        BY <2>4, <3>1 DEF Method
      <3>4. visits[b] = 0 => Holders(b)' = {method}
        BY <1>9, <2>3, <3>1 DEF PlacementInv
      <3>5. Holders(b)' \subseteq validRings
        BY <1>2, <2>2, <2>3, <3>1
      <3> QED
        BY <1>7, <1>8, <1>9, <2>1, <2>7, <3>1, <3>2, <3>3, <3>4, <3>5
        DEF PlacementInv, LatestRequestHonoured, HeldIsRecorded
    <2> QED
      BY <2>6, <2>7
  <1>10. ShareInv'
    BY DEF Insert, layout, IInv, ShareInv
  <1> QED
    BY <1>5, <1>6, <1>9, <1>10 DEF IInv, Insert, Record

LEMMA StutterStep == ASSUME IInv, UNCHANGED vars PROVE IInv'
  <1> USE DEF vars
  <1>1. TypeOK'
    BY DEF IInv, TypeOK
  <1>2. LayoutInv'
    BY DEF IInv, LayoutInv, PositionIsValid
  <1>3. validRings' = validRings /\ \A b \in Bridge : Holders(b)' = Holders(b)
    BY DEF validRings, Holders
  <1>4. /\ PlacementInv => PlacementInv'
        /\ LatestRequestHonoured => LatestRequestHonoured'
        /\ HeldIsRecorded => HeldIsRecorded'
    BY <1>3 DEF PlacementInv, LatestRequestHonoured, HeldIsRecorded
  <1>5. ShareInv'
    BY DEF IInv, ShareInv
  <1> QED
    BY <1>1, <1>2, <1>4, <1>5 DEF IInv

LEMMA NextInv == IInv /\ [Next]_vars => IInv'
  BY NewSplitterStep, AddRingStep, NotRunningStep, InsertStep, StutterStep
  DEF Next

-----------------------------------------------------------------------------
(* The theorems *)

\* The inductive invariant holds in every state of BridgeSplitter.
THEOREM Invariance == Spec => []IInv
  BY InitInv, NextInv, PTL DEF Spec

\* Every variable keeps its type.
THEOREM TypeCorrect == Spec => []TypeOK
  <1>1. IInv => TypeOK
    BY DEF IInv
  <1> QED
    BY <1>1, Invariance, PTL

\* The assertion in insert never fails: every hash value falls in the
\* interval of one of the rings, however they were added.
THEOREM AssertionHolds == Spec => []PositionIsValid
  <1>1. IInv => PositionIsValid
    BY DEF IInv, LayoutInv
  <1> QED
    BY <1>1, Invariance, PTL

\* Of the hash values each ring gets as many as its share says: the
\* intervals lie side by side, so exactly the values of a ring's own interval
\* lead to it.
THEOREM SharesKept == Spec => []SharesAreKept
  <1>1. ASSUME IInv PROVE SharesAreKept
    <2> SUFFICES ASSUME NEW i \in DOMAIN rings
                 PROVE  {n \in 0..(totalP - 1) : Position(n) = i}
                          = pValues[i]..(pValues[i] + share[rings[i]] - 1)
      BY DEF SharesAreKept
    <2> DEFINE Within(n, j) == n \in pValues[j]..(pValues[j] + share[rings[j]] - 1)
    <2>1. /\ DOMAIN pValues = DOMAIN rings /\ DOMAIN rings \subseteq Int
          /\ totalP \in Nat
          /\ \A j \in DOMAIN rings : pValues[j] \in Nat /\ share[rings[j]] \in Nat
      BY <1>1 DEF IInv, TypeOK
    <2>2. ASSUME NEW n \in 0..(totalP - 1), NEW j \in DOMAIN rings, Within(n, j)
          PROVE  Position(n) = j
      <3>1. /\ pValues[j] =< n
            /\ \A k \in DOMAIN rings : pValues[k] =< n => k =< j
        BY <1>1, <2>1, <2>2 DEF IInv, ShareInv
      <3>2. ASSUME NEW k \in DOMAIN pValues, pValues[k] =< n,
                   \A l \in DOMAIN pValues : pValues[l] =< n => l =< k
            PROVE  k = j
        BY <2>1, <3>1, <3>2
      <3> QED
        BY <2>1, <3>1, <3>2 DEF Position
    <2>3. \A n \in 0..(totalP - 1) : \E j \in DOMAIN rings : Within(n, j)
      BY <1>1 DEF IInv, ShareInv
    <2>4. ASSUME NEW n \in 0..(totalP - 1), Position(n) = i PROVE Within(n, i)
      BY <2>2, <2>3, <2>4
    <2>5. ASSUME NEW n, Within(n, i)
          PROVE  n \in 0..(totalP - 1) /\ Position(n) = i
      <3>1. n \in 0..(totalP - 1)
        BY <1>1, <2>1, <2>5 DEF IInv, ShareInv
      <3> QED
        BY <2>2, <2>5, <3>1
    <2> QED
      BY <2>4, <2>5
  <1> QED
    BY <1>1, Invariance, PTL

\* With one or two authority directories, a bridge gets what it asked for
\* last, and is in no other ring.
THEOREM RequestsHonoured ==
  ASSUME Authorities =< 2
  PROVE  Spec => []LatestRequestHonoured
  <1>1. IInv => LatestRequestHonoured
    BY DEF IInv
  <1> QED
    BY <1>1, Invariance, PTL

\* ... and a bridge given out is on record under a ring that holds it.
THEOREM HeldRecorded ==
  ASSUME Authorities =< 2
  PROVE  Spec => []HeldIsRecorded
  <1>1. IInv => HeldIsRecorded
    BY DEF IInv
  <1> QED
    BY <1>1, Invariance, PTL
=============================================================================
