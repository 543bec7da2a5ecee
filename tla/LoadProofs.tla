----------------------------- MODULE LoadProofs -----------------------------
(***************************************************************************)
(* Proofs about Load, for any documents, addresses and measurements, any   *)
(* number of authorities and any order of reading.                         *)
(***************************************************************************)
EXTENDS Load, TLAPS, SequenceTheorems, WellFoundedInduction

-----------------------------------------------------------------------------
(* What each document does to a bridge *)

LEMMA StatusUpdate ==
  ASSUME ignore \in BOOLEAN, NEW ns \in Status, NEW u,
         u = updateFromNetworkStatus(NewBridge, ns)
  PROVE  /\ u \in Bridge /\ u.digest = ns.digest /\ u.key = None /\ u.transports = {}
         /\ ignore => u.address = None /\ u.more = {}
  <1>1. PICK b : b = NewBridge
    OBVIOUS
  <1>2. /\ b \in Bridge /\ b.key = None /\ b.transports = {}
        /\ b.address = None /\ b.more = {}
    BY <1>1 DEF NewBridge, Bridge
  <1>3. u = updateFromNetworkStatus(b, ns)
    BY <1>1
  <1>4. PICK running : running = ("Running" \in ns.flags)
    OBVIOUS
  <1>5. PICK address \in Public \cup {None} :
          address = IF ignore THEN b.address ELSE setAddress(b.address, ns.address)
    BY <1>2 DEF setAddress, isValidIP
  <1>6. PICK more \in SUBSET Public :
          more = IF ignore THEN b.more ELSE updateORAddresses(b, ns.more)
    BY <1>2 DEF updateORAddresses, isValidIP
  <1>7. u = [b EXCEPT !.running = running, !.digest = ns.digest,
                      !.address = address, !.more = more]
    BY <1>3, <1>4, <1>5, <1>6 DEF updateFromNetworkStatus
  <1>8. /\ u.digest = ns.digest /\ u.key = None /\ u.transports = {}
        /\ u.address = address /\ u.more = more
    BY <1>2, <1>7 DEF Bridge
  <1>9. u \in Bridge
    <2>1. ns.digest \in {d.digest : d \in Status} \cup {None}
      OBVIOUS
    <2>2. running \in BOOLEAN
      BY <1>4
    <2> QED
      BY <1>2, <1>7, <2>1, <2>2 DEF Bridge
  <1> QED
    BY <1>2, <1>5, <1>6, <1>8, <1>9

LEMMA ServerUpdate ==
  ASSUME NEW b \in Bridge, NEW sd \in Server, NEW u,
         u = updateFromServerDescriptor(b, sd)
  PROVE  /\ u \in Bridge /\ u.digest = b.digest /\ u.key = sd.key
         /\ u.transports = b.transports
         /\ u.address \in {b.address, sd.address} /\ u.more \subseteq b.more \cup sd.more
  BY DEF updateFromServerDescriptor, Bridge, setAddress, updateORAddresses, isValidIP

LEMMA ExtraUpdate ==
  ASSUME NEW b \in Bridge, NEW ei \in Extra, NEW u,
         u = updateFromExtraInfoDescriptor(b, ei)
  PROVE  /\ u \in Bridge /\ u.digest = b.digest /\ u.key = b.key
         /\ u.address = b.address /\ u.more = b.more
         /\ \A pt \in u.transports :
              \/ pt \in b.transports
              \/ /\ b.key # None /\ b.key = ei.key
                 /\ \E i \in DOMAIN ei.transports : ei.transports[i] = pt
  <1> DEFINE taken == {ei.transports[i] :
                         i \in {k \in DOMAIN ei.transports :
                                  updateFromStemTransport(ei.transports, k)}}
  <1>1. \A pt \in taken : \E i \in DOMAIN ei.transports : ei.transports[i] = pt
    OBVIOUS
  <1>2. taken \subseteq UNION {{d.transports[i] : i \in DOMAIN d.transports} : d \in Extra}
    BY <1>1
  <1>3. u = IF verifyExtraInfoSignature(b, ei) THEN [b EXCEPT !.transports = taken] ELSE b
    BY DEF updateFromExtraInfoDescriptor
  <1> HIDE DEF taken
  <1>4. CASE verifyExtraInfoSignature(b, ei)
    BY <1>1, <1>2, <1>3, <1>4 DEF verifyExtraInfoSignature, Bridge
  <1>5. CASE ~verifyExtraInfoSignature(b, ei)
    BY <1>3, <1>5
  <1> QED
    BY <1>4, <1>5

LEMMA BlockedUpdate ==
  ASSUME NEW b \in Bridge, NEW where \in SUBSET {compact(m) : m \in Measurement},
         NEW u, u = setBlockedIn(b, where)
  PROVE  /\ u \in Bridge /\ u.digest = b.digest /\ u.key = b.key
         /\ u.transports = b.transports
         /\ u.address = b.address /\ u.more = b.more
         /\ u.blockedIn =
              {w \in where :
                 w[2] \in {b.address} \cup b.more \cup {pt.address : pt \in b.transports}}
  <1> DEFINE marks == {w \in where :
                w[2] \in {b.address} \cup b.more \cup {pt.address : pt \in b.transports}}
  <1>1. marks \subseteq where
    OBVIOUS
  <1>2. u = [b EXCEPT !.blockedIn = marks]
    BY DEF setBlockedIn
  <1>3. u.blockedIn = marks
    <2> HIDE DEF marks
    <2> QED
      BY <1>2 DEF Bridge
  <1>4. /\ u \in Bridge /\ u.digest = b.digest /\ u.key = b.key
        /\ u.transports = b.transports
        /\ u.address = b.address /\ u.more = b.more
    <2> HIDE DEF marks
    <2> QED
      BY <1>1, <1>2 DEF Bridge
  <1> QED
    BY <1>3, <1>4

LEMMA InitInv == Init => IInv
  <1> SUFFICES ASSUME Init PROVE IInv
    OBVIOUS
  <1> USE LoadAssumption DEF Init
  <1>1. TypeOK
    BY DEF TypeOK, Stage
  <1>2. KnownInv
    BY DEF KnownInv
  <1>3. StageInv /\ RowsInv /\ BlockedInv
    BY DEF StageInv, RowsInv, BlockedInv
  <1> QED
    BY <1>1, <1>2, <1>3 DEF IInv

-----------------------------------------------------------------------------
(* What a bridge is known by stays true of it. *)

LEMMA ServerKnown ==
  ASSUME NEW b \in Bridge, NEW sd \in Server, Known(sd.fp, b),
         ignore \/ checkServerDescriptor(b, sd),
         NEW u, u = updateFromServerDescriptor(b, sd)
  PROVE  Known(sd.fp, u)
  <1>1. /\ u.digest = b.digest /\ u.key = sd.key /\ u.transports = b.transports
        /\ u.address \in {b.address, sd.address} /\ u.more \subseteq b.more \cup sd.more
    BY ServerUpdate
  <1>2. \A a \in {sd.address} \cup sd.more : InServer(sd.fp, a)
    BY DEF InServer
  <1>3. ignore => \A a \in {u.address} \cup u.more : InServer(sd.fp, a)
    BY <1>1, <1>2 DEF Known
  <1>4. ~ignore => sd.digest = u.digest
    BY <1>1 DEF checkServerDescriptor
  <1> QED
    BY <1>1, <1>3, <1>4 DEF Known

LEMMA ExtraKnown ==
  ASSUME NEW b \in Bridge, NEW ei \in Extra, Known(ei.fp, b),
         NEW u, u = updateFromExtraInfoDescriptor(b, ei)
  PROVE  Known(ei.fp, u)
  <1>1. /\ u.digest = b.digest /\ u.key = b.key
        /\ u.address = b.address /\ u.more = b.more
    BY ExtraUpdate
  <1>2. ASSUME NEW pt \in u.transports PROVE Vouched(ei.fp, pt)
    <2>1. CASE pt \in b.transports
      BY <2>1 DEF Known
    <2>2. CASE /\ b.key # None /\ b.key = ei.key
               /\ \E i \in DOMAIN ei.transports : ei.transports[i] = pt
      <3>1. PICK sd \in Server : /\ sd.fp = ei.fp /\ sd.key = b.key
                                 /\ ~ignore => sd.digest = b.digest
        BY <2>2 DEF Known
      <3>2. ~ignore => \E ns \in Status : ns.fp = ei.fp /\ ns.digest = sd.digest
        BY <3>1 DEF Known
      <3> QED
        BY <2>2, <3>1, <3>2 DEF Vouched
    <2> QED
      BY <1>2, <2>1, <2>2, ExtraUpdate
  <1> QED
    BY <1>1, <1>2 DEF Known

LEMMA BlockedKnown ==
  ASSUME NEW fp, NEW b \in Bridge, Known(fp, b),
         NEW where \in SUBSET {compact(m) : m \in Measurement},
         NEW u, u = setBlockedIn(b, where)
  PROVE  Known(fp, u)
  <1>1. /\ u.digest = b.digest /\ u.key = b.key /\ u.transports = b.transports
        /\ u.address = b.address /\ u.more = b.more
    BY BlockedUpdate
  <1> QED
    BY <1>1 DEF Known

LEMMA KnownKept ==
  ASSUME ignore' = ignore
  PROVE  \A fp, b : Known(fp, b)' <=> Known(fp, b)
  BY DEF Known, Vouched, InServer

-----------------------------------------------------------------------------
(* One lemma per action. *)

LEMMA ReadNetworkStatusStep ==
  ASSUME IInv, NEW ns \in Status, ReadNetworkStatus(ns)
  PROVE  IInv'
  <1>1. PICK u : u = updateFromNetworkStatus(NewBridge, ns)
    OBVIOUS
  <1>2. /\ stage = "status" /\ stage' = stage /\ turn' = turn
        /\ bridges' = [bridges EXCEPT ![ns.fp] = u]
        /\ read' = read \cup {ns} /\ newest' = newest /\ ignore' = ignore
        /\ UNCHANGED <<hashring, blocked, reachable>>
    BY <1>1 DEF ReadNetworkStatus, documents
  <1>3. /\ u \in Bridge /\ u.digest = ns.digest /\ u.key = None /\ u.transports = {}
        /\ ignore => u.address = None /\ u.more = {}
    BY <1>1, StatusUpdate DEF IInv, TypeOK
  <1>4. TypeOK'
    BY <1>2, <1>3 DEF IInv, TypeOK
  <1>5. KnownInv'
    <2>1. Known(ns.fp, u)
      BY <1>3 DEF Known, InServer
    <2>2. \A fp \in Fingerprint : bridges'[fp] = IF fp = ns.fp THEN u ELSE bridges[fp]
      BY <1>2 DEF IInv, TypeOK
    <2> QED
      BY <1>2, <2>1, <2>2, KnownKept DEF IInv, KnownInv
  <1>6. StageInv' /\ RowsInv' /\ BlockedInv'
    BY <1>2 DEF IInv, StageInv, RowsInv, BlockedInv
  <1> QED
    BY <1>4, <1>5, <1>6 DEF IInv

LEMMA ReadServerDescriptorStep ==
  ASSUME IInv, NEW sd \in Server, ReadServerDescriptor(sd)
  PROVE  IInv'
  <1>1. PICK b : b = bridges[sd.fp]
    OBVIOUS
  <1>2. PICK u : u = IF b # None /\ (ignore \/ checkServerDescriptor(b, sd))
                       THEN updateFromServerDescriptor(b, sd) ELSE None
    OBVIOUS
  <1>3. /\ stage = "server" /\ stage' = stage /\ turn' = turn
        /\ bridges' = [bridges EXCEPT ![sd.fp] = u]
        /\ read' = read \cup {sd} /\ newest' = newest /\ ignore' = ignore
        /\ UNCHANGED <<hashring, blocked, reachable>>
    BY <1>1, <1>2 DEF ReadServerDescriptor, documents
  <1>4. /\ sd.fp \in Fingerprint /\ b \in Bridge \cup {None}
        /\ b # None => Known(sd.fp, b)
    BY <1>1, LoadAssumption DEF IInv, TypeOK, KnownInv
  <1>5. u # None => /\ b # None /\ u \in Bridge /\ Known(sd.fp, u) /\ u.digest = b.digest
                    /\ ~ignore => sd.digest = u.digest
    <2>1. CASE b # None /\ (ignore \/ checkServerDescriptor(b, sd))
      BY <1>2, <1>4, <2>1, ServerUpdate, ServerKnown DEF checkServerDescriptor
    <2>2. CASE ~(b # None /\ (ignore \/ checkServerDescriptor(b, sd)))
      BY <1>2, <2>2
    <2> QED
      BY <2>1, <2>2
  <1>6. TypeOK'
    BY <1>3, <1>5 DEF IInv, TypeOK
  <1>7. KnownInv'
    <2>1. \A fp \in Fingerprint : bridges'[fp] = IF fp = sd.fp THEN u ELSE bridges[fp]
      BY <1>3 DEF IInv, TypeOK
    <2>2. \A fp \in Fingerprint :
            /\ bridges'[fp] # None => Known(fp, bridges'[fp])
            /\ hashring'[fp] # None => Known(fp, hashring'[fp])
            /\ newest'[fp] # None => newest'[fp].fp = fp
      BY <1>3, <1>5, <2>1 DEF IInv, KnownInv
    <2>3. ASSUME ~ignore, NEW d \in read' \cap Server, bridges'[d.fp] # None
          PROVE  d.digest = bridges'[d.fp].digest
      <3>1. d.fp \in Fingerprint
        BY <2>3, LoadAssumption
      <3>2. CASE d = sd
        BY <1>4, <1>5, <2>1, <2>3, <3>2
      <3>3. CASE d # sd
        <4>1. d \in read \cap Server
          BY <1>3, <3>3
        <4>2. bridges[d.fp] # None => d.digest = bridges[d.fp].digest
          BY <1>3, <2>3, <4>1 DEF IInv, KnownInv
        <4> QED
          BY <1>1, <1>5, <2>1, <2>3, <3>1, <4>2
      <3> QED
        BY <3>2, <3>3
    <2> QED
      BY <1>3, <2>2, <2>3, KnownKept DEF KnownInv
  <1>8. StageInv' /\ RowsInv' /\ BlockedInv'
    BY <1>3 DEF IInv, StageInv, RowsInv, BlockedInv
  <1> QED
    BY <1>6, <1>7, <1>8 DEF IInv

LEMMA ReadExtraInfoStep ==
  ASSUME IInv, NEW ei \in Extra, ReadExtraInfo(ei)
  PROVE  IInv'
  <1>1. /\ stage = "extra" /\ stage' = stage /\ turn' = turn /\ ignore' = ignore
        /\ newest' = [newest EXCEPT ![ei.fp] = deduplicate(@, ei)]
        /\ read' = read \cup {ei} /\ UNCHANGED <<bridges, hashring, blocked, reachable>>
    BY DEF ReadExtraInfo, documents
  <1>2. deduplicate(newest[ei.fp], ei) \in {newest[ei.fp], ei}
    BY DEF deduplicate
  <1>3. ei.fp \in Fingerprint /\ ei \notin Server
    BY LoadAssumption
  <1>4. TypeOK'
    BY <1>1, <1>2, <1>3 DEF IInv, TypeOK
  <1>5. KnownInv'
    <2>1. \A fp \in Fingerprint : newest'[fp] # None => newest'[fp].fp = fp
      BY <1>1, <1>2 DEF IInv, TypeOK, KnownInv
    <2>2. read' \cap Server = read \cap Server
      BY <1>1, <1>3
    <2> QED
      BY <1>1, <2>1, <2>2, KnownKept DEF IInv, KnownInv
  <1>6. StageInv' /\ RowsInv' /\ BlockedInv'
    BY <1>1 DEF IInv, StageInv, RowsInv, BlockedInv
  <1> QED
    BY <1>4, <1>5, <1>6 DEF IInv

LEMMA ApplyExtraInfosStep ==
  ASSUME IInv, ApplyExtraInfos
  PROVE  IInv'
  <1> DEFINE applied(fp) ==
        IF bridges[fp] # None /\ newest[fp] # None
          THEN updateFromExtraInfoDescriptor(bridges[fp], newest[fp]) ELSE bridges[fp]
  <1>1. /\ stage = "extra" /\ stage' = "insert" /\ turn' = turn /\ ignore' = ignore
        /\ bridges' = [fp \in Fingerprint |-> applied(fp)]
        /\ UNCHANGED <<read, newest, hashring, blocked, reachable>>
    BY DEF ApplyExtraInfos, documents
  <1>2. ASSUME NEW fp \in Fingerprint
        PROVE  /\ applied(fp) \in Bridge \cup {None}
               /\ applied(fp) # None =>
                    /\ bridges[fp] # None /\ Known(fp, applied(fp))
                    /\ applied(fp).digest = bridges[fp].digest
    <2>1. /\ bridges[fp] \in Bridge \cup {None} /\ newest[fp] \in Extra \cup {None}
          /\ bridges[fp] # None => Known(fp, bridges[fp])
          /\ newest[fp] # None => newest[fp].fp = fp
      BY DEF IInv, TypeOK, KnownInv
    <2>2. CASE bridges[fp] # None /\ newest[fp] # None
      BY <2>1, <2>2, ExtraUpdate, ExtraKnown
    <2>3. CASE ~(bridges[fp] # None /\ newest[fp] # None)
      BY <2>1, <2>3
    <2> QED
      BY <2>2, <2>3
  <1> HIDE DEF applied
  <1>3. TypeOK'
    BY <1>1, <1>2 DEF IInv, TypeOK, Stage
  <1>4. KnownInv'
    <2>1. \A fp \in Fingerprint :
            /\ bridges'[fp] # None => Known(fp, bridges'[fp])
            /\ hashring'[fp] # None => Known(fp, hashring'[fp])
            /\ newest'[fp] # None => newest'[fp].fp = fp
      BY <1>1, <1>2 DEF IInv, KnownInv
    <2>2. ASSUME ~ignore, NEW sd \in read \cap Server, bridges'[sd.fp] # None
          PROVE  sd.digest = bridges'[sd.fp].digest
      BY <1>1, <1>2, <2>2, LoadAssumption DEF IInv, KnownInv
    <2> QED
      BY <1>1, <2>1, <2>2, KnownKept DEF KnownInv
  <1>5. StageInv' /\ RowsInv' /\ BlockedInv'
    BY <1>1 DEF IInv, StageInv, RowsInv, BlockedInv
  <1> QED
    BY <1>3, <1>4, <1>5 DEF IInv

LEMMA EndOfFilesStep ==
  ASSUME IInv, EndOfFiles \/ LookForever
  PROVE  IInv'
  <1>1. /\ \/ stage = "status" /\ stage' \in {"server", "hangs"}
           \/ stage = "server" /\ stage' = "extra"
        /\ UNCHANGED <<ignore, turn, read, bridges, newest, hashring, blocked, reachable>>
    BY DEF EndOfFiles, LookForever, documents
  <1>2. TypeOK'
    BY <1>1 DEF IInv, TypeOK, Stage
  <1>3. KnownInv'
    <2>1. stage = "status" => read \cap Server = {}
      BY LoadAssumption DEF IInv, StageInv
    <2> QED
      BY <1>1, <2>1, KnownKept DEF IInv, KnownInv
  <1>4. StageInv' /\ RowsInv' /\ BlockedInv'
    BY <1>1 DEF IInv, StageInv, RowsInv, BlockedInv
  <1> QED
    BY <1>2, <1>3, <1>4 DEF IInv

LEMMA InsertStep ==
  ASSUME IInv, Insert
  PROVE  IInv'
  <1>1. /\ stage = "insert" /\ turn' = turn + 1 /\ ignore' = ignore /\ read' = {}
        /\ stage' = IF turn = Authorities THEN "measure" ELSE "status"
        /\ bridges' = [fp \in Fingerprint |-> None]
        /\ newest' = [fp \in Fingerprint |-> None]
        /\ hashring' = [fp \in Fingerprint |->
                          IF Insertable(bridges[fp]) THEN bridges[fp] ELSE hashring[fp]]
        /\ UNCHANGED <<blocked, reachable>>
    BY DEF Insert
  <1>2. turn \in 1..Authorities /\ blocked = <<>> /\ reachable = <<>>
    BY <1>1, LoadAssumption DEF IInv, TypeOK, StageInv
  <1>3. TypeOK'
    <2>1. turn' \in 1..(Authorities + 1)
      BY <1>1, <1>2, LoadAssumption
    <2> QED
      BY <1>1, <2>1 DEF IInv, TypeOK, Stage
  <1>4. KnownInv'
    <2>1. \A fp \in Fingerprint :
            bridges'[fp] = None /\ newest'[fp] = None /\ hashring'[fp] \in {bridges[fp], hashring[fp]}
      BY <1>1
    <2> QED
      BY <1>1, <2>1, KnownKept DEF IInv, KnownInv
  <1>5. StageInv'
    BY <1>1, <1>2, LoadAssumption DEF StageInv
  <1>6. RowsInv' /\ BlockedInv'
    BY <1>1, <1>2 DEF RowsInv, BlockedInv, ListInv
  <1> QED
    BY <1>3, <1>4, <1>5, <1>6 DEF IInv

-----------------------------------------------------------------------------
(* The measurements *)

\* The row that decides, if there is one, is about the same and of another day.
LEMMA DecidesOne ==
  ASSUME NEW others \in Seq(Measurement), NEW m \in Measurement
  PROVE  \/ /\ Decides(others, m) = 0
            /\ \A k \in DOMAIN others : Same(others[k], m) => others[k].date = m.date
         \/ /\ Decides(others, m) \in DOMAIN others
            /\ Same(others[Decides(others, m)], m)
            /\ others[Decides(others, m)].date # m.date
  <1> DEFINE conflicting ==
        {i \in DOMAIN others : Same(others[i], m) /\ others[i].date # m.date}
  <1>1. conflicting \subseteq Nat
    OBVIOUS
  <1>2. CASE conflicting = {}
    BY <1>2 DEF Decides
  <1>3. CASE conflicting # {}
    <2>1. \E i \in conflicting : \A j \in conflicting : i =< j
      <3>1. PICK i \in conflicting :
              \A j \in conflicting : ~ (<<j, i>> \in OpToRel(<, Nat))
        <4> HIDE DEF conflicting
        <4> QED
          BY <1>1, <1>3, NatLessThanWellFounded, WFMin, Zenon
      <3>2. ASSUME NEW j \in conflicting PROVE i =< j
        <4>1. i \in Nat /\ j \in Nat
          BY <1>1
        <4>2. ~(j < i)
          BY <3>1, <4>1 DEF OpToRel
        <4> QED
          BY <4>1, <4>2
      <3> QED
        BY <3>2
    <2>2. Decides(others, m) = CHOOSE i \in conflicting : \A j \in conflicting : i =< j
      BY <1>3 DEF Decides
    <2>3. Decides(others, m) \in conflicting
      <3> HIDE DEF conflicting
      <3> QED
        BY <2>1, <2>2
    <2> QED
      BY <2>3
  <1> QED
    BY <1>2, <1>3

Different(rows) == \A i, j \in DOMAIN rows : rows[i] = rows[j] => i = j

LEMMA OneOut ==
  ASSUME NEW rows \in Seq(Measurement), NEW i \in DOMAIN rows
  PROVE  /\ Without(rows, i) \in Seq(Measurement)
         /\ \A o : Listed(Without(rows, i), o) => Listed(rows, o)
         /\ \A o : Listed(rows, o) /\ o # rows[i] => Listed(Without(rows, i), o)
         /\ Different(rows) => /\ Different(Without(rows, i))
                               /\ ~Listed(Without(rows, i), rows[i])
  <1> DEFINE n == Len(rows)
             w == Without(rows, i)
  <1>1. n \in Nat /\ DOMAIN rows = 1..n /\ i \in 1..n
    OBVIOUS
  <1>2. DOMAIN w = 1..(n - 1)
    BY DEF Without
  <1>3. \A k \in 1..(n - 1) : w[k] = IF k < i THEN rows[k] ELSE rows[k + 1]
    BY DEF Without
  <1>4. w \in Seq(Measurement)
    <2>1. \A k \in 1..(n - 1) : rows[k] \in Measurement /\ rows[k + 1] \in Measurement
      BY <1>1
    <2>2. w = [k \in 1..(n - 1) |-> IF k < i THEN rows[k] ELSE rows[k + 1]]
      BY DEF Without
    <2>3. n - 1 \in Nat
      BY <1>1
    <2> QED
      BY <2>1, <2>2, <2>3, IsASeq
  <1> HIDE DEF w
  <1>5. \A o : Listed(w, o) => Listed(rows, o)
    BY <1>1, <1>2, <1>3 DEF Listed
  <1>6. ASSUME NEW o, Listed(rows, o), o # rows[i] PROVE Listed(w, o)
    <2>1. PICK k \in 1..n : rows[k] = o /\ k # i
      BY <1>1, <1>6 DEF Listed
    <2>2. CASE k < i
      BY <1>1, <1>2, <1>3, <2>1, <2>2 DEF Listed
    <2>3. CASE ~(k < i)
      <3>1. k - 1 \in 1..(n - 1) /\ ~(k - 1 < i) /\ (k - 1) + 1 = k
        BY <1>1, <2>1, <2>3
      <3> QED
        BY <1>2, <1>3, <2>1, <3>1 DEF Listed
    <2> QED
      BY <2>2, <2>3
  <1>7. ASSUME Different(rows) PROVE Different(w) /\ ~Listed(w, rows[i])
    BY <1>1, <1>2, <1>3, <1>7 DEF Different, Listed
  <1> QED
    BY <1>4, <1>5, <1>6, <1>7 DEF w

\* _shouldSkip: a row is skipped for a newer one only, and drops older ones
\* only; a row that is alone on the other side is compared with it.
LEMMA SkipOutcome ==
  ASSUME NEW others \in Seq(Measurement), NEW m \in Measurement, Different(others),
         NEW f, f = shouldSkip(others, m)
  PROVE  /\ f.others \in Seq(Measurement) /\ Different(f.others)
         /\ \A o : Listed(f.others, o) => Listed(others, o)
         /\ f.skip => \E i \in DOMAIN others : Same(others[i], m) /\ others[i].date > m.date
         /\ \A o : Listed(others, o) /\ ~Listed(f.others, o) => Same(o, m) /\ m.date > o.date
         /\ \A o : /\ Listed(others, o) /\ Same(o, m)
                   /\ \A k \in DOMAIN others : Same(others[k], m) => others[k] = o
                   => /\ o.date > m.date => f.skip
                      /\ m.date > o.date => ~Listed(f.others, o)
  <1> DEFINE i == Decides(others, m)
  <1>1. \A k \in DOMAIN others : others[k] \in Measurement /\ others[k].date \in Int
    BY LoadAssumption
  <1>2. m.date \in Int
    BY LoadAssumption
  <1>3. CASE i = 0
    <2>1. f = [skip |-> FALSE, others |-> others]
      BY <1>3 DEF shouldSkip
    <2>2. \A k \in DOMAIN others : Same(others[k], m) => others[k].date = m.date
      <3>1. 0 \notin DOMAIN others
        OBVIOUS
      <3> QED
        BY <1>3, <3>1, DecidesOne
    <2> QED
      BY <1>1, <1>2, <2>1, <2>2 DEF Listed
  <1>4. CASE i # 0
    <2>1. i \in DOMAIN others /\ Same(others[i], m) /\ others[i].date # m.date
      BY <1>4, DecidesOne
    <2>2. CASE others[i].date > m.date
      <3>1. f = [skip |-> TRUE, others |-> others]
        BY <1>4, <2>2 DEF shouldSkip
      <3>2. \A o : (\A k \in DOMAIN others : Same(others[k], m) => others[k] = o) => o = others[i]
        BY <2>1
      <3> QED
        BY <1>1, <1>2, <2>1, <2>2, <3>1, <3>2
    <2>3. CASE ~(others[i].date > m.date)
      <3>1. f = [skip |-> FALSE, others |-> Without(others, i)]
        BY <1>4, <2>3 DEF shouldSkip
      <3>2. m.date > others[i].date
        BY <1>1, <1>2, <2>1, <2>3
      <3>3. \A o : (\A k \in DOMAIN others : Same(others[k], m) => others[k] = o) => o = others[i]
        BY <2>1
      <3> HIDE DEF i
      <3> QED
        BY <1>1, <1>2, <2>1, <3>1, <3>2, <3>3, OneOut
    <2> QED
      BY <2>2, <2>3
  <1> QED
    BY <1>3, <1>4

\* A row changes the two lists of measurements.
LEMMA ReadMeasurementStep ==
  ASSUME IInv, NEW m \in Measurement, ReadMeasurement(m)
  PROVE  IInv'
  <1>1. PICK mine : mine = IF m.blocked THEN blocked ELSE reachable
    OBVIOUS
  <1>2. PICK others : others = IF m.blocked THEN reachable ELSE blocked
    OBVIOUS
  <1>3. PICK f : f = shouldSkip(others, m)
    OBVIOUS
  <1>4. PICK after : after = IF f.skip THEN mine ELSE Append(mine, m)
    OBVIOUS
  <1>5. /\ stage = "measure" /\ m \notin read /\ read' = read \cup {m}
        /\ blocked' = (IF m.blocked THEN after ELSE f.others)
        /\ reachable' = (IF m.blocked THEN f.others ELSE after)
        /\ UNCHANGED <<ignore, stage, turn, bridges, newest, hashring>>
    BY <1>1, <1>2, <1>3, <1>4 DEF ReadMeasurement
  <1>6. /\ read \subseteq Measurement
        /\ mine \in Seq(Measurement) /\ others \in Seq(Measurement)
    BY <1>1, <1>2, <1>5 DEF IInv, TypeOK, StageInv
  <1>7. \A n \in Measurement : n.blocked \in BOOLEAN /\ n.date \in Int
    BY LoadAssumption
  \* The lists by the kind of a row.
  <1>8. \A n \in Measurement :
          /\ n.blocked = m.blocked => ListOf(n) = mine /\ ListOf(n)' = after
          /\ n.blocked # m.blocked => ListOf(n) = others /\ ListOf(n)' = f.others
    BY <1>1, <1>2, <1>5, <1>7 DEF ListOf
  <1>9. /\ \A n \in read : Listed(ListOf(n), n) \/ \E o \in read : Opposes(o, n)
        /\ \A n, o \in read :
             Opposes(o, n) /\ (\A x \in read : Same(x, n) => x \in {n, o})
               => ~Listed(ListOf(n), n)
    BY <1>5 DEF IInv, RowsInv
  <1>10. /\ \A i \in DOMAIN mine : mine[i] \in read /\ mine[i].blocked = m.blocked
         /\ \A i \in DOMAIN others : others[i] \in read /\ others[i].blocked # m.blocked
         /\ Different(mine) /\ Different(others)
    BY <1>1, <1>2, <1>5, <1>7 DEF IInv, RowsInv, ListInv, Different
  <1>11. /\ f.others \in Seq(Measurement) /\ Different(f.others)
         /\ \A o : Listed(f.others, o) => Listed(others, o)
         /\ f.skip => \E i \in DOMAIN others : Same(others[i], m) /\ others[i].date > m.date
         /\ \A o : Listed(others, o) /\ ~Listed(f.others, o) => Same(o, m) /\ m.date > o.date
         /\ \A o : /\ Listed(others, o) /\ Same(o, m)
                   /\ \A k \in DOMAIN others : Same(others[k], m) => others[k] = o
                   => /\ o.date > m.date => f.skip
                      /\ m.date > o.date => ~Listed(f.others, o)
    BY <1>3, <1>6, <1>10, SkipOutcome
  <1>12. /\ after \in Seq(Measurement) /\ Different(after)
         /\ \A o : Listed(after, o) <=> (Listed(mine, o) \/ (~f.skip /\ o = m))
    <2>1. CASE f.skip
      BY <1>4, <1>6, <1>10, <2>1
    <2>2. CASE ~f.skip
      <3>1. /\ after \in Seq(Measurement) /\ DOMAIN after = 1..(Len(mine) + 1)
            /\ DOMAIN mine = 1..Len(mine) /\ Len(mine) \in Nat
            /\ after[Len(mine) + 1] = m
            /\ \A i \in 1..Len(mine) : after[i] = mine[i]
        BY <1>4, <1>6, <2>2
      <3>2. \A i \in 1..Len(mine) : mine[i] # m
        BY <1>5, <1>10, <3>1
      <3>3. Different(after)
        BY <1>10, <3>1, <3>2 DEF Different
      <3> QED
        BY <2>2, <3>1, <3>3 DEF Listed
    <2> QED
      BY <2>1, <2>2
  <1>13. ASSUME NEW x, NEW y, NEW z, Same(x, y)
         PROVE  Same(y, x) /\ (Same(y, z) => Same(x, z))
    BY <1>13 DEF Same
  <1>14. /\ \A o : Listed(after, o) => o \in read' /\ o.blocked = m.blocked
         /\ \A o : Listed(f.others, o) => o \in read' /\ o.blocked # m.blocked
    <2>1. /\ \A o : Listed(mine, o) => o \in read /\ o.blocked = m.blocked
          /\ \A o : Listed(others, o) => o \in read /\ o.blocked # m.blocked
      BY <1>10 DEF Listed
    <2> QED
      BY <1>5, <1>11, <1>12, <2>1
  <1>15. ListInv(blocked, TRUE)' /\ ListInv(reachable, FALSE)'
    <2>1. /\ \A i \in DOMAIN after : Listed(after, after[i])
          /\ \A i \in DOMAIN f.others : Listed(f.others, f.others[i])
      BY DEF Listed
    <2>2. CASE m.blocked = TRUE
      BY <1>5, <1>6, <1>7, <1>11, <1>12, <1>14, <2>1, <2>2 DEF ListInv, Different
    <2>3. CASE m.blocked = FALSE
      BY <1>5, <1>6, <1>7, <1>11, <1>12, <1>14, <2>1, <2>3 DEF ListInv, Different
    <2> QED
      BY <1>7, <2>2, <2>3
  \* A row is in its list unless there is a newer one of the other kind.
  <1>16. ASSUME NEW n \in read'
         PROVE  Listed(ListOf(n)', n) \/ \E o \in read' : Opposes(o, n)
    <2>1. CASE n = m
      <3>1. CASE f.skip
        <4>1. PICK i \in DOMAIN others : Same(others[i], m) /\ others[i].date > m.date
          BY <1>11, <3>1
        <4>2. others[i] \in read' /\ Opposes(others[i], n)
          BY <1>5, <1>10, <2>1, <4>1 DEF Opposes
        <4> QED
          BY <4>2
      <3>2. CASE ~f.skip
        BY <1>8, <1>12, <2>1, <3>2
      <3> QED
        BY <3>1, <3>2
    <2>2. CASE n # m /\ n.blocked = m.blocked
      BY <1>5, <1>6, <1>8, <1>9, <1>12, <1>16, <2>2
    <2>3. CASE n # m /\ n.blocked # m.blocked
      <3>1. CASE Listed(others, n) /\ ~Listed(f.others, n)
        <4>1. Opposes(m, n)
          BY <1>11, <1>13, <2>3, <3>1 DEF Opposes
        <4> QED
          BY <1>5, <4>1
      <3>2. CASE ~(Listed(others, n) /\ ~Listed(f.others, n))
        BY <1>5, <1>6, <1>8, <1>9, <1>16, <2>3, <3>2
      <3> QED
        BY <3>1, <3>2
    <2> QED
      BY <2>1, <2>2, <2>3
  \* Of two rows that are alone the older one is not in its list.
  <1>17. ASSUME NEW n \in read', NEW o \in read', Opposes(o, n),
                \A x \in read' : Same(x, n) => x \in {n, o}
         PROVE  ~Listed(ListOf(n)', n)
    <2>1. n \in Measurement /\ o \in Measurement /\ n # o /\ Same(o, n) /\ Same(n, o)
      BY <1>5, <1>6, <1>13, <1>17 DEF Opposes
    <2>2. CASE m \notin {n, o}
      <3>1. n \in read /\ o \in read /\ ~Same(m, n)
        BY <1>5, <1>17, <2>2
      <3>2. ~Listed(ListOf(n), n)
        BY <1>5, <1>9, <1>17, <3>1
      <3> QED
        BY <1>8, <1>11, <1>12, <2>1, <2>2, <3>2
    <2>3. CASE m = n
      <3>1. o \in read /\ o.blocked # m.blocked
        BY <1>5, <1>17, <2>1, <2>3 DEF Opposes
      <3>2. \A x \in read : ~Opposes(x, o)
        <4>1. ASSUME NEW x \in read, Opposes(x, o) PROVE FALSE
          <5>1. Same(x, n)
            BY <1>13, <2>1, <4>1 DEF Opposes
          <5>2. x = o
            BY <1>5, <1>17, <2>3, <4>1, <5>1
          <5> QED
            BY <4>1, <5>2 DEF Opposes
        <4> QED
          BY <4>1
      <3>3. Listed(others, o)
        BY <1>8, <1>9, <2>1, <3>1, <3>2
      <3>4. \A k \in DOMAIN others : Same(others[k], m) => others[k] = o
        BY <1>5, <1>10, <1>17, <2>3
      <3>5. f.skip
        BY <1>11, <1>17, <2>1, <2>3, <3>3, <3>4 DEF Opposes
      <3>6. ~Listed(mine, m)
        BY <1>5, <1>10 DEF Listed
      <3> QED
        BY <1>8, <1>12, <2>1, <2>3, <3>5, <3>6
    <2>4. CASE m = o
      <3>1. n \in read /\ n.blocked # m.blocked
        BY <1>5, <1>17, <2>1, <2>4 DEF Opposes
      <3>2. \A k \in DOMAIN others : Same(others[k], m) => others[k] = n
        <4>1. ASSUME NEW k \in DOMAIN others, Same(others[k], m) PROVE others[k] = n
          <5>1. Same(others[k], n)
            BY <1>13, <2>1, <2>4, <4>1
          <5> QED
            BY <1>5, <1>10, <1>17, <2>4, <5>1
        <4> QED
          BY <4>1
      <3>3. m.date > n.date
        BY <1>17, <2>4 DEF Opposes
      <3> QED
        BY <1>8, <1>11, <2>1, <2>4, <3>1, <3>2, <3>3
    <2> QED
      BY <2>2, <2>3, <2>4
  <1>18. TypeOK'
    BY <1>1, <1>2, <1>5, <1>6, <1>11, <1>12 DEF IInv, TypeOK
  <1>19. KnownInv'
    BY <1>5, KnownKept DEF IInv, KnownInv
  <1>20. RowsInv'
    <2>1. \A n, o : Opposes(o, n)' <=> Opposes(o, n)
      BY DEF Opposes
    <2> QED
      BY <1>15, <1>16, <1>17 DEF RowsInv
  <1>21. StageInv' /\ BlockedInv'
    BY <1>5, <1>6 DEF StageInv, BlockedInv
  <1> QED
    BY <1>18, <1>19, <1>20, <1>21 DEF IInv

\* The rows that are left mark the addresses of the bridges served.
LEMMA LoadBlockedBridgesStep ==
  ASSUME IInv, loadBlockedBridges
  PROVE  IInv'
  <1> DEFINE rows(fp) == {compact(blocked[i]) : i \in {k \in DOMAIN blocked : blocked[k].fp = fp}}
             marked(fp) == IF hashring[fp] = None THEN None
                           ELSE setBlockedIn(hashring[fp], rows(fp))
             at(b) == {b.address} \cup b.more \cup {pt.address : pt \in b.transports}
  <1>1. /\ stage = "measure" /\ stage' = "done"
        /\ hashring' = [fp \in Fingerprint |-> marked(fp)]
        /\ UNCHANGED <<ignore, turn, read, bridges, newest, blocked, reachable>>
    BY DEF loadBlockedBridges
  <1>2. blocked \in Seq(Measurement)
    BY DEF IInv, TypeOK
  <1>3. \A i \in DOMAIN blocked : blocked[i] \in Measurement
    BY <1>2
  <1>4. \A fp : rows(fp) \in SUBSET {compact(n) : n \in Measurement}
    BY <1>3
  <1>5. ASSUME NEW fp \in Fingerprint, marked(fp) # None
        PROVE  /\ hashring[fp] # None /\ marked(fp) \in Bridge /\ Known(fp, marked(fp))
               /\ marked(fp).blockedIn = {w \in rows(fp) : w[2] \in at(marked(fp))}
    <2> HIDE DEF rows
    <2>1. hashring[fp] # None /\ hashring[fp] \in Bridge /\ Known(fp, hashring[fp])
      BY <1>5 DEF IInv, TypeOK, KnownInv
    <2>2. marked(fp) = setBlockedIn(hashring[fp], rows(fp))
      BY <2>1
    <2> HIDE DEF marked
    <2>3. /\ marked(fp) \in Bridge
          /\ marked(fp).transports = hashring[fp].transports
          /\ marked(fp).address = hashring[fp].address
          /\ marked(fp).more = hashring[fp].more
          /\ marked(fp).blockedIn = {w \in rows(fp) : w[2] \in at(hashring[fp])}
      BY <1>4, <2>1, <2>2, BlockedUpdate
    <2> QED
      BY <1>4, <2>1, <2>2, <2>3, BlockedKnown
  <1> HIDE DEF marked
  <1>6. TypeOK'
    <2>1. \A fp \in Fingerprint : marked(fp) \in Bridge \cup {None}
      BY <1>5
    <2> QED
      BY <1>1, <2>1 DEF IInv, TypeOK, Stage
  <1>7. KnownInv'
    BY <1>1, <1>5, KnownKept DEF IInv, KnownInv
  <1>8. StageInv'
    BY <1>1 DEF IInv, StageInv
  <1>9. RowsInv'
    BY <1>1 DEF IInv, RowsInv, ListInv, ListOf, Opposes
  <1>10. BlockedInv'
    <2> SUFFICES ASSUME NEW fp \in Fingerprint, marked(fp) # None
                 PROVE  marked(fp).blockedIn =
                          {compact(blocked[i]) :
                             i \in {k \in DOMAIN blocked :
                                      /\ blocked[k].fp = fp
                                      /\ blocked[k].address \in at(marked(fp))}}
      BY <1>1 DEF BlockedInv, Served
    <2>1. \A i : compact(blocked[i])[2] = blocked[i].address
      BY DEF compact
    <2> QED
      BY <1>5, <2>1
  <1> QED
    BY <1>6, <1>7, <1>8, <1>9, <1>10 DEF IInv

LEMMA StutterStep ==
  ASSUME IInv, UNCHANGED vars
  PROVE  IInv'
  <1>1. UNCHANGED <<ignore, stage, turn, read, bridges, newest, hashring, blocked, reachable>>
    BY DEF vars
  <1>2. TypeOK' /\ StageInv'
    BY <1>1 DEF IInv, TypeOK, StageInv
  <1>3. KnownInv'
    BY <1>1, KnownKept DEF IInv, KnownInv
  <1>4. RowsInv'
    BY <1>1 DEF IInv, RowsInv, ListInv, ListOf, Opposes
  <1>5. BlockedInv'
    BY <1>1 DEF IInv, BlockedInv, Served
  <1> QED
    BY <1>2, <1>3, <1>4, <1>5 DEF IInv

LEMMA NextInv == IInv /\ [Next]_vars => IInv'
  BY ReadNetworkStatusStep, ReadServerDescriptorStep, ReadExtraInfoStep,
     ApplyExtraInfosStep, EndOfFilesStep, InsertStep, ReadMeasurementStep,
     LoadBlockedBridgesStep, StutterStep
  DEF Next

-----------------------------------------------------------------------------

\* The inductive invariant holds in every state that a load reaches.
THEOREM Invariance == Spec => []IInv
  BY InitInv, NextInv, PTL DEF Spec

\* Types are kept: no bridge has an address, or an additional one, that
\* isIPAddress does not accept.
THEOREM TypeCorrect == Spec => []TypeOK
  <1>1. IInv => TypeOK
    BY DEF IInv
  <1> QED
    BY <1>1, Invariance, PTL

\* A transport is served only along the chain of networkstatus, server
\* descriptor and extra-info, in whatever order and number they are read.
THEOREM ChainOfTrust == Spec => []TransportsAreVouched
  <1>1. IInv => TransportsAreVouched
    BY DEF IInv, KnownInv, Known, TransportsAreVouched, Served
  <1> QED
    BY <1>1, Invariance, PTL

\* No later descriptor makes up for one whose digest is wrong.
THEOREM Rejected == Spec => []RejectionIsFinal
  <1>1. IInv => RejectionIsFinal
    BY DEF IInv, KnownInv, RejectionIsFinal
  <1> QED
    BY <1>1, Invariance, PTL

\* With IGNORE_NETWORKSTATUS no address of the networkstatus is served.
THEOREM OnlyFlags == Spec => []StatusIsOnlyFlags
  <1>1. IInv => StatusIsOnlyFlags
    BY DEF IInv, KnownInv, Known, StatusIsOnlyFlags, Served
  <1> QED
    BY <1>1, Invariance, PTL

\* The marks of a bridge follow from the rows, in whatever order they are read.
THEOREM BlocksFollow == Spec => []BlocksFollowRows
  <1>1. ASSUME IInv, stage = "done", NEW fp \in Served, NEW m \in Measurement,
               NEW b, b = hashring[fp],
               m.address \in {b.address} \cup b.more \cup {pt.address : pt \in b.transports}
        PROVE  LET bad == Rows(fp, compact(m), TRUE)
                   good == Rows(fp, compact(m), FALSE) IN
               /\ (\E n \in bad : \A o \in good : n.date > o.date)
                    => compact(m) \in b.blockedIn
               /\ (\E n, o \in Measurement : bad = {n} /\ good = {o} /\ o.date > n.date)
                    => compact(m) \notin b.blockedIn
    <2> DEFINE at == {b.address} \cup b.more \cup {pt.address : pt \in b.transports}
               bad == Rows(fp, compact(m), TRUE)
               good == Rows(fp, compact(m), FALSE)
               marks == {k \in DOMAIN blocked : blocked[k].fp = fp /\ blocked[k].address \in at}
    <2>1. b.blockedIn = {compact(blocked[i]) : i \in marks}
      BY <1>1 DEF IInv, BlockedInv
    <2>2. read \subseteq Measurement /\ \A x \in Measurement : x.blocked \in BOOLEAN /\ x.date \in Int
      BY <1>1, LoadAssumption DEF IInv, StageInv
    <2>3. /\ \A n \in read : Listed(ListOf(n), n) \/ \E o \in read : Opposes(o, n)
          /\ \A n, o \in read :
               Opposes(o, n) /\ (\A x \in read : Same(x, n) => x \in {n, o})
                 => ~Listed(ListOf(n), n)
          /\ \A i \in DOMAIN blocked : blocked[i] \in read /\ blocked[i].blocked = TRUE
      BY <1>1 DEF IInv, RowsInv, ListInv
    <2>4. ASSUME NEW n \in bad, \A o \in good : n.date > o.date
          PROVE  compact(m) \in b.blockedIn
      <3>1. n \in read /\ n.blocked = TRUE /\ n.fp = fp /\ compact(n) = compact(m)
        BY DEF Rows
      <3>2. ASSUME NEW o \in read, Opposes(o, n) PROVE FALSE
        <4>1. /\ o.blocked # n.blocked /\ o.date > n.date
              /\ o.fp = n.fp /\ compact(o) = compact(n)
          BY <3>2 DEF Opposes, Same
        <4>2. o.blocked = FALSE
          BY <2>2, <3>1, <4>1
        <4>3. o \in good
          BY <2>2, <3>1, <4>1, <4>2 DEF Rows
        <4>4. n.date > o.date
          BY <2>4, <4>3
        <4>5. n.date \in Int /\ o.date \in Int
          BY <2>2, <3>1
        <4> QED
          BY <4>1, <4>4, <4>5
      <3>3. Listed(blocked, n)
        BY <2>3, <3>1, <3>2 DEF ListOf
      <3>4. PICK i \in DOMAIN blocked : blocked[i] = n
        BY <3>3 DEF Listed
      <3>5. n.address = m.address
        BY <3>1 DEF compact
      <3>6. i \in marks
        BY <1>1, <3>1, <3>4, <3>5
      <3> QED
        BY <2>1, <3>1, <3>4, <3>6
    <2>5. ASSUME NEW n \in Measurement, NEW o \in Measurement,
                 bad = {n}, good = {o}, o.date > n.date, compact(m) \in b.blockedIn
          PROVE  FALSE
      <3>1. PICK i \in marks : compact(blocked[i]) = compact(m)
        BY <2>1, <2>5
      <3>2. blocked[i] \in bad
        BY <2>2, <2>3, <3>1 DEF Rows
      <3>3. Listed(blocked, n) /\ n \in bad /\ o \in good
        <4>1. i \in DOMAIN blocked
          BY <3>1
        <4> HIDE DEF bad, good, marks
        <4>2. blocked[i] = n
          BY <2>5, <3>2
        <4> QED
          BY <2>5, <4>1, <4>2 DEF Listed
      <3>4. n \in read /\ n.blocked = TRUE /\ o \in read /\ o.blocked = FALSE
        BY <3>3 DEF Rows
      <3>5. Opposes(o, n)
        BY <2>5, <3>3, <3>4 DEF Opposes, Same, Rows
      <3>6. ASSUME NEW x \in read, Same(x, n) PROVE x \in {n, o}
        <4>1. x \in bad \/ x \in good
          BY <2>2, <3>3, <3>6 DEF Rows, Same
        <4> QED
          BY <2>5, <4>1
      <3> QED
        BY <2>3, <3>3, <3>4, <3>5, <3>6 DEF ListOf
    <2> QED
      BY <2>4, <2>5
  <1>2. IInv => BlocksFollowRows
    BY <1>1 DEF BlocksFollowRows
  <1> QED
    BY <1>2, Invariance, PTL
=============================================================================
