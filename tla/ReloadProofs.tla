---------------------------- MODULE ReloadProofs ----------------------------
(***************************************************************************)
(* Proofs about Reload, for any bridges, rings, distributors, number of    *)
(* authorities and contents of their files, any number of SIGHUPs and any  *)
(* size of the thread pool.                                                *)
(***************************************************************************)
EXTENDS Reload, TLAPS, SequenceTheorems

LEMMA Generations == Generation \subseteq Int /\ 0 \in Generation
  BY ReloadAssumption DEF Generation

\* What is on the reactor's queue.
LEMMA Queued ==
  ASSUME queue \in Seq([dist : Distributor, gen : Generation])
  PROVE  /\ DOMAIN queue = 1..Len(queue) /\ Len(queue) \in Nat
         /\ \A i \in DOMAIN queue :
              queue[i].dist \in Distributor /\ queue[i].gen \in Generation
  <1>1. DOMAIN queue = 1..Len(queue) /\ Len(queue) \in Nat
    OBVIOUS
  <1>2. ASSUME NEW i \in 1..Len(queue)
        PROVE  queue[i] \in [dist : Distributor, gen : Generation]
    BY <1>2, ElementOfSeq
  <1> QED
    BY <1>1, <1>2

-----------------------------------------------------------------------------
(* What one more authority does to where a bridge is. *)

LEMMA RecordedNext ==
  ASSUME NEW r, NEW n \in Nat, NEW b, NEW d
  PROVE  RecordedBy(r, n + 1, b, d) <=>
           IF Places(r, n + 1, b) THEN PutIn(r, n + 1, b, d) ELSE RecordedBy(r, n, b, d)
  <1>1. 1..(n + 1) = 1..n \cup {n + 1}
    OBVIOUS
  <1>2. \A a \in 1..n : (a + 1)..(n + 1) = (a + 1)..n \cup {n + 1}
    OBVIOUS
  <1>3. (n + 1 + 1)..(n + 1) = {}
    OBVIOUS
  <1> QED
    BY <1>1, <1>2, <1>3 DEF RecordedBy, PutIn

LEMMA KeptNext ==
  ASSUME NEW r, NEW n \in Nat, NEW b, NEW d
  PROVE  /\ Kept(r, n + 1, b, d) <=>
              PutIn(r, n + 1, b, d) \/ (Kept(r, n, b, d) /\ ~Leaves(r, n + 1, b, d))
         /\ SurelyKept(r, n + 1, b, d) <=>
              PutIn(r, n + 1, b, d)
              \/ (SurelyKept(r, n, b, d) /\ ~MustLeave(d, Asked(r, n + 1, b), Ring))
         /\ MaybeKept(r, n + 1, b, d) <=> PutIn(r, n + 1, b, d) \/ MaybeKept(r, n, b, d)
  <1>1. 1..(n + 1) = 1..n \cup {n + 1}
    OBVIOUS
  <1>2. \A a \in 1..n : (a + 1)..(n + 1) = (a + 1)..n \cup {n + 1}
    OBVIOUS
  <1>3. (n + 1 + 1)..(n + 1) = {}
    OBVIOUS
  <1>4. Kept(r, n + 1, b, d) <=>
          PutIn(r, n + 1, b, d) \/ (Kept(r, n, b, d) /\ ~Leaves(r, n + 1, b, d))
    BY <1>1, <1>2, <1>3 DEF Kept
  <1>5. SurelyKept(r, n + 1, b, d) <=>
          PutIn(r, n + 1, b, d)
          \/ (SurelyKept(r, n, b, d) /\ ~MustLeave(d, Asked(r, n + 1, b), Ring))
    BY <1>1, <1>2, <1>3 DEF SurelyKept
  <1>6. MaybeKept(r, n + 1, b, d) <=> PutIn(r, n + 1, b, d) \/ MaybeKept(r, n, b, d)
    BY <1>1 DEF MaybeKept
  <1> QED
    BY <1>4, <1>5, <1>6

\* Before the first authority nothing is in any ring.
LEMMA NothingKept ==
  ASSUME NEW r, NEW b, NEW d
  PROVE  /\ ~Kept(r, 0, b, d) /\ ~SurelyKept(r, 0, b, d) /\ ~MaybeKept(r, 0, b, d)
         /\ ~RecordedBy(r, 0, b, d) /\ ~\E a \in 1..0 : Places(r, a, b)
  BY DEF Kept, SurelyKept, MaybeKept, RecordedBy

\* An authority that does not list the bridge changes nothing.
LEMMA GoneNext ==
  ASSUME NEW r, NEW n \in Nat, NEW b, NEW d, Asked(r, n + 1, b) = Gone
  PROVE  /\ RecordedBy(r, n + 1, b, d) <=> RecordedBy(r, n, b, d)
         /\ Kept(r, n + 1, b, d) <=> Kept(r, n, b, d)
         /\ SurelyKept(r, n + 1, b, d) <=> SurelyKept(r, n, b, d)
         /\ MaybeKept(r, n + 1, b, d) <=> MaybeKept(r, n, b, d)
         /\ (\E a \in 1..(n + 1) : Places(r, a, b)) <=> (\E a \in 1..n : Places(r, a, b))
  <1>1. ~Places(r, n + 1, b) /\ ~PutIn(r, n + 1, b, d)
    BY DEF Places, PutIn
  <1>2. ~MustLeave(d, Asked(r, n + 1, b), Ring)
    BY AuthorityFilesAssumption DEF MustLeave
  <1>3. ~Leaves(r, n + 1, b, d)
    BY <1>2 DEF Leaves
  <1>4. 1..(n + 1) = 1..n \cup {n + 1}
    OBVIOUS
  <1> QED
    BY <1>1, <1>2, <1>3, <1>4, RecordedNext, KeptNext

\* Files of later authorities do not matter.
LEMMA SameAsked ==
  ASSUME NEW r, NEW s, NEW n \in Nat, NEW b, NEW d,
         \A j \in 1..n : Asked(s, j, b) = Asked(r, j, b)
  PROVE  /\ RecordedBy(s, n, b, d) <=> RecordedBy(r, n, b, d)
         /\ Kept(s, n, b, d) <=> Kept(r, n, b, d)
         /\ SurelyKept(s, n, b, d) <=> SurelyKept(r, n, b, d)
         /\ MaybeKept(s, n, b, d) <=> MaybeKept(r, n, b, d)
         /\ (\E a \in 1..n : Places(s, a, b)) <=> (\E a \in 1..n : Places(r, a, b))
  <1>1. \A j \in 1..n : /\ Places(s, j, b) <=> Places(r, j, b)
                        /\ PutIn(s, j, b, d) <=> PutIn(r, j, b, d)
    BY DEF Places, PutIn
  <1>2. ASSUME NEW m \in 0..n PROVE RecordedBy(s, m, b, d) <=> RecordedBy(r, m, b, d)
    <2>1. \A a \in 1..m : a \in 1..n /\ \A j \in (a + 1)..m : j \in 1..n
      OBVIOUS
    <2> QED
      BY <1>1, <2>1 DEF RecordedBy
  <1>3. \A a \in 1..n : \A j \in (a + 1)..n : j \in 1..n /\ j - 1 \in 0..n
    OBVIOUS
  <1>4. \A a \in 1..n : \A j \in (a + 1)..n : Leaves(s, j, b, d) <=> Leaves(r, j, b, d)
    BY <1>2, <1>3 DEF Leaves
  <1>5. n \in 0..n
    OBVIOUS
  <1>6. Kept(s, n, b, d) <=> Kept(r, n, b, d)
    BY <1>1, <1>4 DEF Kept
  <1>7. SurelyKept(s, n, b, d) <=> SurelyKept(r, n, b, d)
    BY <1>1, <1>3 DEF SurelyKept
  <1> QED
    BY <1>1, <1>2, <1>5, <1>6, <1>7 DEF MaybeKept

\* The insert itself: the bridge joins the ring it is put in and leaves the
\* one on record, as it was read, for another.
LEMMA InsertFits ==
  ASSUME NEW r, NEW n \in Nat, NEW b, NEW d, NEW old, NEW ring, NEW new, NEW sole,
         Fits(r, n, b, d, ring, sole),
         b \in new <=>
           \/ PutIn(r, n + 1, b, d)
           \/ b \in ring /\ ~(old = d /\ MustLeave(old, Asked(r, n + 1, b), Ring)),
         sole /\ Kept(r, n, b, d) => (RecordedBy(r, n, b, d) <=> old = d)
  PROVE  Fits(r, n + 1, b, d, new, sole)
  <1>1. n + 1 - 1 = n
    OBVIOUS
  <1>2. Leaves(r, n + 1, b, d) <=>
          RecordedBy(r, n, b, d) /\ MustLeave(d, Asked(r, n + 1, b), Ring)
    BY <1>1 DEF Leaves
  <1> QED
    BY <1>2, KeptNext DEF Fits

\* What is kept has been put there.
LEMMA KeptIsPlaced ==
  ASSUME NEW r, NEW n, NEW b, NEW d, Kept(r, n, b, d)
  PROVE  \E a \in 1..n : Places(r, a, b)
  BY DEF Kept, PutIn

-----------------------------------------------------------------------------
(* The start *)

LEMMA InitInv == Init => IInv
  <1> SUFFICES ASSUME Init PROVE IInv
    OBVIOUS
  <1> USE ReloadAssumption, AuthorityFilesAssumption, Generations DEF Init
  <1>1. TypeOK
    <2>1. /\ phase \in [Generation -> Phase]
          /\ turn \in [Generation -> Authority]
          /\ next \in [Generation -> 1..(Len(Dist) + 1)]
      BY DEF Phase, Loading, Authority
    <2>2. /\ read \in [Generation -> [File -> AnyContent \cup {Unread}]]
          /\ todo \in [Generation -> SUBSET Bridge]
          /\ held \in [Generation -> [Ring -> SUBSET Bridge]]
          /\ served \in [Distributor -> Generation]
      OBVIOUS
    <2>3. /\ db \in [Bridge -> Ring \cup {Unseen}]
          /\ cur \in [Generation -> Bridge \cup {NoBridge}]
          /\ orig \in [Generation -> Ring \cup {Unseen}]
          /\ queue \in Seq([dist : Distributor, gen : Generation])
      OBVIOUS
    <2>4. /\ world \in [File -> AnyContent] /\ updates \in 0..MaxUpdates
          /\ alone \in [Generation -> BOOLEAN]
      OBVIOUS
    <2> HIDE DEF Init
    <2> QED
      BY <2>1, <2>2, <2>3, <2>4 DEF TypeOK
  <1>2. \A g \in Generation :
          /\ HasRun(g) <=> g = 0
          /\ ~Complete(g) /\ phase[g] \in {"none", "status"}
    BY DEF HasRun, Complete
  <1>3. OrderInv
    BY <1>2 DEF OrderInv, Generation, Loading
  <1>4. ASSUME NEW g \in Generation PROVE LoadInv(g)
    <2>1. \A b \in Bridge : Inserted(g, b) = 0
      BY <1>2 DEF Inserted
    <2>2. \A a \in Authority, k \in {"status", "server"} :
            <<a, k>> \in File /\ ~(a < turn[g])
      BY DEF File, Authority
    <2>3. ReadInv(g)
      BY <1>2, <2>2 DEF ReadInv
    <2>4. TodoInv(g)
      BY DEF TodoInv
    <2>5. HeldInv(g)
      BY <2>1, NothingKept DEF HeldInv, Fits
    <2>6. PlacedInv(g) /\ RecordInv(g)
      BY <2>1, NothingKept DEF PlacedInv, RecordInv
    <2> QED
      BY <2>3, <2>4, <2>5, <2>6 DEF LoadInv
  <1>5. HandInv
    BY DEF HandInv, Complete
  <1>6. AloneInv
    BY <1>2 DEF AloneInv, Running, HasRun, Loading
  <1>7. QueueInv /\ StoreInv
    BY <1>2 DEF QueueInv, StoreInv
  <1>8. DueInv
    BY DEF DueInv, Due
  <1> QED
    BY <1>1, <1>3, <1>4, <1>5, <1>6, <1>7, <1>8 DEF IInv

-----------------------------------------------------------------------------
(* What does not change does no harm: one lemma for each part. *)

LEMMA PhaseKept ==
  ASSUME phase' = phase
  PROVE  /\ OrderInv => OrderInv'
         /\ alone' = alone => (AloneInv => AloneInv')
         /\ \A g \in Generation : (HasRun(g)' <=> HasRun(g)) /\ (Complete(g)' <=> Complete(g))
  BY DEF OrderInv, AloneInv, HasRun, Complete, Running, overlapped

\* A generation of which nothing changes, and whose table nobody writes while
\* it is alone.
LEMMA LoadKept ==
  ASSUME NEW g \in Generation, LoadInv(g),
         phase'[g] = phase[g], turn'[g] = turn[g], read'[g] = read[g],
         todo'[g] = todo[g], cur'[g] = cur[g], orig'[g] = orig[g], held'[g] = held[g],
         alone'[g] => alone[g],
         alone'[g] /\ phase[g] \in Loading => db' = db
  PROVE  LoadInv(g)'
  <1>1. Complete(g)' <=> Complete(g)
    BY DEF Complete
  <1>2. \A b \in Bridge : Inserted(g, b)' = Inserted(g, b)
    BY <1>1 DEF Inserted
  <1>3. ReadInv(g) => ReadInv(g)'
    BY <1>1 DEF ReadInv
  <1>4. TodoInv(g) => TodoInv(g)'
    BY DEF TodoInv
  <1>5. HeldInv(g) => HeldInv(g)'
    BY <1>2 DEF HeldInv, Fits
  <1>6. PlacedInv(g) => PlacedInv(g)'
    BY <1>2 DEF PlacedInv
  <1>7. RecordInv(g) => RecordInv(g)'
    BY <1>2 DEF RecordInv
  <1> QED
    BY <1>3, <1>4, <1>5, <1>6, <1>7 DEF LoadInv

LEMMA AllLoadKept ==
  ASSUME UNCHANGED <<phase, reading, inserting, alone, db>>,
         \A g \in Generation : LoadInv(g)
  PROVE  \A g \in Generation : LoadInv(g)'
  BY LoadKept DEF reading, inserting

\* A generation that has not begun has read and inserted nothing.
LEMMA WaitingKept ==
  ASSUME NEW g \in Generation, LoadInv(g), AuthorityFilesAssumption,
         phase[g] \in {"none", "queued"}, phase'[g] \in {"queued", "status"},
         turn'[g] = turn[g], read'[g] = read[g],
         todo'[g] = todo[g], cur'[g] = cur[g], orig'[g] = orig[g], held'[g] = held[g],
         alone'[g] => alone[g]
  PROVE  LoadInv(g)'
  <1>1. turn[g] = 1 /\ todo[g] = {} /\ cur[g] = NoBridge
    BY DEF LoadInv, ReadInv, TodoInv
  <1>2. ~Complete(g) /\ ~Complete(g)'
    BY DEF Complete
  <1>3. \A b \in Bridge : Inserted(g, b) = 0 /\ Inserted(g, b)' = 0
    BY <1>1, <1>2 DEF Inserted
  <1>4. ReadInv(g)'
    BY <1>1, <1>2 DEF LoadInv, ReadInv
  <1>5. TodoInv(g)'
    BY <1>1 DEF TodoInv
  <1>6. HeldInv(g)'
    BY <1>3 DEF LoadInv, HeldInv, Fits
  <1>7. PlacedInv(g)' /\ RecordInv(g)'
    BY <1>1, <1>3, NothingKept DEF PlacedInv, RecordInv
  <1> QED
    BY <1>4, <1>5, <1>6, <1>7 DEF LoadInv

LEMMA PublishingKept ==
  ASSUME UNCHANGED <<publishing, alone>>, QueueInv
  PROVE  /\ QueueInv'
         /\ \A d, g : Due(d, g)' <=> Due(d, g)
         /\ \A g : Handed(g)' = Handed(g)
  BY DEF publishing, QueueInv, Due, Handed, overlapped

LEMMA StoreKept ==
  ASSUME db' = db, alone' = alone, StoreInv,
         \A g \in Generation : Complete(g)' => Complete(g) /\ read'[g] = read[g],
         \A g \in Generation : HasRun(g) => HasRun(g)'
  PROVE  StoreInv'
  BY DEF StoreInv, overlapped

\* Whatever the phases, the queue is for the complete ones.
LEMMA HandKept ==
  ASSUME UNCHANGED publishing, HandInv, TypeOK,
         \A g \in Generation : Complete(g) => Complete(g)',
         \A g \in Generation : phase'[g] = "publish" => phase[g] = "publish" \/ next[g] = 1,
         \A g \in Generation : ~Complete(g)' => ~Complete(g)
  PROVE  HandInv'
  <1> USE DEF publishing
  <1>1. \A i \in DOMAIN queue : queue[i].gen \in Generation
    BY Queued DEF TypeOK
  <1>2. \A d \in Distributor : served[d] \in Generation
    BY DEF TypeOK
  <1>3. 1 =< Len(Dist)
    BY ReloadAssumption
  <1>4. \A g \in Generation :
          /\ phase'[g] = "publish" => next'[g] =< Len(Dist)
          /\ phase'[g] \notin {"publish", "done"} => next'[g] = 1
    BY <1>3 DEF HandInv, Complete
  <1> QED
    BY <1>1, <1>2, <1>4 DEF HandInv

LEMMA DueKept ==
  ASSUME UNCHANGED <<publishing, alone>>, DueInv, QueueInv,
         \A g \in Generation : phase'[g] = "publish" <=> phase[g] = "publish",
         \A g \in Generation : phase'[g] = "done" => phase[g] = "done"
  PROVE  DueInv'
  <1>1. (\A d, g : Due(d, g)' <=> Due(d, g)) /\ \A g : Handed(g)' = Handed(g)
    BY PublishingKept
  <1> QED
    BY <1>1 DEF DueInv, overlapped

\* A generation goes from one phase of load() to another.
LEMMA PhaseMoved ==
  ASSUME NEW g \in Generation, NEW p \in Loading, IInv,
         phase[g] \in Loading, phase' = [phase EXCEPT ![g] = p],
         alone' = alone, UNCHANGED publishing
  PROVE  /\ OrderInv' /\ AloneInv' /\ HandInv' /\ QueueInv' /\ DueInv'
         /\ \A h \in Generation :
              /\ HasRun(h)' <=> HasRun(h)
              /\ Complete(h)' <=> Complete(h)
              /\ phase'[h] = IF h = g THEN p ELSE phase[h]
         /\ phase' \in [Generation -> Phase]
         /\ HasRun(g) /\ ~Complete(g)
  <1> USE DEF IInv, Loading
  <1>1. \A h \in Generation :
          /\ HasRun(h)' <=> HasRun(h)
          /\ Complete(h)' <=> Complete(h)
          /\ phase'[h] = IF h = g THEN p ELSE phase[h]
    BY DEF HasRun, Complete, TypeOK
  <1>2. OrderInv'
    BY <1>1, Generations DEF OrderInv
  <1>3. AloneInv'
    BY <1>1 DEF AloneInv, Running, overlapped
  <1>4. HandInv'
    BY <1>1, HandKept DEF Complete
  <1>5. QueueInv' /\ DueInv'
    BY <1>1, PublishingKept, DueKept
  <1>6. phase' \in [Generation -> Phase] /\ HasRun(g) /\ ~Complete(g)
    BY DEF TypeOK, Phase, HasRun, Complete
  <1> QED
    BY <1>1, <1>2, <1>3, <1>4, <1>5, <1>6

-----------------------------------------------------------------------------
(* One lemma per action. *)

\* The files change: the reloads that have read them do not notice.
LEMMA UpdateStep ==
  ASSUME IInv, NEW f \in File, NEW content \in Content[f], Update(f, content)
  PROVE  IInv'
  <1> USE DEF Update, IInv
  <1>1. content \in AnyContent
    BY DEF AnyContent
  <1>2. TypeOK'
    BY <1>1, ReloadAssumption DEF TypeOK, files, reading, inserting, publishing
  <1>3. /\ UNCHANGED <<phase, reading, inserting, alone, db>>
        /\ UNCHANGED <<db, phase, alone>> /\ read' = read
    BY DEF reading
  <1>4. OrderInv' /\ AloneInv' /\ \A g \in Generation : LoadInv(g)'
    BY <1>3, PhaseKept, AllLoadKept
  <1>5. HandInv' /\ QueueInv' /\ DueInv' /\ StoreInv'
    BY <1>3, PhaseKept, HandKept, PublishingKept, DueKept, StoreKept
  <1> QED
    BY <1>2, <1>4, <1>5

\* A reload is put in the line of the thread pool.
LEMMA SIGHUPStep ==
  ASSUME IInv, NEW g \in Generation, SIGHUP(g)
  PROVE  IInv'
  <1> USE DEF SIGHUP, IInv
  <1>1. /\ phase[g] = "none" /\ phase' = [phase EXCEPT ![g] = "queued"]
        /\ UNCHANGED <<db, alone, turn, read, todo, cur, orig, held>>
        /\ UNCHANGED files /\ UNCHANGED publishing
    BY DEF reading, inserting
  <1>2. TypeOK'
    BY <1>1 DEF TypeOK, Phase, files, publishing
  <1>3. \A h \in Generation :
          /\ HasRun(h)' <=> HasRun(h)
          /\ Complete(h)' <=> Complete(h)
          /\ phase'[h] = phase[h] \/ (h = g /\ phase'[h] = "queued")
          /\ h # g => phase'[h] = phase[h]
    BY <1>1 DEF HasRun, Complete, TypeOK
  <1>4. OrderInv'
    <2>1. g # 0 /\ phase'[0] = phase[0]
      BY <1>1, <1>3, Generations DEF OrderInv, Loading
    <2>2. \A h \in 0..(g - 1) : phase[h] # "none"
      OBVIOUS
    <2>3. \A h \in Generation : h < g => h \in 0..(g - 1)
      BY ReloadAssumption DEF Generation
    <2> QED
      BY <1>1, <1>3, <2>1, <2>2, <2>3, Generations DEF OrderInv
  <1>5. ASSUME NEW h \in Generation PROVE LoadInv(h)'
    <2>1. CASE h = g
      BY <1>1, <1>3, <2>1, WaitingKept, AuthorityFilesAssumption DEF TypeOK
    <2>2. CASE h # g
      BY <1>1, <1>3, <2>2, LoadKept
    <2> QED
      BY <2>1, <2>2
  <1>6. QueueInv' /\ HandInv' /\ DueInv' /\ StoreInv'
    BY <1>1, <1>3, PublishingKept, HandKept, DueKept, StoreKept
  <1>7. AloneInv'
    BY <1>1, <1>3 DEF AloneInv, Running, overlapped, Loading
  <1> QED
    BY <1>2, <1>4, <1>5, <1>6, <1>7

\* A thread of the pool starts to load, after all the generations before it.
LEMMA StartStep ==
  ASSUME IInv, NEW g \in Generation, Start(g)
  PROVE  IInv'
  <1> USE DEF IInv
  <1>1. /\ phase[g] = "queued" /\ phase' = [phase EXCEPT ![g] = "status"]
        /\ alone' = NoLongerAlone(g)
        /\ UNCHANGED <<world, updates, db, turn, read, todo, cur, orig, held>>
        /\ UNCHANGED <<next, queue, served>>
    BY DEF Start, files, reading, inserting, publishing
  <1>2. \A h \in Generation :
          /\ alone'[h] <=> alone[h] /\ (Running = {} \/ h \notin Running \cup {g})
          /\ alone'[h] => alone[h]
    BY <1>1 DEF NoLongerAlone, TypeOK
  <1>3. TypeOK'
    <2>1. phase' \in [Generation -> Phase]
      BY <1>1 DEF TypeOK, Phase, Loading
    <2>2. alone' \in [Generation -> BOOLEAN]
      BY <1>1 DEF NoLongerAlone
    <2> QED
      BY <1>1, <2>1, <2>2 DEF TypeOK
  <1>4. \A h \in Generation :
          /\ HasRun(h)' <=> (HasRun(h) \/ h = g)
          /\ Complete(h)' <=> Complete(h)
          /\ phase'[h] = IF h = g THEN "status" ELSE phase[h]
    BY <1>1 DEF HasRun, Complete, TypeOK
  <1>5. ~HasRun(g) /\ \A h \in Generation : h > g => ~HasRun(h)
    BY <1>1, Generations DEF OrderInv, HasRun
  <1>6. \A h \in Generation : h < g => HasRun(h)
    BY <1>1, Generations DEF Start, OrderInv, HasRun, Generation
  <1>7. OrderInv'
    BY <1>1, <1>4, <1>6, Generations DEF OrderInv, HasRun, TypeOK, Loading
  <1>8. ASSUME NEW h \in Generation PROVE LoadInv(h)'
    <2>1. CASE h = g
      BY <1>1, <1>2, <1>4, <2>1, WaitingKept, AuthorityFilesAssumption
    <2>2. CASE h # g
      BY <1>1, <1>2, <1>4, <2>2, LoadKept
    <2> QED
      BY <2>1, <2>2
  <1>9. HandInv'
    BY <1>1, <1>4, HandKept DEF publishing
  <1>10. Running' = Running \cup {g}
    BY <1>1, <1>4 DEF Running, Loading
  <1>11. ~overlapped' => ~overlapped /\ Running = {}
    BY <1>2 DEF overlapped
  <1>12. AloneInv'
    <2>1. \A h, k \in Running' : alone'[h] => k = h
      <3>1. Running' \subseteq Generation
        BY DEF Running
      <3> QED
        BY <1>2, <1>10, <3>1
    <2> SUFFICES ASSUME ~overlapped', NEW k \in Running', NEW h \in Generation, h > k
                 PROVE  ~HasRun(h)'
      BY <2>1 DEF AloneInv
    <2>2. k = g
      BY <1>10, <1>11
    <2> QED
      BY <1>4, <1>5, <2>2, Generations
  <1>13. QueueInv' /\ DueInv'
    <2>1. UNCHANGED publishing
      BY <1>1 DEF publishing
    <2>2. CASE overlapped'
      BY <2>2 DEF QueueInv, DueInv
    <2>3. CASE ~overlapped'
      <3>1. alone' = alone
        <4>1. \A h \in Generation : alone[h] = TRUE /\ alone'[h] = TRUE
          BY <1>3, <1>11, <2>3 DEF overlapped, TypeOK
        <4> QED
          BY <1>3, <4>1 DEF TypeOK
      <3>2. \A h \in Generation : /\ phase'[h] = "publish" <=> phase[h] = "publish"
                                  /\ phase'[h] = "done" => phase[h] = "done"
        BY <1>1, <1>4
      <3> QED
        BY <2>1, <3>1, <3>2, PublishingKept, DueKept
    <2> QED
      BY <2>2, <2>3
  <1>14. StoreInv'
    BY <1>1, <1>4, <1>11 DEF StoreInv
  <1> QED
    BY <1>3, <1>7, <1>8, <1>9, <1>12, <1>13, <1>14

\* What reading one file changes: what the authorities before it say stays.
LEMMA ReadFile ==
  ASSUME TypeOK, NEW g \in Generation, NEW k \in {"status", "server"},
         read' = [read EXCEPT ![g][<<turn[g], k>>] = world[<<turn[g], k>>]]
  PROVE  /\ read' \in [Generation -> [File -> AnyContent \cup {Unread}]]
         /\ \A h \in Generation \ {g} : read'[h] = read[h]
         /\ read'[g][<<turn[g], k>>] # Unread
         /\ \A a \in Authority, l \in {"status", "server"} :
              (a # turn[g] \/ l # k) => read'[g][<<a, l>>] = read[g][<<a, l>>]
         /\ \A a \in 1..(turn[g] - 1), b \in Bridge :
              Asked(read'[g], a, b) = Asked(read[g], a, b)
  <1>1. turn[g] \in Authority /\ Authority \subseteq Int
    BY AuthorityFilesAssumption DEF TypeOK, Authority
  <1>2. <<turn[g], k>> \in File
    BY <1>1 DEF File
  <1>3. world[<<turn[g], k>>] \in AnyContent
    BY <1>2 DEF TypeOK
  <1>4. read' \in [Generation -> [File -> AnyContent \cup {Unread}]]
    BY <1>2, <1>3 DEF TypeOK
  <1>5. /\ read'[g] = [read[g] EXCEPT ![<<turn[g], k>>] = world[<<turn[g], k>>]]
        /\ read[g] \in [File -> AnyContent \cup {Unread}]
        /\ \A h \in Generation \ {g} : read'[h] = read[h]
    BY DEF TypeOK
  <1>6. read'[g][<<turn[g], k>>] # Unread
    BY <1>2, <1>3, <1>5, ReloadAssumption
  <1>7. ASSUME NEW a \in Authority, NEW l \in {"status", "server"}, a # turn[g] \/ l # k
        PROVE  read'[g][<<a, l>>] = read[g][<<a, l>>]
    <2>1. <<a, l>> \in File /\ <<a, l>> # <<turn[g], k>>
      BY <1>7 DEF File
    <2> QED
      BY <1>5, <2>1
  <1>8. ASSUME NEW a \in 1..(turn[g] - 1), NEW b \in Bridge
        PROVE  Asked(read'[g], a, b) = Asked(read[g], a, b)
    <2>1. a \in Authority /\ a # turn[g]
      BY <1>1, AuthorityFilesAssumption DEF Authority
    <2>2. /\ read'[g][<<a, "status">>] = read[g][<<a, "status">>]
          /\ read'[g][<<a, "server">>] = read[g][<<a, "server">>]
      BY <1>7, <2>1
    <2> QED
      BY <2>2 DEF Asked
  <1> QED
    BY <1>4, <1>5, <1>6, <1>7, <1>8

\* The networkstatus of the next authority is read.
LEMMA ReadStatusStep ==
  ASSUME IInv, NEW g \in Generation, ReadStatus(g)
  PROVE  IInv'
  <1> USE DEF IInv
  <1>1. /\ phase[g] = "status" /\ phase' = [phase EXCEPT ![g] = "server"]
        /\ read' = [read EXCEPT ![g][<<turn[g], "status">>] = world[<<turn[g], "status">>]]
        /\ UNCHANGED <<world, updates, db, turn, todo, cur, orig, held, alone>>
        /\ UNCHANGED publishing
    BY DEF ReadStatus, files, inserting
  <1>2. /\ OrderInv' /\ AloneInv' /\ HandInv' /\ QueueInv' /\ DueInv'
        /\ \A h \in Generation :
             /\ HasRun(h)' <=> HasRun(h)
             /\ Complete(h)' <=> Complete(h)
             /\ phase'[h] = IF h = g THEN "server" ELSE phase[h]
        /\ phase' \in [Generation -> Phase]
        /\ HasRun(g) /\ ~Complete(g)
    BY <1>1, PhaseMoved DEF Loading
  <1>3. /\ read' \in [Generation -> [File -> AnyContent \cup {Unread}]]
        /\ \A h \in Generation \ {g} : read'[h] = read[h]
        /\ read'[g][<<turn[g], "status">>] # Unread
        /\ \A a \in Authority, l \in {"status", "server"} :
             (a # turn[g] \/ l # "status") => read'[g][<<a, l>>] = read[g][<<a, l>>]
        /\ \A a \in 1..(turn[g] - 1), b \in Bridge :
             Asked(read'[g], a, b) = Asked(read[g], a, b)
    BY <1>1, ReadFile
  <1>4. TypeOK'
    BY <1>1, <1>2, <1>3 DEF TypeOK, publishing
  <1>5. turn[g] \in Authority /\ Authority \subseteq Int
    BY AuthorityFilesAssumption DEF TypeOK, Authority
  <1>6. PICK n \in Nat : n = turn[g] - 1
    BY <1>5 DEF Authority
  <1>7. ReadInv(g) /\ TodoInv(g) /\ HeldInv(g) /\ PlacedInv(g) /\ RecordInv(g)
    BY <1>1 DEF LoadInv
  <1>8. todo[g] = {} /\ cur[g] = NoBridge
    BY <1>1, <1>7 DEF TodoInv
  <1>9. \A b \in Bridge : Inserted(g, b) = n /\ Inserted(g, b)' = n
    BY <1>1, <1>2, <1>6 DEF Inserted
  <1>10. \A b \in Bridge : \A d :
           /\ RecordedBy(read'[g], n, b, d) <=> RecordedBy(read[g], n, b, d)
           /\ Kept(read'[g], n, b, d) <=> Kept(read[g], n, b, d)
           /\ SurelyKept(read'[g], n, b, d) <=> SurelyKept(read[g], n, b, d)
           /\ MaybeKept(read'[g], n, b, d) <=> MaybeKept(read[g], n, b, d)
           /\ (\E a \in 1..n : Places(read'[g], a, b))
                <=> (\E a \in 1..n : Places(read[g], a, b))
    BY <1>3, <1>6, SameAsked
  <1>11. ReadInv(g)'
    <2>1. ~Complete(g)' /\ phase'[g] = "server" /\ turn'[g] = turn[g]
      BY <1>1, <1>2
    <2>2. ASSUME NEW a \in Authority
          PROVE  /\ read'[g][<<a, "status">>] # Unread <=> a < turn[g] \/ a = turn[g]
                 /\ read'[g][<<a, "server">>] # Unread <=> a < turn[g]
      <3>1. CASE a = turn[g]
        BY <1>1, <1>2, <1>3, <1>5, <1>7, <3>1 DEF ReadInv
      <3>2. CASE a # turn[g]
        BY <1>1, <1>2, <1>3, <1>5, <1>7, <3>2 DEF ReadInv
      <3> QED
        BY <3>1, <3>2
    <2> QED
      BY <2>1, <2>2 DEF ReadInv
  <1>12. TodoInv(g)'
    BY <1>1, <1>8 DEF TodoInv
  <1>13. HeldInv(g)'
    BY <1>1, <1>7, <1>9, <1>10 DEF HeldInv, Fits
  <1>14. PlacedInv(g)'
    BY <1>7, <1>9, <1>10 DEF PlacedInv
  <1>15. RecordInv(g)'
    BY <1>1, <1>7, <1>8, <1>9, <1>10 DEF RecordInv, Loading
  <1>16. ASSUME NEW h \in Generation PROVE LoadInv(h)'
    <2>1. CASE h # g
      BY <1>1, <1>2, <1>3, <2>1, LoadKept
    <2> QED
      BY <1>11, <1>12, <1>13, <1>14, <1>15, <2>1 DEF LoadInv
  <1>17. StoreInv'
    BY <1>1, <1>2, <1>3, StoreKept
  <1> QED
    BY <1>2, <1>4, <1>16, <1>17

\* Its server descriptors are read: the bridges it does not list are done with.
LEMMA ReadServersStep ==
  ASSUME IInv, NEW g \in Generation, ReadServers(g)
  PROVE  IInv'
  <1> USE DEF IInv
  <1> DEFINE listed == {b \in Bridge : Asked(read'[g], turn[g], b) # Gone}
  <1>1. /\ phase[g] = "server" /\ phase' = [phase EXCEPT ![g] = "insert"]
        /\ read' = [read EXCEPT ![g][<<turn[g], "server">>] = world[<<turn[g], "server">>]]
        /\ todo' = [todo EXCEPT ![g] = listed]
        /\ UNCHANGED <<world, updates, db, turn, cur, orig, held, alone>>
        /\ UNCHANGED publishing
    BY DEF ReadServers, files
  <1>2. /\ OrderInv' /\ AloneInv' /\ HandInv' /\ QueueInv' /\ DueInv'
        /\ \A h \in Generation :
             /\ HasRun(h)' <=> HasRun(h)
             /\ Complete(h)' <=> Complete(h)
             /\ phase'[h] = IF h = g THEN "insert" ELSE phase[h]
        /\ phase' \in [Generation -> Phase]
        /\ HasRun(g) /\ ~Complete(g)
    BY <1>1, PhaseMoved DEF Loading
  <1>3. /\ read' \in [Generation -> [File -> AnyContent \cup {Unread}]]
        /\ \A h \in Generation \ {g} : read'[h] = read[h]
        /\ read'[g][<<turn[g], "server">>] # Unread
        /\ \A a \in Authority, l \in {"status", "server"} :
             (a # turn[g] \/ l # "server") => read'[g][<<a, l>>] = read[g][<<a, l>>]
        /\ \A a \in 1..(turn[g] - 1), b \in Bridge :
             Asked(read'[g], a, b) = Asked(read[g], a, b)
    BY <1>1, ReadFile
  <1>4. /\ todo' \in [Generation -> SUBSET Bridge] /\ todo'[g] = listed
        /\ \A h \in Generation \ {g} : todo'[h] = todo[h]
    BY <1>1 DEF TypeOK
  <1>5. TypeOK'
    BY <1>1, <1>2, <1>3, <1>4 DEF TypeOK, publishing
  <1>6. turn[g] \in Authority /\ Authority \subseteq Int
    BY AuthorityFilesAssumption DEF TypeOK, Authority
  <1>7. PICK n \in Nat : n = turn[g] - 1 /\ n + 1 = turn[g]
    BY <1>6 DEF Authority
  <1>8. ReadInv(g) /\ TodoInv(g) /\ HeldInv(g) /\ PlacedInv(g) /\ RecordInv(g)
    BY <1>1 DEF LoadInv
  <1>9. todo[g] = {} /\ cur[g] = NoBridge
    BY <1>1, <1>8 DEF TodoInv
  <1>10. \A b \in Bridge :
           /\ Inserted(g, b) = n
           /\ Inserted(g, b)' = IF b \in listed THEN n ELSE n + 1
    BY <1>1, <1>2, <1>4, <1>7 DEF Inserted
  <1>11. ASSUME NEW b \in Bridge, NEW d
         PROVE  LET m == Inserted(g, b)' IN
                /\ RecordedBy(read'[g], m, b, d) <=> RecordedBy(read[g], n, b, d)
                /\ Kept(read'[g], m, b, d) <=> Kept(read[g], n, b, d)
                /\ SurelyKept(read'[g], m, b, d) <=> SurelyKept(read[g], n, b, d)
                /\ MaybeKept(read'[g], m, b, d) <=> MaybeKept(read[g], n, b, d)
                /\ (\E a \in 1..m : Places(read'[g], a, b))
                     <=> (\E a \in 1..n : Places(read[g], a, b))
    <2>1. /\ RecordedBy(read'[g], n, b, d) <=> RecordedBy(read[g], n, b, d)
          /\ Kept(read'[g], n, b, d) <=> Kept(read[g], n, b, d)
          /\ SurelyKept(read'[g], n, b, d) <=> SurelyKept(read[g], n, b, d)
          /\ MaybeKept(read'[g], n, b, d) <=> MaybeKept(read[g], n, b, d)
          /\ (\E a \in 1..n : Places(read'[g], a, b))
               <=> (\E a \in 1..n : Places(read[g], a, b))
      <3>1. \A j \in 1..n : Asked(read'[g], j, b) = Asked(read[g], j, b)
        BY <1>3, <1>7
      <3> QED
        BY <3>1, SameAsked
    <2>2. CASE b \in listed
      BY <1>10, <2>1, <2>2
    <2>3. CASE b \notin listed
      <3>1. Asked(read'[g], n + 1, b) = Gone /\ Inserted(g, b)' = n + 1
        BY <1>7, <1>10, <2>3
      <3> QED
        BY <2>1, <3>1, GoneNext
    <2> QED
      BY <2>2, <2>3
  <1>12. ReadInv(g)'
    <2>1. ~Complete(g)' /\ phase'[g] = "insert" /\ turn'[g] = turn[g]
      BY <1>1, <1>2
    <2>2. ASSUME NEW a \in Authority
          PROVE  /\ read'[g][<<a, "status">>] # Unread <=> a < turn[g] \/ a = turn[g]
                 /\ read'[g][<<a, "server">>] # Unread <=> a < turn[g] \/ a = turn[g]
      <3>1. CASE a = turn[g]
        BY <1>1, <1>2, <1>3, <1>6, <1>8, <3>1 DEF ReadInv
      <3>2. CASE a # turn[g]
        BY <1>1, <1>2, <1>3, <1>6, <1>8, <3>2 DEF ReadInv
      <3> QED
        BY <3>1, <3>2
    <2> QED
      BY <2>1, <2>2 DEF ReadInv
  <1>13. TodoInv(g)'
    BY <1>1, <1>2, <1>4, <1>9 DEF TodoInv
  <1>14. HeldInv(g)'
    BY <1>1, <1>8, <1>10, <1>11 DEF HeldInv, Fits
  <1>15. PlacedInv(g)'
    BY <1>8, <1>10, <1>11 DEF PlacedInv
  <1>16. RecordInv(g)'
    <2>1. \A b \in Bridge, r \in Ring :
            RecordedBy(read'[g], Inserted(g, b)', b, r)
              <=> RecordedBy(read[g], Inserted(g, b), b, r)
      BY <1>10, <1>11
    <2>2. cur'[g] = NoBridge /\ db' = db /\ alone'[g] = alone[g] /\ phase[g] \in Loading
      BY <1>1, <1>9 DEF Loading
    <2> QED
      BY <1>8, <2>1, <2>2 DEF RecordInv
  <1>17. ASSUME NEW h \in Generation PROVE LoadInv(h)'
    <2>1. CASE h # g
      BY <1>1, <1>2, <1>3, <1>4, <2>1, LoadKept
    <2> QED
      BY <1>12, <1>13, <1>14, <1>15, <1>16, <2>1 DEF LoadInv
  <1>18. StoreInv'
    BY <1>1, <1>2, <1>3, StoreKept
  <1> QED
    BY <1>2, <1>5, <1>17, <1>18

\* The first session of an insert only reads.
LEMMA ReadRecordStep ==
  ASSUME IInv, NEW g \in Generation, NEW b \in Bridge, ReadRecord(g, b)
  PROVE  IInv'
  <1> USE DEF IInv
  <1>1. /\ phase[g] = "insert" /\ b \in todo[g]
        /\ cur' = [cur EXCEPT ![g] = b] /\ orig' = [orig EXCEPT ![g] = db[b]]
        /\ UNCHANGED <<world, updates, db, phase, turn, read, todo, held, alone>>
        /\ UNCHANGED publishing
    BY DEF ReadRecord, files, reading
  <1>2. TypeOK'
    BY <1>1 DEF TypeOK, publishing
  <1>3. cur'[g] = b /\ orig'[g] = db[b]
    BY <1>1 DEF TypeOK
  <1>4. ReadInv(g) /\ TodoInv(g) /\ HeldInv(g) /\ PlacedInv(g) /\ RecordInv(g)
    BY <1>1 DEF LoadInv
  <1>5. (Complete(g)' <=> Complete(g)) /\ \A c \in Bridge : Inserted(g, c)' = Inserted(g, c)
    BY <1>1 DEF Complete, Inserted
  <1>6. ReadInv(g)'
    BY <1>1, <1>4, <1>5 DEF ReadInv
  <1>7. TodoInv(g)'
    BY <1>1, <1>3, <1>4 DEF TodoInv
  <1>8. HeldInv(g)' /\ PlacedInv(g)'
    BY <1>1, <1>4, <1>5 DEF HeldInv, PlacedInv, Fits
  <1>9. RecordInv(g)'
    BY <1>1, <1>3, <1>4, <1>5 DEF RecordInv
  <1>10. ASSUME NEW h \in Generation PROVE LoadInv(h)'
    <2>1. CASE h # g
      BY <1>1, <2>1, LoadKept DEF TypeOK
    <2> QED
      BY <1>6, <1>7, <1>8, <1>9, <2>1 DEF LoadInv
  <1>11. OrderInv' /\ AloneInv' /\ HandInv' /\ QueueInv' /\ DueInv' /\ StoreInv'
    BY <1>1, PhaseKept, HandKept, PublishingKept, DueKept, StoreKept
  <1> QED
    BY <1>2, <1>10, <1>11

\* What Assign does to the rings of its generation and to the table.
LEMMA AssignEffect ==
  ASSUME TypeOK, NEW g \in Generation, Assign(g), NEW b \in Bridge, b = cur[g],
         Asked(read[g], turn[g], b) # Gone
  PROVE  /\ \A d \in Ring :
              /\ held'[g][d] \in SUBSET Bridge
              /\ b \in held'[g][d] <=>
                   \/ PutIn(read[g], turn[g], b, d)
                   \/ /\ b \in held[g][d]
                      /\ ~(orig[g] = d
                           /\ MustLeave(orig[g], Asked(read[g], turn[g], b), Ring))
              /\ \A c \in Bridge \ {b} : c \in held'[g][d] <=> c \in held[g][d]
         /\ \A h \in Generation \ {g} : held'[h] = held[h]
         /\ held' \in [Generation -> [Ring -> SUBSET Bridge]]
         /\ db' \in [Bridge -> Ring \cup {Unseen}]
         /\ \A c \in Bridge \ {b} : db'[c] = db[c]
         /\ ~Places(read[g], turn[g], b) => db' = db
         /\ \A d \in Ring : PutIn(read[g], turn[g], b, d) => db'[b] = d
         /\ Places(read[g], turn[g], b) => \E d \in Ring : PutIn(read[g], turn[g], b, d)
  <1> DEFINE request == Asked(read[g], turn[g], b)
             method == Method(request, Ring, HashPlace[b])
             without == IF MustLeave(orig[g], request, Ring)
                          THEN [held[g] EXCEPT ![orig[g]] = @ \ {b}]
                          ELSE held[g]
  <1>1. IF request = "none"
          THEN held' = [held EXCEPT ![g] = without] /\ db' = db
          ELSE /\ held' = [held EXCEPT ![g] = [without EXCEPT ![method] = @ \cup {b}]]
               /\ db' = [db EXCEPT ![b] = method]
    BY DEF Assign, Record
  <1>2. method \in Ring
    BY AuthorityFilesAssumption DEF Method
  <1>3. /\ held[g] \in [Ring -> SUBSET Bridge] /\ without \in [Ring -> SUBSET Bridge]
        /\ \A d \in Ring, c \in Bridge :
             c \in without[d] <=>
               c \in held[g][d] /\ ~(c = b /\ orig[g] = d /\ MustLeave(orig[g], request, Ring))
    <2>1. held[g] \in [Ring -> SUBSET Bridge] /\ orig[g] \in Ring \cup {Unseen}
      BY DEF TypeOK
    <2>2. CASE MustLeave(orig[g], request, Ring)
      <3>1. orig[g] \in Ring
        BY <2>1, <2>2 DEF MustLeave
      <3> QED
        BY <2>1, <2>2, <3>1
    <2> QED
      BY <2>1, <2>2
  <1>4. /\ Places(read[g], turn[g], b) <=> request # "none"
        /\ \A d : PutIn(read[g], turn[g], b, d) <=> request # "none" /\ method = d
    BY DEF Places, PutIn
  <1> HIDE DEF without, method, request
  <1>5. \A h \in Generation \ {g} : held'[h] = held[h]
    BY <1>1 DEF TypeOK
  <1>6. CASE request = "none"
    <2>1. held'[g] = without /\ db' = db /\ held' = [held EXCEPT ![g] = without]
      BY <1>1, <1>6 DEF TypeOK
    <2> QED
      BY <1>3, <1>4, <1>5, <1>6, <2>1 DEF request, TypeOK
  <1>7. CASE request # "none"
    <2>1. PICK new : new = [without EXCEPT ![method] = @ \cup {b}]
      OBVIOUS
    <2>2. held'[g] = new /\ held' = [held EXCEPT ![g] = new]
      BY <1>1, <1>7, <2>1 DEF TypeOK
    <2>3. /\ new \in [Ring -> SUBSET Bridge]
          /\ \A d \in Ring, c \in Bridge :
               c \in new[d] <=> c \in without[d] \/ (c = b /\ d = method)
      BY <1>2, <1>3, <2>1
    <2>4. db'[b] = method /\ \A c \in Bridge \ {b} : db'[c] = db[c]
      BY <1>1, <1>7 DEF TypeOK
    <2>5. db' \in [Bridge -> Ring \cup {Unseen}]
      BY <1>1, <1>2, <1>7 DEF TypeOK
    <2>6. held' \in [Generation -> [Ring -> SUBSET Bridge]]
      BY <2>2, <2>3 DEF TypeOK
    <2> QED
      BY <1>2, <1>3, <1>4, <1>5, <1>7, <2>2, <2>3, <2>4, <2>5, <2>6 DEF request
  <1> QED
    BY <1>6, <1>7

\* The second session: the bridge leaves a ring, joins one, and the record
\* names it.
LEMMA AssignStep ==
  ASSUME IInv, NEW g \in Generation, Assign(g)
  PROVE  IInv'
  <1> USE DEF IInv
  <1>1. PICK b : b = cur[g]
    OBVIOUS
  <1>2. ReadInv(g) /\ TodoInv(g) /\ HeldInv(g) /\ PlacedInv(g) /\ RecordInv(g)
    BY DEF Assign, LoadInv
  <1>3. /\ b \in todo[g] /\ b \in Bridge /\ Asked(read[g], turn[g], b) # Gone
    <2>1. b \in todo[g]
      BY <1>1, <1>2 DEF Assign, TodoInv
    <2> QED
      BY <1>2, <2>1 DEF TodoInv, TypeOK
  <1>4. /\ phase[g] = "insert"
        /\ todo' = [todo EXCEPT ![g] = @ \ {b}]
        /\ cur' = [cur EXCEPT ![g] = NoBridge]
        /\ orig' = [orig EXCEPT ![g] = Unseen]
        /\ UNCHANGED <<world, updates, phase, turn, read, alone>> /\ UNCHANGED publishing
    BY <1>1 DEF Assign, files, reading
  <1>5. PICK n \in Nat : n = turn[g] - 1 /\ n + 1 = turn[g]
    <2>1. turn[g] \in Int /\ turn[g] >= 1
      BY AuthorityFilesAssumption DEF TypeOK, Authority
    <2> QED
      BY <2>1
  <1>6. /\ \A d \in Ring :
             /\ held'[g][d] \in SUBSET Bridge
             /\ b \in held'[g][d] <=>
                  \/ PutIn(read[g], n + 1, b, d)
                  \/ /\ b \in held[g][d]
                     /\ ~(orig[g] = d
                          /\ MustLeave(orig[g], Asked(read[g], n + 1, b), Ring))
             /\ \A c \in Bridge \ {b} : c \in held'[g][d] <=> c \in held[g][d]
        /\ \A h \in Generation \ {g} : held'[h] = held[h]
        /\ held' \in [Generation -> [Ring -> SUBSET Bridge]]
        /\ db' \in [Bridge -> Ring \cup {Unseen}]
        /\ \A c \in Bridge \ {b} : db'[c] = db[c]
        /\ ~Places(read[g], n + 1, b) => db' = db
        /\ \A d \in Ring : PutIn(read[g], n + 1, b, d) => db'[b] = d
        /\ Places(read[g], n + 1, b) => \E d \in Ring : PutIn(read[g], n + 1, b, d)
    BY <1>1, <1>3, <1>5, AssignEffect
  <1>7. /\ todo'[g] = todo[g] \ {b} /\ cur'[g] = NoBridge /\ read'[g] = read[g]
        /\ alone'[g] = alone[g] /\ phase'[g] = "insert" /\ turn'[g] = turn[g]
        /\ \A h \in Generation \ {g} :
             todo'[h] = todo[h] /\ cur'[h] = cur[h] /\ orig'[h] = orig[h]
    BY <1>4 DEF TypeOK
  <1>8. TypeOK'
    BY <1>4, <1>6 DEF TypeOK, publishing
  <1>9. \A h \in Generation : (HasRun(h)' <=> HasRun(h)) /\ (Complete(h)' <=> Complete(h))
    BY <1>4, PhaseKept
  <1>10. /\ Inserted(g, b) = n /\ Inserted(g, b)' = n + 1
         /\ \A c \in Bridge \ {b} : Inserted(g, c)' = Inserted(g, c)
    BY <1>3, <1>4, <1>5, <1>7, <1>9 DEF Inserted, Complete
  \* While g is alone the record is of its last insert.
  <1>11. ASSUME alone[g]
         PROVE  /\ orig[g] = db[b]
                /\ \A d \in Ring : RecordedBy(read[g], n, b, d) => orig[g] = d
                /\ \A d \in Ring : Kept(read[g], n, b, d) =>
                     (RecordedBy(read[g], n, b, d) <=> orig[g] = d)
    <2>1. orig[g] = db[b] /\ \A d \in Ring : RecordedBy(read[g], n, b, d) => orig[g] = d
      <3>1. cur[g] # NoBridge /\ phase[g] \in Loading
        BY <1>4 DEF Assign, Loading
      <3> QED
        BY <1>1, <1>2, <1>3, <1>10, <1>11, <3>1 DEF RecordInv
    <2>2. ASSUME NEW d \in Ring, Kept(read[g], n, b, d)
          PROVE  RecordedBy(read[g], n, b, d) <=> orig[g] = d
      <3>1. \E a \in 1..n : Places(read[g], a, b)
        BY <2>2, KeptIsPlaced
      <3>2. PICK r \in Ring : RecordedBy(read[g], n, b, r)
        BY <1>2, <1>3, <1>10, <3>1 DEF PlacedInv
      <3> QED
        BY <2>1, <3>2
    <2> QED
      BY <2>1, <2>2
  <1>12. ReadInv(g)' /\ TodoInv(g)'
    <2>1. phase'[g] = phase[g] /\ (Complete(g)' <=> Complete(g))
      BY <1>4, <1>9
    <2>2. ReadInv(g)'
      BY <1>2, <1>7, <2>1 DEF ReadInv
    <2>3. TodoInv(g)'
      BY <1>2, <1>4, <1>7 DEF TodoInv
    <2> QED
      BY <2>2, <2>3
  <1>13. HeldInv(g)'
    <2>1. ASSUME NEW c \in Bridge, NEW d \in Ring
          PROVE  Fits(read[g], Inserted(g, c)', c, d, held'[g][d], alone[g])
      <3>1. Fits(read[g], Inserted(g, c), c, d, held[g][d], alone[g])
        BY <1>2 DEF HeldInv
      <3>2. CASE c # b
        BY <1>6, <1>10, <3>1, <3>2 DEF Fits
      <3>3. CASE c = b
        <4>1. Fits(read[g], n, b, d, held[g][d], alone[g])
          BY <1>10, <3>1, <3>3
        <4>2. b \in held'[g][d] <=>
                \/ PutIn(read[g], n + 1, b, d)
                \/ /\ b \in held[g][d]
                   /\ ~(orig[g] = d
                        /\ MustLeave(orig[g], Asked(read[g], n + 1, b), Ring))
          BY <1>6
        <4>3. alone[g] /\ Kept(read[g], n, b, d) =>
                (RecordedBy(read[g], n, b, d) <=> orig[g] = d)
          BY <1>11
        <4>4. Fits(read[g], n + 1, b, d, held'[g][d], alone[g])
          BY <4>1, <4>2, <4>3, InsertFits
        <4> QED
          BY <1>10, <3>3, <4>4
      <3> QED
        BY <3>2, <3>3
    <2> QED
      BY <1>7, <2>1 DEF HeldInv
  <1>14. PlacedInv(g)'
    <2>1. ASSUME NEW c \in Bridge, \E a \in 1..Inserted(g, c)' : Places(read[g], a, c)
          PROVE  \E r \in Ring : RecordedBy(read[g], Inserted(g, c)', c, r)
      <3>1. CASE c # b
        BY <1>2, <1>10, <2>1, <3>1 DEF PlacedInv
      <3>2. CASE c = b /\ Places(read[g], n + 1, b)
        BY <1>6, <1>10, <3>2, RecordedNext
      <3>3. CASE c = b /\ ~Places(read[g], n + 1, b)
        <4>1. \E a \in 1..n : Places(read[g], a, b)
          <5>1. 1..(n + 1) = 1..n \cup {n + 1}
            OBVIOUS
          <5> QED
            BY <1>10, <2>1, <3>3, <5>1
        <4>2. PICK r \in Ring : RecordedBy(read[g], n, b, r)
          BY <1>2, <1>3, <1>10, <4>1 DEF PlacedInv
        <4>3. RecordedBy(read[g], n + 1, b, r)
          BY <3>3, <4>2, RecordedNext
        <4> QED
          BY <1>10, <3>3, <4>3
      <3> QED
        BY <3>1, <3>2, <3>3
    <2> QED
      BY <1>7, <2>1 DEF PlacedInv
  <1>15. RecordInv(g)'
    <2> SUFFICES ASSUME alone[g], NEW c \in Bridge, NEW r \in Ring,
                        RecordedBy(read[g], Inserted(g, c)', c, r)
                 PROVE  db'[c] = r
      BY <1>7 DEF RecordInv
    <2>1. CASE c # b
      <3>1. db'[c] = db[c] /\ RecordedBy(read[g], Inserted(g, c), c, r)
        BY <1>6, <1>10, <2>1
      <3> QED
        BY <1>2, <1>4, <3>1 DEF RecordInv, Loading
    <2>2. CASE c = b /\ Places(read[g], n + 1, b)
      <3>1. RecordedBy(read[g], n + 1, b, r)
        BY <1>10, <2>2
      <3>2. PutIn(read[g], n + 1, b, r)
        BY <2>2, <3>1, RecordedNext
      <3> QED
        BY <1>6, <2>2, <3>2
    <2>3. CASE c = b /\ ~Places(read[g], n + 1, b)
      <3>1. RecordedBy(read[g], n + 1, b, r)
        BY <1>10, <2>3
      <3>2. RecordedBy(read[g], n, b, r)
        BY <2>3, <3>1, RecordedNext
      <3> QED
        BY <1>6, <1>11, <2>3, <3>2
    <2> QED
      BY <2>1, <2>2, <2>3
  <1>16. ASSUME NEW h \in Generation PROVE LoadInv(h)'
    <2>1. CASE h # g
      <3>1. alone[h] => ~(phase[h] \in Loading)
        BY <1>4, <2>1 DEF AloneInv, Running, Loading
      <3> QED
        BY <1>4, <1>6, <1>7, <2>1, <3>1, LoadKept
    <2> QED
      BY <1>12, <1>13, <1>14, <1>15, <2>1 DEF LoadInv
  <1>17. StoreInv'
    <2> SUFFICES ASSUME ~overlapped, NEW h \in Generation, Complete(h)
                 PROVE  \E k \in Generation : k > h /\ HasRun(k)
      BY <1>4, <1>9 DEF StoreInv, overlapped
    <2>1. g \in Running /\ HasRun(g) /\ h # g
      BY <1>4 DEF Running, HasRun, Complete, Loading
    <2>2. ~(h > g)
      BY <2>1 DEF AloneInv, Complete, HasRun
    <2> QED
      BY <2>1, <2>2, Generations
  <1>18. OrderInv' /\ AloneInv' /\ HandInv' /\ QueueInv' /\ DueInv'
    BY <1>4, PhaseKept, HandKept, PublishingKept, DueKept
  <1> QED
    BY <1>8, <1>16, <1>17, <1>18

\* The bridges of one authority are all inserted.
LEMMA NextAuthorityStep ==
  ASSUME IInv, NEW g \in Generation, NextAuthority(g)
  PROVE  IInv'
  <1> USE DEF IInv
  <1>1. /\ phase[g] = "insert" /\ phase' = [phase EXCEPT ![g] = "status"]
        /\ todo[g] = {} /\ turn[g] < Authorities /\ turn' = [turn EXCEPT ![g] = @ + 1]
        /\ UNCHANGED <<world, updates, db, read, todo, cur, orig, held, alone>>
        /\ UNCHANGED publishing
    BY DEF NextAuthority, files, inserting
  <1>2. /\ OrderInv' /\ AloneInv' /\ HandInv' /\ QueueInv' /\ DueInv'
        /\ \A h \in Generation :
             /\ HasRun(h)' <=> HasRun(h)
             /\ Complete(h)' <=> Complete(h)
             /\ phase'[h] = IF h = g THEN "status" ELSE phase[h]
        /\ phase' \in [Generation -> Phase]
        /\ HasRun(g) /\ ~Complete(g)
    BY <1>1, PhaseMoved DEF Loading
  <1>3. turn[g] \in Nat /\ turn[g] >= 1 /\ Authorities \in Nat
    BY AuthorityFilesAssumption DEF TypeOK, Authority
  <1>4. /\ turn'[g] = turn[g] + 1 /\ turn'[g] \in Authority
        /\ \A h \in Generation \ {g} : turn'[h] = turn[h]
    BY <1>1, <1>3 DEF TypeOK, Authority
  <1>5. TypeOK'
    BY <1>1, <1>2, <1>4 DEF TypeOK, publishing
  <1>6. ReadInv(g) /\ TodoInv(g) /\ HeldInv(g) /\ PlacedInv(g) /\ RecordInv(g)
    BY <1>1 DEF LoadInv
  <1>7. \A b \in Bridge : Inserted(g, b) = turn[g] /\ Inserted(g, b)' = turn[g]
    BY <1>1, <1>2, <1>3, <1>4 DEF Inserted
  <1>8. ReadInv(g)'
    <2>1. ~Complete(g)' /\ phase'[g] = "status"
      BY <1>2
    <2>2. \A a \in Authority : a < turn'[g] <=> a < turn[g] \/ a = turn[g]
      BY <1>3, <1>4 DEF Authority
    <2>3. \A a \in Authority :
            /\ read[g][<<a, "status">>] # Unread <=> a < turn[g] \/ a = turn[g]
            /\ read[g][<<a, "server">>] # Unread <=> a < turn[g] \/ a = turn[g]
      BY <1>1, <1>6 DEF ReadInv
    <2> QED
      BY <1>1, <2>1, <2>2, <2>3 DEF ReadInv
  <1>9. TodoInv(g)'
    BY <1>1, <1>6 DEF TodoInv
  <1>10. HeldInv(g)' /\ PlacedInv(g)'
    BY <1>1, <1>6, <1>7 DEF HeldInv, PlacedInv
  <1>11. RecordInv(g)'
    BY <1>1, <1>6, <1>7 DEF RecordInv, Loading
  <1>12. ASSUME NEW h \in Generation PROVE LoadInv(h)'
    <2>1. CASE h # g
      BY <1>1, <1>2, <1>4, <2>1, LoadKept
    <2> QED
      BY <1>8, <1>9, <1>10, <1>11, <2>1 DEF LoadInv
  <1>13. StoreInv'
    BY <1>1, <1>2, StoreKept
  <1> QED
    BY <1>2, <1>5, <1>12, <1>13

\* Everything is inserted: what has been placed is all there is.
LEMMA FinishLoadStep ==
  ASSUME IInv, NEW g \in Generation, FinishLoad(g)
  PROVE  IInv'
  <1> USE DEF IInv
  <1>1. /\ phase[g] = "insert" /\ todo[g] = {} /\ turn[g] = Authorities
        /\ phase' = [phase EXCEPT ![g] = IF g = 0 THEN "done" ELSE "publish"]
        /\ UNCHANGED <<world, updates, db, turn, read, todo, cur, orig, held, alone>>
        /\ UNCHANGED publishing
    BY DEF FinishLoad, files, reading, inserting
  <1>2. \A h \in Generation :
          /\ HasRun(h)' <=> HasRun(h)
          /\ Complete(h)' <=> (Complete(h) \/ h = g)
          /\ phase'[h] = IF h = g THEN IF g = 0 THEN "done" ELSE "publish" ELSE phase[h]
    BY <1>1 DEF HasRun, Complete, TypeOK
  <1>3. TypeOK'
    BY <1>1 DEF TypeOK, Phase, publishing
  <1>4. OrderInv'
    BY <1>1, <1>2, Generations DEF OrderInv
  <1>5. ReadInv(g) /\ TodoInv(g) /\ HeldInv(g) /\ PlacedInv(g) /\ RecordInv(g)
    BY <1>1 DEF LoadInv
  <1>6. \A b \in Bridge : Inserted(g, b) = turn[g] /\ Inserted(g, b)' = turn[g]
    BY <1>1, <1>2 DEF Inserted
  <1>7. ASSUME NEW h \in Generation PROVE LoadInv(h)'
    <2>1. CASE h # g
      BY <1>1, <1>2, <2>1, LoadKept
    <2>2. CASE h = g
      <3>1. Complete(g)' /\ phase'[g] \notin Loading /\ phase'[g] \notin {"none", "queued", "insert"}
        BY <1>2 DEF Loading
      <3>2. ReadInv(g)'
        BY <1>1, <1>5, <3>1 DEF ReadInv
      <3>3. TodoInv(g)' /\ RecordInv(g)'
        BY <1>1, <1>5, <3>1 DEF TodoInv, RecordInv
      <3>4. HeldInv(g)' /\ PlacedInv(g)'
        BY <1>1, <1>5, <1>6 DEF HeldInv, PlacedInv
      <3> QED
        BY <2>2, <3>2, <3>3, <3>4 DEF LoadInv
    <2> QED
      BY <2>1, <2>2
  <1>8. next[g] = 1
    BY <1>1 DEF HandInv
  <1>9. HandInv' /\ QueueInv'
    BY <1>1, <1>2, <1>8, HandKept, PublishingKept
  <1>10. AloneInv'
    BY <1>1, <1>2 DEF AloneInv, Running, overlapped, Loading
  <1>11. StoreInv'
    <2> SUFFICES ASSUME ~overlapped, NEW h \in Generation, Complete(h)'
                 PROVE  \/ \A b \in Bridge, r \in Ring :
                             RecordedBy(read[h], Authorities, b, r) => db[b] = r
                        \/ \E k \in Generation : k > h /\ HasRun(k)
      BY <1>1, <1>2 DEF StoreInv, overlapped
    <2>1. CASE h # g
      BY <1>2, <2>1 DEF StoreInv
    <2>2. CASE h = g
      <3>1. alone[g] /\ phase[g] \in Loading
        BY <1>1 DEF overlapped, Loading
      <3> QED
        BY <1>1, <1>5, <1>6, <2>2, <3>1 DEF RecordInv
    <2> QED
      BY <2>1, <2>2
  <1>12. DueInv'
    <2> SUFFICES ASSUME ~overlapped PROVE DueInv'
      BY <1>1 DEF DueInv, overlapped
    <2>1. (\A d, h : Due(d, h)' <=> Due(d, h)) /\ \A h : Handed(h)' = Handed(h)
      BY <1>1, PublishingKept
    <2>2. PICK last \in Generation :
            /\ \A h \in Generation : phase[h] = "done" => h =< last
            /\ \A d \in Distributor :
                 \/ Due(d, last)
                 \/ \E h \in Generation : phase[h] = "publish" /\ d \in Handed(h)
            /\ \A h \in Generation : phase[h] = "publish" => \A d \in Handed(h) : Due(d, h)
      BY DEF DueInv
    <2>3. \A h \in Generation : phase'[h] = "done" => h =< last
      BY <1>2, <2>2, ReloadAssumption DEF Generation
    <2>4. \A h \in Generation : phase[h] = "publish" => phase'[h] = "publish"
      BY <1>1, <1>2
    <2>5. Handed(g) = {}
      BY <1>8 DEF Handed
    <2>6. \A h \in Generation : phase'[h] = "publish" => \A d \in Handed(h) : Due(d, h)
      BY <1>2, <2>2, <2>5
    <2> QED
      BY <2>1, <2>2, <2>3, <2>4, <2>6 DEF DueInv
  <1> QED
    BY <1>3, <1>4, <1>7, <1>9, <1>10, <1>11, <1>12

\* A generation that fails is out of the game, complete as it never was.
LEMMA FailStep ==
  ASSUME IInv, NEW g \in Generation, Fail(g)
  PROVE  IInv'
  <1> USE DEF IInv
  <1>1. /\ phase[g] \in Loading /\ g # 0 /\ phase' = [phase EXCEPT ![g] = "failed"]
        /\ UNCHANGED <<world, updates, db, turn, read, todo, cur, orig, held, alone>>
        /\ UNCHANGED publishing
    BY DEF Fail, files, reading, inserting
  <1>2. \A h \in Generation :
          /\ HasRun(h)' <=> HasRun(h)
          /\ Complete(h)' <=> Complete(h)
          /\ phase'[h] = IF h = g THEN "failed" ELSE phase[h]
    BY <1>1 DEF HasRun, Complete, TypeOK, Loading
  <1>3. TypeOK'
    BY <1>1 DEF TypeOK, Phase, publishing
  <1>4. OrderInv'
    BY <1>1, <1>2, Generations DEF OrderInv, Loading
  <1>5. ASSUME NEW h \in Generation PROVE LoadInv(h)'
    <2>1. CASE h # g
      BY <1>1, <1>2, <2>1, LoadKept
    <2> QED
      BY <1>2, <2>1 DEF LoadInv
  <1>6. HandInv' /\ QueueInv' /\ DueInv' /\ StoreInv'
    BY <1>1, <1>2, HandKept, PublishingKept, DueKept, StoreKept DEF Loading
  <1>7. AloneInv'
    BY <1>1, <1>2 DEF AloneInv, Running, overlapped, Loading
  <1> QED
    BY <1>3, <1>4, <1>5, <1>6, <1>7

\* A call for the next distributor goes to the end of the queue: no younger
\* generation is there or served as long as reloads come one at a time.
LEMMA CallFromThreadStep ==
  ASSUME IInv, NEW g \in Generation, CallFromThread(g)
  PROVE  IInv'
  <1> DEFINE call == [dist |-> Dist[next[g]], gen |-> g]
             n == Len(queue)
  <1>1. /\ phase[g] = "publish"
        /\ queue' = Append(queue, call)
        /\ next' = [next EXCEPT ![g] = @ + 1]
        /\ phase' = IF next[g] = Len(Dist) THEN [phase EXCEPT ![g] = "done"] ELSE phase
        /\ UNCHANGED <<world, updates, db, turn, read, todo, cur, orig, held, served, alone>>
    BY DEF CallFromThread, files, reading, inserting
  <1>2. next[g] \in 1..Len(Dist) /\ Len(Dist) \in Nat /\ DOMAIN Dist = 1..Len(Dist)
    BY <1>1, ReloadAssumption DEF IInv, HandInv, TypeOK
  <1>3. Dist[next[g]] \in Distributor
    BY <1>2 DEF Distributor
  <1>4. /\ queue \in Seq([dist : Distributor, gen : Generation])
        /\ n \in Nat /\ DOMAIN queue = 1..n
        /\ \A i \in 1..n : queue[i].dist \in Distributor /\ queue[i].gen \in Generation
    BY Queued DEF IInv, TypeOK
  <1>5. /\ queue' \in Seq([dist : Distributor, gen : Generation])
        /\ Len(queue') = n + 1 /\ DOMAIN queue' = 1..(n + 1)
        /\ queue'[n + 1] = call
        /\ \A i \in 1..n : queue'[i] = queue[i]
    <2>1. call \in [dist : Distributor, gen : Generation]
      BY <1>3
    <2> HIDE DEF call
    <2> QED
      BY <1>1, <1>4, <2>1
  <1>6. next' \in [Generation -> 1..(Len(Dist) + 1)] /\ next'[g] = next[g] + 1
    BY <1>1, <1>2 DEF IInv, TypeOK
  <1>7. \A h \in Generation :
          /\ HasRun(h)' <=> HasRun(h)
          /\ Complete(h)' <=> Complete(h)
          /\ phase'[h] = IF h = g /\ next[g] = Len(Dist) THEN "done" ELSE phase[h]
          /\ h # g => next'[h] = next[h]
    BY <1>1 DEF HasRun, Complete, IInv, TypeOK
  <1>8. TypeOK'
    <2>1. phase' \in [Generation -> Phase]
      BY <1>1 DEF IInv, TypeOK, Phase
    <2> QED
      BY <1>1, <1>5, <1>6, <2>1 DEF IInv, TypeOK
  <1>9. OrderInv'
    BY <1>1, <1>7, Generations DEF IInv, OrderInv
  <1>10. StoreInv' /\ \A h \in Generation : LoadInv(h)'
    <2>1. StoreInv'
      BY <1>1, <1>7, StoreKept DEF IInv
    <2>2. ASSUME NEW h \in Generation, h # g PROVE LoadInv(h)'
      BY <1>1, <1>7, <2>2, LoadKept DEF IInv
    <2>3. LoadInv(g)'
      <3>1. ReadInv(g) /\ TodoInv(g) /\ HeldInv(g) /\ PlacedInv(g)
        BY <1>1 DEF IInv, LoadInv
      <3>2. /\ Complete(g) /\ Complete(g)' /\ phase'[g] \in {"publish", "done"}
        BY <1>1, <1>7 DEF Complete
      <3>3. \A b \in Bridge : Inserted(g, b)' = Inserted(g, b)
        BY <1>1, <3>2 DEF Inserted
      <3>4. ReadInv(g)'
        BY <1>1, <3>1, <3>2 DEF ReadInv
      <3>5. TodoInv(g)' /\ RecordInv(g)'
        BY <1>1, <3>1, <3>2 DEF TodoInv, RecordInv, Loading
      <3>6. HeldInv(g)' /\ PlacedInv(g)'
        BY <1>1, <3>1, <3>3 DEF HeldInv, PlacedInv
      <3> QED
        BY <3>4, <3>5, <3>6 DEF LoadInv
    <2> QED
      BY <2>1, <2>2, <2>3
  <1>11. HandInv'
    <2>1. \A h \in Generation :
            /\ phase'[h] = "publish" => next'[h] =< Len(Dist)
            /\ phase'[h] \notin {"publish", "done"} => next'[h] = 1
      BY <1>1, <1>2, <1>6, <1>7 DEF IInv, HandInv
    <2>2. \A i \in 1..(n + 1) : queue'[i].gen \in Generation /\ Complete(queue'[i].gen)
      <3>1. Complete(g)
        BY <1>1 DEF Complete
      <3>2. \A i \in 1..n : Complete(queue[i].gen)
        BY <1>4 DEF IInv, HandInv
      <3>3. ASSUME NEW i \in 1..(n + 1)
            PROVE  queue'[i].gen \in Generation /\ Complete(queue'[i].gen)
        <4>1. CASE i = n + 1
          BY <1>5, <3>1, <4>1
        <4>2. CASE i # n + 1
          BY <1>4, <1>5, <3>2, <4>2
        <4> QED
          BY <4>1, <4>2
      <3> QED
        BY <3>3
    <2>3. \A d \in Distributor :
            /\ served'[d] = served[d] /\ served[d] \in Generation
            /\ served[d] = 0 \/ Complete(served[d])
      BY <1>1 DEF IInv, HandInv, TypeOK
    <2>4. \A h \in Generation :
            Complete(h) => phase'[h] \in {"publish", "done"}
      BY <1>7 DEF Complete
    <2> QED
      BY <1>5, <2>1, <2>2, <2>3, <2>4 DEF HandInv, Complete
  <1>12. AloneInv'
    BY <1>1, <1>7 DEF IInv, AloneInv, Running, overlapped, Loading
  \* While reloads come one at a time, nobody is younger than g.
  <1>13. ASSUME ~overlapped, NEW h \in Generation, HasRun(h) PROVE h =< g
    BY <1>1, <1>13, Generations DEF IInv, AloneInv, Running
  <1>14. \A h \in Generation : Complete(h) => HasRun(h)
    BY DEF Complete, HasRun
  <1>15. QueueInv'
    <2> SUFFICES ASSUME ~overlapped, NEW i \in 1..(n + 1)
                 PROVE  /\ \A j \in 1..(n + 1) : i < j => queue'[i].gen =< queue'[j].gen
                        /\ \A d \in Distributor : served[d] =< queue'[i].gen
      BY <1>1, <1>5 DEF QueueInv, overlapped
    <2>1. \A k \in 1..n : queue[k].gen =< g
      BY <1>4, <1>13, <1>14 DEF IInv, HandInv
    <2>2. \A d \in Distributor : served[d] =< g
      <3>1. ASSUME NEW d \in Distributor PROVE served[d] =< g
        <4>1. served[d] \in Generation /\ (served[d] = 0 \/ Complete(served[d]))
          BY DEF IInv, TypeOK, HandInv
        <4>2. 0 =< g
          BY ReloadAssumption DEF Generation
        <4> QED
          BY <1>13, <1>14, <4>1, <4>2
      <3> QED
        BY <3>1
    <2>3. CASE i = n + 1
      BY <1>4, <1>5, <2>2, <2>3
    <2>4. CASE i # n + 1
      <3>1. i \in 1..n
        BY <1>4, <2>4
      <3>2. ASSUME NEW j \in 1..(n + 1), i < j PROVE queue'[i].gen =< queue'[j].gen
        <4>1. CASE j = n + 1
          BY <1>5, <2>1, <3>1, <4>1
        <4>2. CASE j # n + 1
          BY <1>4, <1>5, <3>1, <3>2, <4>2 DEF IInv, QueueInv
        <4> QED
          BY <4>1, <4>2
      <3>3. \A d \in Distributor : served[d] =< queue'[i].gen
        BY <1>4, <1>5, <3>1 DEF IInv, QueueInv
      <3> QED
        BY <3>2, <3>3
    <2> QED
      BY <2>3, <2>4
  <1>16. DueInv'
    <2> SUFFICES ASSUME ~overlapped PROVE DueInv'
      BY <1>1 DEF DueInv, overlapped
    <2> DEFINE d0 == Dist[next[g]]
    <2>1. PICK last \in Generation :
            /\ \A h \in Generation : phase[h] = "done" => h =< last
            /\ \A d \in Distributor :
                 \/ Due(d, last)
                 \/ \E h \in Generation : phase[h] = "publish" /\ d \in Handed(h)
            /\ \A h \in Generation : phase[h] = "publish" => \A d \in Handed(h) : Due(d, h)
      BY DEF IInv, DueInv
    <2>2. PICK e : e = d0
      OBVIOUS
    <2>3. Due(e, g)'
      <3>1. queue'[n + 1].dist = e /\ queue'[n + 1].gen = g
        BY <1>5, <2>2
      <3>2. \A j \in 1..(n + 1) : ~(j > n + 1)
        BY <1>4
      <3> QED
        BY <1>4, <1>5, <3>1, <3>2 DEF Due
    <2>4. ASSUME NEW d, NEW h, Due(d, h), d # e PROVE Due(d, h)'
      <3>1. queue'[n + 1].dist # d
        BY <1>5, <2>2, <2>4
      <3>2. CASE served[d] = h /\ \A i \in DOMAIN queue : queue[i].dist # d
        <4>1. \A i \in 1..(n + 1) : queue'[i].dist # d
          <5>1. ASSUME NEW i \in 1..(n + 1), i # n + 1 PROVE i \in 1..n
            BY <1>4, <5>1
          <5> QED
            BY <1>4, <1>5, <3>1, <3>2, <5>1
        <4> QED
          BY <1>1, <1>5, <3>2, <4>1 DEF Due
      <3>3. ASSUME NEW i \in DOMAIN queue, queue[i].dist = d, queue[i].gen = h,
                   \A j \in DOMAIN queue : j > i => queue[j].dist # d
            PROVE  Due(d, h)'
        <4>1. i \in 1..(n + 1) /\ queue'[i].dist = d /\ queue'[i].gen = h
          BY <1>4, <1>5, <3>3
        <4>2. \A j \in 1..(n + 1) : j > i => queue'[j].dist # d
          <5>1. ASSUME NEW j \in 1..(n + 1), j # n + 1 PROVE j \in 1..n
            BY <1>4, <5>1
          <5> QED
            BY <1>4, <1>5, <3>1, <3>3, <5>1
        <4> QED
          BY <1>5, <4>1, <4>2 DEF Due
      <3> QED
        BY <2>4, <3>2, <3>3 DEF Due
    <2>5. /\ Handed(g)' = Handed(g) \cup {e}
          /\ \A h \in Generation \ {g} : Handed(h)' = Handed(h)
      <3>1. 1..(next'[g] - 1) = 1..next[g]
        BY <1>2, <1>6
      <3>2. \A h \in Generation \ {g} : next'[h] = next[h]
        BY <1>7
      <3>3. Handed(g)' = {Dist[i] : i \in 1..next[g]}
        BY <3>1 DEF Handed
      <3>4. \A i \in 1..next[g] : i = next[g] \/ i \in 1..(next[g] - 1)
        BY <1>2
      <3>5. next[g] \in 1..next[g] /\ \A i \in 1..(next[g] - 1) : i \in 1..next[g]
        BY <1>2
      <3>6. Handed(g)' = Handed(g) \cup {e}
        BY <2>2, <3>3, <3>4, <3>5 DEF Handed
      <3> QED
        BY <3>2, <3>6 DEF Handed
    <2>6. \A h \in Generation : phase[h] = "publish" => h = g
      <3>1. ASSUME NEW h \in Generation, phase[h] = "publish" PROVE h = g
        <4>1. h =< g
          BY <1>13, <3>1 DEF HasRun
        <4>2. ~(g > h)
          BY <1>1, <3>1 DEF IInv, AloneInv, Running, HasRun
        <4> QED
          BY <4>1, <4>2, Generations
      <3> QED
        BY <3>1
    <2>7. \A d \in Handed(g)' : Due(d, g)'
      BY <1>1, <2>1, <2>3, <2>4, <2>5
    <2>8. CASE next[g] = Len(Dist)
      <3>1. \A h \in Generation : phase'[h] # "publish"
        BY <1>1, <1>7, <2>6, <2>8
      <3>2. \A h \in Generation : phase'[h] = "done" => h =< g
        BY <1>7, <1>13, Generations DEF HasRun
      <3>3. Distributor \subseteq Handed(g)'
        <4>1. next'[g] - 1 = Len(Dist)
          BY <1>2, <1>6, <2>8
        <4> QED
          BY <1>2, <4>1 DEF Handed, Distributor
      <3> QED
        BY <2>7, <3>1, <3>2, <3>3 DEF DueInv
    <2>9. CASE next[g] # Len(Dist)
      <3>1. phase' = phase
        BY <1>1, <2>9
      <3>2. ASSUME NEW d \in Distributor PROVE Due(d, last)' \/ d \in Handed(g)'
        BY <2>1, <2>4, <2>5, <2>6
      <3> QED
        BY <1>1, <2>1, <2>6, <2>7, <3>1, <3>2 DEF DueInv
    <2> QED
      BY <2>8, <2>9
  <1> QED
    BY <1>8, <1>9, <1>10, <1>11, <1>12, <1>15, <1>16 DEF IInv

\* The first call of the queue is run: its generation is served where it was
\* already due.
LEMMA ReplaceBridgeRingsStep ==
  ASSUME IInv, ReplaceBridgeRings
  PROVE  IInv'
  <1> DEFINE n == Len(queue)
  <1>1. PICK hd : hd = queue[1]
    OBVIOUS
  <1>2. /\ queue # <<>> /\ queue' = Tail(queue)
        /\ phase' = phase /\ next' = next
        /\ UNCHANGED <<world, updates, db, alone>>
        /\ UNCHANGED <<turn, read, todo, cur, orig, held>>
    BY DEF ReplaceBridgeRings, files, reading, inserting
  <1>3. served' = [served EXCEPT ![hd.dist] = hd.gen]
    <2>1. served' = [served EXCEPT ![Head(queue).dist] = Head(queue).gen]
      BY DEF ReplaceBridgeRings
    <2>2. Head(queue) = hd
      BY <1>1
    <2> QED
      BY <2>1, <2>2
  <1>4. /\ queue \in Seq([dist : Distributor, gen : Generation])
        /\ n \in Nat \ {0} /\ DOMAIN queue = 1..n /\ 1 \in 1..n
        /\ \A i \in 1..n : queue[i].dist \in Distributor /\ queue[i].gen \in Generation
    BY <1>2, Queued, EmptySeq DEF IInv, TypeOK
  <1>5. /\ queue' \in Seq([dist : Distributor, gen : Generation])
        /\ DOMAIN queue' = 1..(n - 1)
        /\ \A i \in 1..(n - 1) : i + 1 \in 1..n /\ queue'[i] = queue[i + 1]
    BY <1>2, <1>4
  <1>6. hd.dist \in Distributor /\ hd.gen \in Generation
    BY <1>1, <1>4
  <1>7. /\ served' \in [Distributor -> Generation] /\ served'[hd.dist] = hd.gen
        /\ \A d \in Distributor : d # hd.dist => served'[d] = served[d]
    BY <1>3, <1>6 DEF IInv, TypeOK
  <1>8. TypeOK'
    BY <1>2, <1>5, <1>7 DEF IInv, TypeOK
  <1>9. OrderInv' /\ AloneInv' /\ StoreInv' /\ \A h \in Generation : LoadInv(h)'
    <2>1. UNCHANGED <<phase, reading, inserting, alone, db>>
      BY <1>2 DEF reading, inserting
    <2> QED
      BY <1>2, <2>1, PhaseKept, AllLoadKept, StoreKept DEF IInv
  <1>10. HandInv'
    <2>1. \A i \in 1..n : Complete(queue[i].gen)
      BY <1>4 DEF IInv, HandInv
    <2>2. \A i \in 1..(n - 1) : Complete(queue'[i].gen)
      BY <1>5, <2>1
    <2>3. Complete(hd.gen)
      BY <1>1, <1>4, <2>1
    <2>4. \A d \in Distributor : served'[d] = 0 \/ Complete(served'[d])
      BY <1>7, <2>3 DEF IInv, HandInv
    <2> QED
      BY <1>2, <1>5, <2>2, <2>4 DEF IInv, HandInv, Complete
  <1>11. QueueInv'
    <2> SUFFICES ASSUME ~overlapped, NEW i \in 1..(n - 1)
                 PROVE  /\ \A j \in 1..(n - 1) : i < j => queue'[i].gen =< queue'[j].gen
                        /\ \A d \in Distributor : served'[d] =< queue'[i].gen
      BY <1>2, <1>5 DEF QueueInv, overlapped
    <2>1. /\ \A k, m \in 1..n : k < m => queue[k].gen =< queue[m].gen
          /\ \A k \in 1..n, d \in Distributor : served[d] =< queue[k].gen
      BY <1>4 DEF IInv, QueueInv
    <2>2. \A j \in 1..(n - 1) : i < j => queue'[i].gen =< queue'[j].gen
      BY <1>4, <1>5, <2>1
    <2>3. hd.gen =< queue'[i].gen
      BY <1>1, <1>4, <1>5, <2>1
    <2> QED
      BY <1>5, <1>7, <2>1, <2>2, <2>3
  <1>12. ASSUME NEW d \in Distributor, NEW x, Due(d, x) PROVE Due(d, x)'
    <2>1. CASE served[d] = x /\ \A i \in DOMAIN queue : queue[i].dist # d
      <3>1. served'[d] = x
        BY <1>1, <1>4, <1>7, <2>1
      <3>2. \A i \in DOMAIN queue' : queue'[i].dist # d
        BY <1>4, <1>5, <2>1
      <3> QED
        BY <3>1, <3>2 DEF Due
    <2>2. ASSUME NEW i \in 1..n, queue[i].dist = d, queue[i].gen = x,
                 \A j \in 1..n : j > i => queue[j].dist # d
          PROVE  Due(d, x)'
      <3>1. CASE i = 1
        <4>1. served'[d] = x
          BY <1>1, <1>7, <2>2, <3>1
        <4>2. \A j \in 1..(n - 1) : queue'[j].dist # d
          <5>1. ASSUME NEW j \in 1..(n - 1) PROVE queue'[j].dist # d
            <6>1. j + 1 \in 1..n /\ j + 1 > i
              BY <1>4, <3>1, <5>1
            <6> QED
              BY <1>5, <2>2, <6>1
          <5> QED
            BY <5>1
        <4> QED
          BY <1>5, <4>1, <4>2 DEF Due
      <3>2. CASE i # 1
        <4>1. PICK k \in 1..(n - 1) : k + 1 = i
          <5>1. i - 1 \in 1..(n - 1) /\ (i - 1) + 1 = i
            BY <1>4, <3>2
          <5> QED
            BY <5>1
        <4>2. queue'[k].dist = d /\ queue'[k].gen = x
          BY <1>5, <2>2, <4>1
        <4>3. \A j \in 1..(n - 1) : j > k => queue'[j].dist # d
          <5>1. ASSUME NEW j \in 1..(n - 1), j > k PROVE queue'[j].dist # d
            <6>1. j + 1 \in 1..n /\ j + 1 > i
              BY <1>4, <4>1, <5>1
            <6> QED
              BY <1>5, <2>2, <6>1
          <5> QED
            BY <5>1
        <4> QED
          BY <1>5, <4>2, <4>3 DEF Due
      <3> QED
        BY <3>1, <3>2
    <2> QED
      BY <1>4, <1>12, <2>1, <2>2 DEF Due
  <1>13. DueInv'
    <2> SUFFICES ASSUME ~overlapped PROVE DueInv'
      BY <1>2 DEF DueInv, overlapped
    <2>1. PICK last \in Generation :
            /\ \A h \in Generation : phase[h] = "done" => h =< last
            /\ \A d \in Distributor :
                 \/ Due(d, last)
                 \/ \E h \in Generation : phase[h] = "publish" /\ d \in Handed(h)
            /\ \A h \in Generation : phase[h] = "publish" => \A d \in Handed(h) : Due(d, h)
      BY DEF IInv, DueInv
    <2>2. \A h : Handed(h)' = Handed(h)
      BY <1>2 DEF Handed
    <2>3. \A h \in Generation : phase[h] = "publish" => Handed(h) \subseteq Distributor
      <3>1. ASSUME NEW h \in Generation, phase[h] = "publish"
            PROVE  Handed(h) \subseteq Distributor
        <4>1. next[h] \in Int /\ next[h] =< Len(Dist)
          BY <3>1, ReloadAssumption DEF IInv, TypeOK, HandInv
        <4>2. \A i \in 1..(next[h] - 1) : i \in DOMAIN Dist
          BY <4>1, ReloadAssumption
        <4> QED
          BY <4>2 DEF Handed, Distributor
      <3> QED
        BY <3>1
    <2> QED
      BY <1>2, <1>12, <2>1, <2>2, <2>3 DEF DueInv
  <1> QED
    BY <1>8, <1>9, <1>10, <1>11, <1>13 DEF IInv

LEMMA StutterStep ==
  ASSUME IInv, UNCHANGED vars
  PROVE  IInv'
  <1>1. /\ UNCHANGED <<phase, reading, inserting, alone, db>> /\ read' = read
        /\ UNCHANGED files /\ UNCHANGED publishing
    BY DEF vars, reading
  <1>2. TypeOK'
    BY <1>1 DEF IInv, TypeOK, files, reading, inserting, publishing
  <1>3. OrderInv' /\ AloneInv' /\ \A g \in Generation : LoadInv(g)'
    BY <1>1, PhaseKept, AllLoadKept DEF IInv
  <1>4. HandInv' /\ QueueInv' /\ DueInv' /\ StoreInv'
    BY <1>1, PhaseKept, HandKept, PublishingKept, DueKept, StoreKept DEF IInv
  <1> QED
    BY <1>2, <1>3, <1>4 DEF IInv

LEMMA NextInv == IInv /\ [Next]_vars => IInv'
  BY UpdateStep, SIGHUPStep, StartStep, ReadStatusStep, ReadServersStep, ReadRecordStep,
     AssignStep, NextAuthorityStep, FinishLoadStep, FailStep, CallFromThreadStep,
     ReplaceBridgeRingsStep, StutterStep
  DEF Next, Work

-----------------------------------------------------------------------------

\* The inductive invariant holds in every state that main.run reaches.
THEOREM Invariance == Spec => []IInv
  BY InitInv, NextInv, PTL DEF Spec

\* Types are kept: every call on the reactor's queue is for a distributor and
\* a generation that exist.
THEOREM TypeCorrect == Spec => []TypeOK
  <1>1. IInv => TypeOK
    BY DEF IInv
  <1> QED
    BY <1>1, Invariance, PTL

\* What a generation that is loaded to its end holds is what the files it read
\* make of each bridge, authority by authority.
FollowsFiles(g, d) ==
  /\ \A f \in File : read[g][f] # Unread
  /\ \A b \in Bridge : Fits(read[g], Authorities, b, d, held[g][d], alone[g])

LEMMA CompleteFollowsFiles ==
  ASSUME IInv, NEW g \in Generation, NEW d \in Ring, HasRun(g), phase[g] # "failed",
         turn[g] = Authorities, todo[g] = {}, Complete(g) \/ phase[g] = "insert"
  PROVE  FollowsFiles(g, d)
  <1>1. ReadInv(g) /\ HeldInv(g)
    BY DEF IInv, LoadInv
  <1>2. \A b \in Bridge : Inserted(g, b) = Authorities
    BY DEF Inserted
  <1>3. \A a \in Authority : a < turn[g] \/ a = turn[g]
    BY AuthorityFilesAssumption DEF Authority
  <1>4. \A f \in File : read[g][f] # Unread
    <2>1. \A a \in Authority : read[g][<<a, "status">>] # Unread /\ read[g][<<a, "server">>] # Unread
      BY <1>1, <1>3 DEF ReadInv, Complete
    <2>2. \A f \in File : \E a \in Authority : f = <<a, "status">> \/ f = <<a, "server">>
      BY DEF File
    <2> QED
      BY <2>1, <2>2
  <1> QED
    BY <1>1, <1>2, <1>4 DEF FollowsFiles, HeldInv

\* replaceBridgeRings only ever brings in a generation that has read every
\* file and inserted every bridge of every authority, whichever other reloads
\* are running, waiting or have failed: a bridge is in the ring where one of
\* the authorities put it for good, in none that no authority put it in, and,
\* if no other reload ran meanwhile, in exactly those that were not left.
THEOREM ServedFollowsFiles ==
  Spec => [](Started => \A d \in Distributor : FollowsFiles(served[d], d))
  <1>1. ASSUME IInv, Started, NEW d \in Distributor PROVE FollowsFiles(served[d], d)
    <2>1. served[d] \in Generation /\ d \in Ring
      BY <1>1, ReloadAssumption DEF IInv, TypeOK
    <2>2. Complete(served[d])
      BY <1>1 DEF IInv, HandInv, Started, Complete
    <2>3. /\ HasRun(served[d]) /\ phase[served[d]] # "failed"
          /\ turn[served[d]] = Authorities /\ todo[served[d]] = {}
      BY <1>1, <2>1, <2>2 DEF IInv, LoadInv, ReadInv, TodoInv, Complete, HasRun
    <2> QED
      BY <1>1, <2>1, <2>2, <2>3, CompleteFollowsFiles
  <1>2. IInv => (Started => \A d \in Distributor : FollowsFiles(served[d], d))
    BY <1>1
  <1> QED
    BY <1>2, Invariance, PTL

\* When nothing is queued and nobody is running, the generation each
\* distributor serves is the one that was due.
LEMMA QuietIsDue ==
  ASSUME IInv, Quiet, ~overlapped
  PROVE  \E last \in Generation :
           /\ \A d \in Distributor : served[d] = last
           /\ \A g \in Generation : phase[g] = "done" => g =< last
  <1>1. \A g \in Generation : phase[g] # "publish"
    BY DEF Quiet
  <1>2. DOMAIN queue = {}
    BY DEF Quiet
  <1>3. PICK last \in Generation :
          /\ \A g \in Generation : phase[g] = "done" => g =< last
          /\ \A d \in Distributor : Due(d, last)
    BY <1>1 DEF IInv, DueInv
  <1> QED
    BY <1>2, <1>3 DEF Due

\* After reloads that came one at a time all distributors serve the same
\* generation, whatever the order of callFromThread and replaceBridgeRings.
THEOREM QuietConsistent == Spec => []QuietIsConsistent
  <1>1. IInv => QuietIsConsistent
    BY QuietIsDue DEF QuietIsConsistent
  <1> QED
    BY <1>1, Invariance, PTL

\* The last authority to list a bridge puts it where it stays and is recorded.
LEMMA LastPutInIsKept ==
  ASSUME NEW r, NEW b, NEW d, LastPutIn(r, b, d)
  PROVE  SurelyKept(r, Authorities, b, d) /\ RecordedBy(r, Authorities, b, d)
  <1>1. PICK a \in 1..Authorities :
          PutIn(r, a, b, d) /\ \A j \in (a + 1)..Authorities : Asked(r, j, b) = Gone
    BY DEF LastPutIn, Authority
  <1>2. \A j \in (a + 1)..Authorities :
          ~Places(r, j, b) /\ ~MustLeave(d, Asked(r, j, b), Ring)
    BY <1>1, AuthorityFilesAssumption DEF Places, MustLeave
  <1> QED
    BY <1>1, <1>2 DEF SurelyKept, RecordedBy

\* ... every bridge is in the ring where the last authority to list it puts it,
\* and the Bridges table says so, unless a later reload recorded something else
\* and then raised.
THEOREM QuietMatches == Spec => []QuietMatchesStore
  <1>1. IInv => QuietMatchesStore
    <2> SUFFICES ASSUME IInv, Quiet, ~overlapped, NEW d \in Distributor,
                        NEW b \in Bridge, NEW r \in Ring, LastPutIn(read[served[d]], b, r)
                 PROVE  /\ b \in held[served[d]][r]
                        /\ \/ db[b] = r
                           \/ \E h \in Generation : h > served[d] /\ phase[h] = "failed"
      BY DEF QuietMatchesStore
    <2>1. PICK last \in Generation :
            /\ \A e \in Distributor : served[e] = last
            /\ \A g \in Generation : phase[g] = "done" => g =< last
      BY QuietIsDue
    <2>2. served[d] \in Generation /\ Complete(served[d])
      BY DEF IInv, TypeOK, HandInv, Quiet, Started, Complete
    <2>3. /\ HasRun(served[d]) /\ phase[served[d]] # "failed"
          /\ turn[served[d]] = Authorities /\ todo[served[d]] = {}
      BY <2>2 DEF IInv, LoadInv, ReadInv, TodoInv, Complete, HasRun
    <2>4. FollowsFiles(served[d], r)
      BY <2>2, <2>3, CompleteFollowsFiles
    <2>5. /\ SurelyKept(read[served[d]], Authorities, b, r)
          /\ RecordedBy(read[served[d]], Authorities, b, r)
      BY LastPutInIsKept
    <2>6. b \in held[served[d]][r]
      BY <2>4, <2>5 DEF FollowsFiles, Fits
    <2>7. ASSUME db[b] # r
          PROVE  \E h \in Generation : h > served[d] /\ phase[h] = "failed"
      <3>1. PICK h \in Generation : h > served[d] /\ HasRun(h)
        BY <2>2, <2>5, <2>7 DEF IInv, StoreInv
      <3>2. phase[h] # "done"
        BY <2>1, <3>1, Generations
      <3> QED
        BY <3>1, <3>2 DEF Quiet, HasRun
    <2> QED
      BY <2>6, <2>7
  <1> QED
    BY <1>1, Invariance, PTL

\* replaceBridgeRings never puts older rings in the place of younger ones
\* while reloads come one at a time.
THEOREM NeverGoesBack == Spec => NeverBackwards
  <1>1. ASSUME IInv, [Next]_vars, ~overlapped, NEW d \in Distributor
        PROVE  served[d] =< served'[d]
    <2>1. served \in [Distributor -> Generation] /\ served[d] \in Int
      <3>1. served \in [Distributor -> Generation]
        BY <1>1 DEF IInv, TypeOK
      <3> QED
        BY <3>1, Generations
    <2>2. CASE served' = served
      BY <2>1, <2>2
    <2>3. CASE ReplaceBridgeRings
      <3>1. queue \in Seq([dist : Distributor, gen : Generation]) /\ queue # <<>>
        BY <1>1, <2>3 DEF IInv, TypeOK, ReplaceBridgeRings
      <3>2. 1 \in DOMAIN queue /\ Head(queue) = queue[1]
        BY <3>1, EmptySeq
      <3>3. served[d] =< Head(queue).gen
        BY <1>1, <3>2 DEF IInv, QueueInv
      <3> QED
        BY <2>1, <2>3, <3>3 DEF ReplaceBridgeRings
    <2>4. [Next]_vars => ReplaceBridgeRings \/ served' = served
      BY DEF Next, Work, Update, SIGHUP, Start, ReadStatus, ReadServers,
         ReadRecord, Assign, NextAuthority, FinishLoad, Fail, CallFromThread, vars, publishing
    <2> QED
      BY <1>1, <2>2, <2>3, <2>4
  <1>2. IInv /\ [Next]_vars =>
          [~overlapped => \A d \in Distributor : served[d] =< (served')[d]]_vars
    BY <1>1
  <1> QED
    BY <1>2, Invariance, PTL DEF Spec, NeverBackwards

\* Two distributors that serve the same generation do not give out the same
\* bridge if the authorities agree on its ring, however reloads overlapped and
\* changed the table between the sessions of each other's inserts.
SharedOnly(d, e) ==
  d # e /\ served[d] = served[e] =>
    \A b \in held[served[d]][d] \cap held[served[e]][e] : ~Agree(read[served[d]], b)

THEOREM OneGenerationIsDisjoint ==
  Spec => [](Started => \A d, e \in Distributor : SharedOnly(d, e))
  <1>1. ASSUME IInv, Started, NEW d \in Distributor, NEW e \in Distributor,
               \A c \in Distributor : FollowsFiles(served[c], c)
        PROVE  SharedOnly(d, e)
    <2> SUFFICES ASSUME d # e, served[d] = served[e], NEW b \in held[served[d]][d],
                        b \in held[served[e]][e], Agree(read[served[d]], b)
                 PROVE  FALSE
      BY DEF SharedOnly
    <2>1. served[d] \in Generation /\ d \in Ring /\ e \in Ring
      BY <1>1, ReloadAssumption DEF IInv, TypeOK
    <2>2. b \in Bridge
      BY <1>1, <2>1 DEF IInv, TypeOK
    <2>3. /\ MaybeKept(read[served[d]], Authorities, b, d)
          /\ MaybeKept(read[served[d]], Authorities, b, e)
      BY <1>1, <2>2 DEF FollowsFiles, Fits
    <2> QED
      BY <2>1, <2>3 DEF MaybeKept, Agree, Authority
  <1>2. IInv /\ (Started => \A d \in Distributor : FollowsFiles(served[d], d)) =>
          (Started => \A d, e \in Distributor : SharedOnly(d, e))
    BY <1>1
  <1> QED
    BY <1>2, Invariance, ServedFollowsFiles, PTL

\* So, when no reload runs and none overlapped, no two distributors at all
\* give out a bridge on which the authorities agree.
THEOREM QuietIsDisjoint ==
  Spec => [](Quiet /\ ~overlapped =>
               \A d, e \in Distributor : d # e =>
                 \A b \in held[served[d]][d] \cap held[served[e]][e] : ~Agree(read[served[d]], b))
  <1>1. IInv /\ Quiet /\ ~overlapped => Started /\ \A d, e \in Distributor : served[d] = served[e]
    BY QuietIsDue DEF Quiet
  <1>2. /\ IInv /\ (Started => \A d, e \in Distributor : SharedOnly(d, e))
        /\ Quiet /\ ~overlapped
        => \A d, e \in Distributor : d # e =>
             \A b \in held[served[d]][d] \cap held[served[e]][e] : ~Agree(read[served[d]], b)
    BY <1>1 DEF SharedOnly
  <1> QED
    BY <1>2, OneGenerationIsDisjoint, Invariance, PTL

\* With one or two authorities, a reload that is alone leaves a bridge in the
\* ring only that its last authority names, as the comment in insert() means
\* it; PreviousRingIsLeft shows what another reload can do to it.
THEOREM AloneLeavesPreviousRing ==
  Authorities =< 2 =>
    (Spec => [](\A g \in Generation : Complete(g) /\ alone[g] => NamedRingOnly(g)))
  <1> SUFFICES ASSUME Authorities =< 2
               PROVE  Spec => [](\A g \in Generation : Complete(g) /\ alone[g] => NamedRingOnly(g))
    OBVIOUS
  <1>1. ASSUME IInv, NEW g \in Generation, Complete(g), alone[g], NEW b \in Bridge,
               NEW r \in Ring, LastAsked(read[g], b, r)
        PROVE  Holders(g, b) = {r}
    <2> DEFINE s == read[g]
    <2>1. \A d \in Ring : b \in held[g][d] <=> Kept(s, Authorities, b, d)
      <3>1. /\ HasRun(g) /\ phase[g] # "failed" /\ turn[g] = Authorities /\ todo[g] = {}
        BY <1>1 DEF IInv, LoadInv, ReadInv, TodoInv, Complete, HasRun
      <3> QED
        BY <1>1, <3>1, CompleteFollowsFiles DEF FollowsFiles, Fits
    <2> HIDE DEF s
    <2>2. PICK a \in 1..Authorities :
            Asked(s, a, b) = r /\ \A j \in (a + 1)..Authorities : Asked(s, j, b) = Gone
      BY <1>1 DEF LastAsked, Authority, s
    <2>3. \A d \in Ring : PutIn(s, a, b, d) <=> d = r
      BY <2>2, AuthorityFilesAssumption DEF PutIn, Places, Method
    <2>4. \A d \in Ring : Kept(s, 1, b, d) <=> PutIn(s, 1, b, d)
      <3>1. 0 + 1 = 1 /\ 0 \in Nat
        OBVIOUS
      <3> QED
        BY <3>1, KeptNext, NothingKept
    <2>5. \A d \in Ring : RecordedBy(s, 1, b, d) <=> PutIn(s, 1, b, d)
      <3>1. 0 + 1 = 1 /\ 0 \in Nat
        OBVIOUS
      <3>2. \A d \in Ring : ~RecordedBy(s, 0, b, d)
        BY NothingKept
      <3> QED
        BY <3>1, <3>2, RecordedNext DEF PutIn
    <2>6. \A d \in Ring : Kept(s, 2, b, d) <=>
            PutIn(s, 2, b, d) \/ (Kept(s, 1, b, d) /\ ~Leaves(s, 2, b, d))
      <3>1. 1 + 1 = 2 /\ 1 \in Nat
        OBVIOUS
      <3> QED
        BY <3>1, KeptNext
    <2>7. \A d \in Ring : Leaves(s, 2, b, d) <=>
            PutIn(s, 1, b, d) /\ MustLeave(d, Asked(s, 2, b), Ring)
      <3>1. 2 - 1 = 1
        OBVIOUS
      <3> QED
        BY <2>5, <3>1 DEF Leaves
    <2>8. \A d \in Ring : Kept(s, Authorities, b, d) <=> d = r
      <3>1. CASE Authorities = 1
        <4>1. a = 1
          BY <3>1
        <4> QED
          BY <2>3, <2>4, <3>1, <4>1
      <3>2. CASE Authorities = 2 /\ a = 2
        <4>1. \A d \in Ring : d # r => MustLeave(d, Asked(s, 2, b), Ring)
          BY <2>2, <3>2, AuthorityFilesAssumption DEF MustLeave
        <4> QED
          BY <2>3, <2>4, <2>6, <2>7, <3>2, <4>1
      <3>3. CASE Authorities = 2 /\ a = 1
        <4>1. Asked(s, 2, b) = Gone
          BY <2>2, <3>3
        <4>2. \A d \in Ring : ~PutIn(s, 2, b, d) /\ ~MustLeave(d, Asked(s, 2, b), Ring)
          BY <4>1, AuthorityFilesAssumption DEF PutIn, Places, MustLeave
        <4> QED
          BY <2>3, <2>4, <2>6, <2>7, <3>3, <4>2
      <3> QED
        BY <3>1, <3>2, <3>3, AuthorityFilesAssumption
    <2> QED
      BY <2>1, <2>8 DEF Holders
  <1>2. IInv => \A g \in Generation : Complete(g) /\ alone[g] => NamedRingOnly(g)
    BY <1>1 DEF NamedRingOnly
  <1> QED
    BY <1>2, Invariance, PTL

-----------------------------------------------------------------------------
(* Reload implements StagedReload *)

\* Reloads only begin when the start is over.
LEMMA StartInvariance == Spec => []StartInv
  <1>1. Init => StartInv
    BY ReloadAssumption DEF Init, StartInv, HasRun, Generation
  <1>2. IInv /\ StartInv /\ [Next]_vars => StartInv'
    <2> SUFFICES ASSUME IInv, StartInv, [Next]_vars PROVE StartInv'
      OBVIOUS
    <2>1. phase \in [Generation -> Phase] /\ 0 \in Generation
      BY Generations DEF IInv, TypeOK
    <2>2. CASE phase' = phase
      BY <2>2 DEF StartInv, Started, HasRun
    <2>3. ASSUME NEW g \in Generation, SIGHUP(g) PROVE StartInv'
      BY <2>1, <2>3 DEF StartInv, Started, HasRun, SIGHUP
    <2>4. ASSUME NEW g \in Generation, Start(g) PROVE StartInv'
      BY <2>1, <2>4 DEF StartInv, Started, HasRun, Start
    <2>8. ASSUME NEW g \in Generation, ReadStatus(g) PROVE StartInv'
      BY <2>1, <2>8 DEF StartInv, Started, HasRun, ReadStatus
    <2>9. ASSUME NEW g \in Generation, ReadServers(g) PROVE StartInv'
      BY <2>1, <2>9 DEF StartInv, Started, HasRun, ReadServers
    <2>10. ASSUME NEW g \in Generation, NextAuthority(g) PROVE StartInv'
      BY <2>1, <2>10 DEF StartInv, Started, HasRun, NextAuthority
    <2>5. ASSUME NEW g \in Generation, FinishLoad(g) PROVE StartInv'
      BY <2>1, <2>5 DEF StartInv, Started, HasRun, FinishLoad
    <2>6. ASSUME NEW g \in Generation, Fail(g) PROVE StartInv'
      BY <2>1, <2>6 DEF StartInv, Started, HasRun, Fail, Loading
    <2>7. ASSUME NEW g \in Generation, CallFromThread(g) PROVE StartInv'
      BY <2>1, <2>7 DEF StartInv, Started, HasRun, CallFromThread
    <2> QED
      BY <2>2, <2>3, <2>4, <2>5, <2>6, <2>7, <2>8, <2>9, <2>10
      DEF Next, Work, Update, ReadRecord, Assign, ReplaceBridgeRings, vars
  <1> QED
    BY <1>1, <1>2, Invariance, PTL DEF Spec

\* What the two modules say of a bridge's ring is the same.
LEMMA SameFits ==
  ASSUME NEW r, NEW n \in Nat, NEW b, NEW d, NEW ring, NEW sole
  PROVE  Staged!Fits(r, n, b, d, ring, sole) <=> Fits(r, n, b, d, ring, sole)
  <1>1. \A j : Staged!Asked(r, j, b) = Asked(r, j, b)
    BY DEF Asked, Staged!Asked, Barred, Staged!Barred
  <1>2. \A j : /\ Staged!Places(r, j, b) <=> Places(r, j, b)
               /\ Staged!PutIn(r, j, b, d) <=> PutIn(r, j, b, d)
    BY <1>1 DEF Places, Staged!Places, PutIn, Staged!PutIn, Method, Staged!Method
  <1>3. \A m : Staged!RecordedBy(r, m, b, d) <=> RecordedBy(r, m, b, d)
    BY <1>2 DEF RecordedBy, Staged!RecordedBy
  <1>4. \A j : Staged!MustLeave(d, Asked(r, j, b), Ring) <=> MustLeave(d, Asked(r, j, b), Ring)
    BY DEF MustLeave, Staged!MustLeave
  <1>5. \A j : Staged!Leaves(r, j, b, d) <=> Leaves(r, j, b, d)
    BY <1>1, <1>3, <1>4 DEF Leaves, Staged!Leaves
  <1>6. Staged!Kept(r, n, b, d) <=> Kept(r, n, b, d)
    BY <1>2, <1>5 DEF Kept, Staged!Kept
  <1>7. Staged!SurelyKept(r, n, b, d) <=> SurelyKept(r, n, b, d)
    BY <1>1, <1>2, <1>4 DEF SurelyKept, Staged!SurelyKept
  <1>8. Staged!MaybeKept(r, n, b, d) <=> MaybeKept(r, n, b, d)
    BY <1>2 DEF MaybeKept, Staged!MaybeKept
  <1> QED
    BY <1>6, <1>7, <1>8 DEF Fits, Staged!Fits

LEMMA SameFile == Staged!File = File
  BY DEF File, Staged!File, Authority, Staged!Authority

\* What a generation that has inserted everything holds for a distributor is
\* what the abstract one may give it.
LEMMA HeldIsPart ==
  ASSUME NEW g \in Generation, NEW d \in Distributor, FollowsFiles(g, d)
  PROVE  Staged!Part(held[g][d], g, d)
  <1>1. Authorities \in Nat
    BY AuthorityFilesAssumption
  <1>2. \A b \in Bridge : Staged!Fits(read[g], Authorities, b, d, held[g][d], alone[g])
    BY <1>1, SameFits DEF FollowsFiles
  <1> QED
    BY <1>2, SameFile DEF FollowsFiles, Staged!Part

LEMMA StagedInit == Init => Staged!Init
  <1> SUFFICES ASSUME Init PROVE Staged!Init
    OBVIOUS
  <1>1. ~Started
    BY Generations DEF Init, Started
  <1>2. givenOut = [d \in Distributor |-> {}]
    BY <1>1 DEF givenOut
  <1>3. /\ world \in [Staged!File -> Staged!AnyContent]
        /\ \A f \in Staged!File : world[f] \in Content[f]
    BY SameFile DEF Init, AnyContent, Staged!AnyContent
  <1> QED
    BY <1>1, <1>2, <1>3, SameFile DEF Init, Staged!Init

\* The rings of a generation that is being loaded are not served yet.
LEMMA NotServed ==
  ASSUME IInv, NEW g \in Generation, phase[g] \in Loading
  PROVE  \A d \in Distributor : Started => served[d] \in Generation /\ served[d] # g
  <1> SUFFICES ASSUME NEW d \in Distributor, Started
               PROVE  served[d] \in Generation /\ served[d] # g
    OBVIOUS
  <1>1. served[d] = 0 \/ Complete(served[d])
    BY DEF IInv, HandInv
  <1> QED
    BY <1>1 DEF IInv, TypeOK, Started, Complete, Loading

\* A generation reads the next file of its authority.
LEMMA StagedRead ==
  ASSUME IInv, StartInv, NEW g \in Generation, NEW k \in {"status", "server"},
         phase[g] = k, turn[g] \in Authority,
         read' = [read EXCEPT ![g][<<turn[g], k>>] = world[<<turn[g], k>>]],
         UNCHANGED <<world, held, served, alone>>, Started' <=> Started
  PROVE  Staged!Next
  <1> DEFINE f == <<turn[g], k>>
  <1>1. f \in File /\ f[1] = turn[g] /\ f[2] = k
    BY DEF File
  <1>2. g = 0 \/ Started
    BY DEF StartInv, HasRun
  <1>3. ReadInv(g)
    BY DEF IInv, LoadInv
  <1>4. \A a \in Authority : a < turn[g] =>
          read[g][<<a, "status">>] # Unread /\ read[g][<<a, "server">>] # Unread
    BY <1>3 DEF ReadInv
  <1>5. k = "server" => read[g][<<turn[g], "status">>] # Unread
    BY <1>3 DEF ReadInv
  <1>6. ~(turn[g] < turn[g])
    BY AuthorityFilesAssumption DEF Authority
  <1>7. read[g][f] = Unread
    BY <1>3, <1>6 DEF ReadInv, Complete
  <1>8. ASSUME NEW e \in Staged!Before(f) PROVE read[g][e] # Unread
    <2>1. e \in File
      BY SameFile DEF Staged!Before
    <2>2. PICK a \in Authority, l \in {"status", "server"} : e = <<a, l>>
      BY <2>1 DEF File
    <2>3. a < turn[g] \/ (a = turn[g] /\ l = "status" /\ k = "server")
      BY <1>1, <2>2 DEF Staged!Before
    <2> QED
      BY <1>4, <1>5, <2>2, <2>3
  <1>9. UNCHANGED givenOut
    BY DEF givenOut
  <1> HIDE DEF f
  <1>10. read' = [read EXCEPT ![g][f] = world[f]]
    BY DEF f
  <1>11. Staged!Read(g, f)
    BY <1>2, <1>7, <1>8, <1>9, <1>10 DEF Staged!Read
  <1> QED
    BY <1>1, <1>11, SameFile DEF Staged!Next

\* The step to which each step maps.
LEMMA StagedStep ==
  ASSUME IInv, StartInv, [Next]_vars
  PROVE  Staged!Next \/ UNCHANGED <<world, Started, read, alone, givenOut>>
  <1>1. /\ phase \in [Generation -> Phase] /\ 0 \in Generation
        /\ turn \in [Generation -> Authority]
        /\ served \in [Distributor -> Generation]
        /\ held \in [Generation -> [Ring -> SUBSET Bridge]]
        /\ alone \in [Generation -> BOOLEAN]
    BY Generations DEF IInv, TypeOK
  <1>2. ASSUME NEW f \in File, NEW content \in Content[f], Update(f, content)
        PROVE  Staged!Next
    <2>1. UNCHANGED <<Started, read, alone, givenOut>>
      BY <1>2 DEF Update, givenOut, Started, reading, inserting, publishing
    <2>2. Staged!Update(f, content)
      BY <1>2, <2>1 DEF Update, Staged!Update
    <2> QED
      BY <2>2, SameFile DEF Staged!Next
  <1>3. ASSUME NEW g \in Generation, SIGHUP(g)
        PROVE  UNCHANGED <<world, Started, read, alone, givenOut>>
    <2>1. g # 0
      BY <1>3 DEF SIGHUP, IInv, OrderInv, Loading
    <2>2. Started' <=> Started
      BY <1>1, <1>3, <2>1 DEF SIGHUP, Started
    <2> QED
      BY <1>3, <2>2 DEF SIGHUP, files, reading, inserting, publishing, givenOut
  <1>4. ASSUME NEW g \in Generation, Start(g)
        PROVE  Staged!Next
    <2>1. /\ phase[g] = "queued" /\ phase' = [phase EXCEPT ![g] = "status"]
          /\ Started /\ alone' = NoLongerAlone(g)
          /\ UNCHANGED <<world, read, held, served>>
      BY <1>4 DEF Start, files, reading, inserting, publishing
    <2>2. g # 0 /\ Started'
      BY <1>1, <2>1 DEF Started
    <2>3. PICK others \in SUBSET Generation :
            others = IF Running = {} THEN {} ELSE Running \cup {g}
      BY DEF Running
    <2>4. alone' = [h \in Generation |-> alone[h] /\ h \notin others]
      BY <2>1, <2>3 DEF NoLongerAlone
    <2>5. Staged!Overlap(others)
      BY <2>1, <2>2, <2>4 DEF Staged!Overlap, givenOut
    <2> QED
      BY <2>5 DEF Staged!Next
  <1>5. ASSUME NEW g \in Generation, ReadStatus(g)
        PROVE  Staged!Next
    <2>1. /\ phase[g] = "status" /\ phase' = [phase EXCEPT ![g] = "server"]
          /\ read' = [read EXCEPT ![g][<<turn[g], "status">>] = world[<<turn[g], "status">>]]
          /\ UNCHANGED <<world, held, served, alone>>
      BY <1>5 DEF ReadStatus, files, inserting, publishing
    <2>2. (Started' <=> Started) /\ turn[g] \in Authority
      BY <1>1, <2>1 DEF Started
    <2> QED
      BY <2>1, <2>2, StagedRead
  <1>6. ASSUME NEW g \in Generation, ReadServers(g)
        PROVE  Staged!Next
    <2>1. /\ phase[g] = "server" /\ phase' = [phase EXCEPT ![g] = "insert"]
          /\ read' = [read EXCEPT ![g][<<turn[g], "server">>] = world[<<turn[g], "server">>]]
          /\ UNCHANGED <<world, held, served, alone>>
      BY <1>6 DEF ReadServers, files, publishing
    <2>2. (Started' <=> Started) /\ turn[g] \in Authority
      BY <1>1, <2>1 DEF Started
    <2> QED
      BY <2>1, <2>2, StagedRead
  <1>7. ASSUME NEW g \in Generation, NEW b \in Bridge, ReadRecord(g, b)
        PROVE  UNCHANGED <<world, Started, read, alone, givenOut>>
    BY <1>7 DEF ReadRecord, files, reading, publishing, givenOut, Started
  <1>8. ASSUME NEW g \in Generation, Assign(g)
        PROVE  UNCHANGED <<world, Started, read, alone, givenOut>>
    <2>1. UNCHANGED <<world, phase, read, served, alone>> /\ phase[g] \in Loading
      BY <1>8 DEF Assign, files, reading, publishing, Loading
    <2>2. \A h \in Generation : h # g => held'[h] = held[h]
      BY <1>1, <1>8 DEF Assign
    <2>3. \A d \in Distributor : Started => served[d] \in Generation /\ served[d] # g
      BY <2>1, NotServed
    <2> QED
      BY <2>1, <2>2, <2>3 DEF givenOut, Started
  <1>9. ASSUME NEW g \in Generation, NextAuthority(g)
        PROVE  UNCHANGED <<world, Started, read, alone, givenOut>>
    <2>1. Started' <=> Started
      BY <1>1, <1>9 DEF NextAuthority, Started
    <2> QED
      BY <1>9, <2>1 DEF NextAuthority, files, inserting, publishing, givenOut
  <1>10. ASSUME NEW g \in Generation, FinishLoad(g)
        PROVE  Staged!Next \/ UNCHANGED <<world, Started, read, alone, givenOut>>
    <2>1. /\ phase[g] = "insert" /\ todo[g] = {} /\ turn[g] = Authorities
          /\ phase' = [phase EXCEPT ![g] = IF g = 0 THEN "done" ELSE "publish"]
          /\ UNCHANGED <<world, read, held, served, alone>>
      BY <1>10 DEF FinishLoad, files, reading, inserting, publishing
    <2>2. CASE g # 0
      <3>1. Started' <=> Started
        BY <1>1, <2>1, <2>2 DEF Started
      <3> QED
        BY <2>1, <3>1 DEF givenOut
    <2>3. CASE g = 0
      <3>1. ~Started /\ Started'
        BY <1>1, <2>1, <2>3 DEF Started
      <3>2. \A d \in Distributor : served[d] = 0
        <4> TAKE d \in Distributor
        <4>1. served[d] = 0 \/ HasRun(served[d])
          BY DEF IInv, HandInv, Complete, HasRun
        <4> QED
          BY <1>1, <3>1, <4>1 DEF StartInv
      <3>3. givenOut' = [d \in Distributor |-> held[0][d]]
        BY <2>1, <3>1, <3>2 DEF givenOut
      <3>4. \A d \in Distributor : held[0][d] \in SUBSET Bridge /\ FollowsFiles(0, d)
        <4> TAKE d \in Distributor
        <4>1. d \in Ring
          BY ReloadAssumption
        <4>2. HasRun(0) /\ phase[0] # "failed"
          BY <2>1, <2>3 DEF HasRun
        <4> QED
          BY <1>1, <2>1, <2>3, <4>1, <4>2, CompleteFollowsFiles
      <3>5. \A d \in Distributor : Staged!Part(held[0][d], 0, d)
        BY <1>1, <3>4, HeldIsPart
      <3>6. /\ givenOut' \in [Distributor -> SUBSET Bridge]
            /\ \A d \in Distributor : Staged!Part(givenOut'[d], 0, d)
        BY <3>3, <3>4, <3>5
      <3>7. Staged!Start
        BY <2>1, <3>1, <3>6 DEF Staged!Start
      <3> QED
        BY <3>7 DEF Staged!Next
    <2> QED
      BY <2>2, <2>3
  <1>11. ASSUME NEW g \in Generation, Fail(g)
        PROVE  UNCHANGED <<world, Started, read, alone, givenOut>>
    <2>1. Started' <=> Started
      BY <1>1, <1>11 DEF Fail, Started
    <2> QED
      BY <1>11, <2>1 DEF Fail, files, reading, inserting, publishing, givenOut
  <1>12. ASSUME NEW g \in Generation, CallFromThread(g)
        PROVE  UNCHANGED <<world, Started, read, alone, givenOut>>
    <2>1. phase[0] # "publish"
      BY DEF IInv, OrderInv, Loading
    <2>2. Started' <=> Started
      BY <1>1, <1>12, <2>1 DEF CallFromThread, Started
    <2> QED
      BY <1>12, <2>2 DEF CallFromThread, files, reading, inserting, givenOut
  <1>13. CASE ReplaceBridgeRings
    <2>1. queue \in Seq([dist : Distributor, gen : Generation]) /\ queue # <<>>
      BY <1>13 DEF IInv, TypeOK, ReplaceBridgeRings
    <2>2. PICK d, g : d = Head(queue).dist /\ g = Head(queue).gen
      OBVIOUS
    <2>3. 1 \in DOMAIN queue /\ Head(queue) = queue[1]
      BY <2>1, EmptySeq
    <2>4. d \in Distributor /\ g \in Generation /\ Complete(g)
      BY <2>1, <2>2, <2>3, Queued DEF IInv, HandInv
    <2>5. /\ Started /\ served' = [served EXCEPT ![d] = g]
          /\ UNCHANGED <<world, phase, read, held, alone>>
      BY <1>13, <2>2 DEF ReplaceBridgeRings, files, reading, inserting
    <2>6. Started' /\ UNCHANGED Started
      BY <2>5 DEF Started
    <2>7. d \in Ring /\ held[g][d] \in SUBSET Bridge
      BY <1>1, <2>4, ReloadAssumption
    <2>8. Staged!Part(held[g][d], g, d)
      <3>1. /\ HasRun(g) /\ phase[g] # "failed"
            /\ turn[g] = Authorities /\ todo[g] = {}
        BY <2>4 DEF IInv, LoadInv, ReadInv, TodoInv, Complete, HasRun
      <3>2. FollowsFiles(g, d)
        BY <2>4, <2>7, <3>1, CompleteFollowsFiles
      <3> QED
        BY <2>4, <3>2, HeldIsPart
    <2>9. givenOut' = [givenOut EXCEPT ![d] = held[g][d]]
      BY <1>1, <2>4, <2>5, <2>6 DEF givenOut
    <2>10. Staged!Give(d, g, held[g][d])
      BY <2>5, <2>6, <2>8, <2>9 DEF Staged!Give
    <2> QED
      BY <2>4, <2>7, <2>10 DEF Staged!Next
  <1>14. CASE UNCHANGED vars
    BY <1>14 DEF vars, files, reading, inserting, publishing, givenOut, Started
  <1> QED
    BY <1>2, <1>3, <1>4, <1>5, <1>6, <1>7, <1>8, <1>9, <1>10, <1>11, <1>12, <1>13, <1>14
    DEF Next, Work

\* Whatever changes in the files while a reload goes through them, whatever
\* other reloads run, fail, and write to the Bridges table while it is between
\* the two sessions of an insert: to those who are served it replaces the
\* bridges of a distributor at one moment, by those that the files it has read,
\* all of them and one after another, make of that distributor's ring.
THEOREM Refinement == Spec => ImplementsStagedReload
  <1>1. IInv /\ StartInv /\ [Next]_vars => [Staged!Next]_(Staged!vars)
    BY StagedStep DEF Staged!vars
  <1> QED
    BY <1>1, StagedInit, Invariance, StartInvariance, PTL
    DEF Spec, ImplementsStagedReload, Staged!Spec
=============================================================================
