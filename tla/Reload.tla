-------------------------------- MODULE Reload --------------------------------
(***************************************************************************)
(* Reloading bridges while they are being served (src/bridgedb/main.py).   *)
(* A SIGHUP puts reload() on the reactor's thread pool.  For one authority *)
(* after another the thread reads the networkstatus, reads the server      *)
(* descriptors, and inserts the bridges of the two into a BridgeSplitter   *)
(* of its own, sharing the Bridges table with any other reload.  Then it   *)
(* asks the reactor, in one callFromThread per distributor, to put the new *)
(* hashring in place of the served one.                                    *)
(*                                                                         *)
(* A generation is one run of reload(): 0 is the one at startup, g > 0 the *)
(* one of the g-th SIGHUP.  The sessions with the database are single      *)
(* steps here: that they are exclusive is what Storage shows.              *)
(***************************************************************************)
EXTENDS Integers, Sequences, FiniteSets, AuthorityFiles

CONSTANTS
  NoBridge,
  Unread,        \* the generation has not read this file
  Dist,          \* the served rings, in the order reload() replaces them
  PoolSize,      \* reloads the thread pool runs at a time
  MaxReloads,    \* bound: SIGHUPs
  MaxUpdates     \* bound: changes to the files

Generation == 0..MaxReloads
Distributor == {Dist[i] : i \in DOMAIN Dist}

ASSUME ReloadAssumption ==
  /\ NoBridge \notin Bridge
  /\ Distributor \subseteq Ring /\ Dist \in Seq(Ring) /\ Dist # <<>>
  /\ Unread \notin AnyContent
  /\ PoolSize \in Nat \ {0} /\ MaxReloads \in Nat /\ MaxUpdates \in Nat

VARIABLES
  world,         \* the authorities' files
  updates,       \* how often they have changed
  db,            \* the distributor column of the Bridges table
  phase,         \* of each generation's reload()
  turn,          \* the authority whose files it is at
  read,          \* the files each generation has read
  todo,          \* the bridges load() has still to insert for this authority
  cur, orig,     \* the bridge being inserted, and its record as read
  held,          \* each generation's ringsByName
  next,          \* the next distributor to hand over, as an index of Dist
  queue,         \* the reactor's callFromThread queue
  served,        \* the generation each distributor's hashring comes from
  alone          \* history: no other reload has run at the time of this one

files == <<world, updates>>
reading == <<turn, read>>
inserting == <<todo, cur, orig, held>>
publishing == <<next, queue, served>>
vars == <<files, db, phase, reading, inserting, publishing, alone>>

Loading == {"status", "server", "insert"}
Phase == {"none", "queued", "publish", "done", "failed"} \cup Loading
Running == {g \in Generation : phase[g] \in Loading \cup {"publish"}}
Started == phase[0] = "done"
overlapped == \E g \in Generation : ~alone[g]

Holders(g, b) == {r \in Ring : b \in held[g][r]}

\* A restart finds the table as the last process left it.
Init ==
  /\ world \in [File -> AnyContent] /\ \A f \in File : world[f] \in Content[f]
  /\ updates = 0
  /\ db \in [Bridge -> Ring \cup {Unseen}]
  /\ phase = [g \in Generation |-> IF g = 0 THEN "status" ELSE "none"]
  /\ turn = [g \in Generation |-> 1]
  /\ read = [g \in Generation |-> [f \in File |-> Unread]]
  /\ todo = [g \in Generation |-> {}]
  /\ cur = [g \in Generation |-> NoBridge]
  /\ orig = [g \in Generation |-> Unseen]
  /\ held = [g \in Generation |-> [r \in Ring |-> {}]]
  /\ next = [g \in Generation |-> 1]
  /\ queue = <<>>
  /\ served = [d \in Distributor |-> 0]
  /\ alone = [g \in Generation |-> TRUE]

\* An authority delivers a new file.
Update(f, content) ==
  /\ updates < MaxUpdates /\ world[f] # content
  /\ world' = [world EXCEPT ![f] = content]
  /\ updates' = updates + 1
  /\ UNCHANGED <<db, phase, reading, inserting, publishing, alone>>

\* _handleSIGHUP: reactor.callInThread(_reloadFn)
SIGHUP(g) ==
  /\ phase[g] = "none" /\ \A h \in 0..(g - 1) : phase[h] # "none"
  /\ phase' = [phase EXCEPT ![g] = "queued"]
  /\ UNCHANGED <<files, db, reading, inserting, publishing, alone>>

NoLongerAlone(g) ==
  [h \in Generation |-> alone[h] /\ (Running = {} \/ h \notin Running \cup {g})]

\* Fault: a reload waits for the success of the one before it.
StartAfterSuccess(g) ==
  /\ phase[g] = "queued" /\ Started
  /\ \A h \in 0..(g - 1) : phase[h] = "done"
  /\ Cardinality(Running) < PoolSize
  /\ phase' = [phase EXCEPT ![g] = "status"]
  /\ alone' = NoLongerAlone(g)
  /\ UNCHANGED <<files, db, reading, inserting, publishing>>

\* A thread of the pool takes the job and makes a new splitter.
Start(g) ==
  /\ phase[g] = "queued" /\ Started
  /\ \A h \in 0..(g - 1) : phase[h] # "queued"
  /\ Cardinality(Running) < PoolSize
  /\ phase' = [phase EXCEPT ![g] = "status"]
  /\ alone' = NoLongerAlone(g)
  /\ UNCHANGED <<files, db, reading, inserting, publishing>>

\* load(): parseNetworkStatusFile of the authority whose turn it is.
ReadStatus(g) ==
  /\ phase[g] = "status"
  /\ read' = [read EXCEPT ![g][<<turn[g], "status">>] = world[<<turn[g], "status">>]]
  /\ phase' = [phase EXCEPT ![g] = "server"]
  /\ UNCHANGED <<files, db, turn, inserting, publishing, alone>>

\* ... parseServerDescriptorsFile.  What is inserted follows from the two.
ReadServers(g) ==
  /\ phase[g] = "server"
  /\ read' = [read EXCEPT ![g][<<turn[g], "server">>] = world[<<turn[g], "server">>]]
  /\ todo' = [todo EXCEPT ![g] = {b \in Bridge : Asked(read'[g], turn[g], b) # Gone}]
  /\ phase' = [phase EXCEPT ![g] = "insert"]
  /\ UNCHANGED <<files, db, turn, cur, orig, held, publishing, alone>>

\* BridgeSplitter.insert, first session: getBridgeDistributor.
ReadRecord(g, b) ==
  /\ phase[g] = "insert" /\ cur[g] = NoBridge /\ b \in todo[g]
  /\ cur' = [cur EXCEPT ![g] = b]
  /\ orig' = [orig EXCEPT ![g] = db[b]]
  /\ UNCHANGED <<files, db, phase, reading, todo, held, publishing, alone>>

\* Fault: a row that exists is not updated.
RecordOnce(b, method) ==
  IF db[b] = Unseen THEN db' = [db EXCEPT ![b] = method] ELSE UNCHANGED db

\* Database.insertBridgeAndGetRing, the distributor column
Record(b, method) == db' = [db EXCEPT ![b] = method]

\* The rest of it: leave the old ring, record the new one (the second
\* session, which commits), join it; or, for "none", only leave.
Assign(g) ==
  LET b == cur[g]
      request == Asked(read[g], turn[g], b)
      method == Method(request, Ring, HashPlace[b])
      without == IF MustLeave(orig[g], request, Ring)
                   THEN [held[g] EXCEPT ![orig[g]] = @ \ {b}]
                   ELSE held[g] IN
  /\ phase[g] = "insert" /\ cur[g] # NoBridge
  /\ IF request = "none"
       THEN held' = [held EXCEPT ![g] = without] /\ UNCHANGED db
       ELSE /\ held' = [held EXCEPT ![g] = [without EXCEPT ![method] = @ \cup {b}]]
            /\ Record(b, method)
  /\ todo' = [todo EXCEPT ![g] = @ \ {b}]
  /\ cur' = [cur EXCEPT ![g] = NoBridge]
  /\ orig' = [orig EXCEPT ![g] = Unseen]
  /\ UNCHANGED <<files, phase, reading, publishing, alone>>

\* The loop of load() goes on with the next authority.
NextAuthority(g) ==
  /\ phase[g] = "insert" /\ todo[g] = {} /\ turn[g] < Authorities
  /\ turn' = [turn EXCEPT ![g] = @ + 1]
  /\ phase' = [phase EXCEPT ![g] = "status"]
  /\ UNCHANGED <<files, db, read, inserting, publishing, alone>>

\* Fault: the rings are handed over while they are filled.
FinishLoadEarly(g) ==
  /\ phase[g] = "insert" /\ cur[g] = NoBridge /\ turn[g] = Authorities
  /\ phase' = [phase EXCEPT ![g] = IF g = 0 THEN "done" ELSE "publish"]
  /\ UNCHANGED <<files, db, reading, inserting, publishing, alone>>

\* Everything is inserted: the startup's rings are served at once, another
\* generation's are to be handed over.
FinishLoad(g) ==
  /\ phase[g] = "insert" /\ todo[g] = {} /\ turn[g] = Authorities
  /\ phase' = [phase EXCEPT ![g] = IF g = 0 THEN "done" ELSE "publish"]
  /\ UNCHANGED <<files, db, reading, inserting, publishing, alone>>

\* Something raises in the thread; what is committed stays committed.
Fail(g) ==
  /\ phase[g] \in Loading /\ g # 0
  /\ phase' = [phase EXCEPT ![g] = "failed"]
  /\ UNCHANGED <<files, db, reading, inserting, publishing, alone>>

\* Fault: the last distributor is forgotten.
CallFromThreadButLast(g) ==
  /\ phase[g] = "publish"
  /\ queue' = Append(queue, [dist |-> Dist[next[g]], gen |-> g])
  /\ next' = [next EXCEPT ![g] = @ + 1]
  /\ phase' = IF next[g] >= Len(Dist) - 1 THEN [phase EXCEPT ![g] = "done"] ELSE phase
  /\ UNCHANGED <<files, db, reading, inserting, served, alone>>

\* reactor.callFromThread(replaceBridgeRings, ...), for one distributor
CallFromThread(g) ==
  /\ phase[g] = "publish"
  /\ queue' = Append(queue, [dist |-> Dist[next[g]], gen |-> g])
  /\ next' = [next EXCEPT ![g] = @ + 1]
  /\ phase' = IF next[g] = Len(Dist) THEN [phase EXCEPT ![g] = "done"] ELSE phase
  /\ UNCHANGED <<files, db, reading, inserting, served, alone>>

\* Fault: the latest call is run first.
ReplaceBridgeRingsLast ==
  LET call == queue[Len(queue)] IN
  /\ Started /\ queue # <<>>
  /\ served' = [served EXCEPT ![call.dist] = call.gen]
  /\ queue' = SubSeq(queue, 1, Len(queue) - 1)
  /\ UNCHANGED <<files, db, phase, reading, inserting, next, alone>>

\* The reactor runs replaceBridgeRings.
ReplaceBridgeRings ==
  /\ Started /\ queue # <<>>
  /\ served' = [served EXCEPT ![Head(queue).dist] = Head(queue).gen]
  /\ queue' = Tail(queue)
  /\ UNCHANGED <<files, db, phase, reading, inserting, next, alone>>

Work(g) ==
  \/ ReadStatus(g) \/ ReadServers(g)
  \/ \E b \in Bridge : ReadRecord(g, b)
  \/ Assign(g) \/ NextAuthority(g) \/ FinishLoad(g) \/ CallFromThread(g)

Next ==
  \/ \E f \in File : \E content \in Content[f] : Update(f, content)
  \/ \E g \in Generation : SIGHUP(g) \/ Start(g) \/ Work(g) \/ Fail(g)
  \/ ReplaceBridgeRings

Spec == Init /\ [][Next]_vars

\* The operating system schedules every thread of the pool, the pool takes
\* its jobs in turn and the reactor goes round; nobody has to send a SIGHUP,
\* and no reload has to fail.
FairSpec ==
  /\ Spec
  /\ \A g \in Generation : WF_vars(Start(g)) /\ WF_vars(Work(g))
  /\ WF_vars(ReplaceBridgeRings)

-----------------------------------------------------------------------------
(* Properties *)

TypeOK ==
  /\ world \in [File -> AnyContent] /\ updates \in 0..MaxUpdates
  /\ db \in [Bridge -> Ring \cup {Unseen}]
  /\ phase \in [Generation -> Phase]
  /\ turn \in [Generation -> Authority]
  /\ read \in [Generation -> [File -> AnyContent \cup {Unread}]]
  /\ todo \in [Generation -> SUBSET Bridge]
  /\ cur \in [Generation -> Bridge \cup {NoBridge}]
  /\ orig \in [Generation -> Ring \cup {Unseen}]
  /\ held \in [Generation -> [Ring -> SUBSET Bridge]]
  /\ next \in [Generation -> 1..(Len(Dist) + 1)]
  /\ queue \in Seq([dist : Distributor, gen : Generation])
  /\ served \in [Distributor -> Generation]
  /\ alone \in [Generation -> BOOLEAN]

Complete(g) == phase[g] \in {"publish", "done"}

Quiet ==
  /\ Started /\ queue = <<>>
  /\ \A g \in Generation : phase[g] \in {"none", "done", "failed"}

\* Once reloads that came one at a time are over, all distributors serve the
\* same generation.
QuietIsConsistent ==
  Quiet /\ ~overlapped =>
    \A d, e \in Distributor : served[d] = served[e]

\* ... a bridge is in the ring that the last authority to list it puts it in,
\* and the table names this ring, unless a later reload failed after changing
\* it.  (A bridge may be in another ring, too: see Kept.)
QuietMatchesStore ==
  Quiet /\ ~overlapped =>
    \A g \in {served[d] : d \in Distributor}, b \in Bridge, r \in Ring :
      LastPutIn(read[g], b, r) =>
        /\ b \in held[g][r]
        /\ db[b] = r \/ \E h \in Generation : h > g /\ phase[h] = "failed"

\* While reloads come one at a time no distributor goes back to older rings.
NeverBackwards ==
  [][~overlapped => \A d \in Distributor : served[d] =< (served')[d]]_vars

\* Every generation that is loaded gets its turn in every distributor.
LoadedIsServed ==
  \A g \in Generation \ {0}, d \in Distributor :
    (phase[g] = "publish" /\ next[g] = 1) ~> (served[d] = g)

\* Every SIGHUP is answered: by a complete reload or by one that failed.
SIGHUPIsAnswered ==
  \A g \in Generation \ {0} :
    (phase[g] = "queued") ~> (phase[g] \in {"done", "failed"})

\* BridgeSplitter.insert, on a bridge that requests another method than the
\* one on record: "If so, we have to delete it from its previous ring."  So a
\* bridge whose last authority names a ring ends in this ring only.
NamedRingOnly(g) ==
  \A b \in Bridge, r \in Ring :
    LastAsked(read[g], b, r) => Holders(g, b) = {r}

PreviousRingIsLeft == \A g \in Generation : Complete(g) => NamedRingOnly(g)

-----------------------------------------------------------------------------
(***************************************************************************)
(* The inductive invariant behind them.  What a generation holds follows   *)
(* from what it has read so far and from the authorities whose bridges it  *)
(* has inserted; only complete ones are on the reactor's queue or served.  *)
(* As long as no two reloads have overlapped, a running one is the         *)
(* youngest there is, so the queue is in the order of generations and the  *)
(* last call for each distributor is of the running generation, if it has  *)
(* come to it, or of the one before.                                       *)
(***************************************************************************)
HasRun(g) == phase[g] \notin {"none", "queued"}

OrderInv ==
  /\ \A g, h \in Generation : g < h =>
       /\ phase[h] # "none" => phase[g] # "none"
       /\ HasRun(h) => HasRun(g)
  /\ phase[0] \in Loading \cup {"done"}

\* The files that have been read.
ReadInv(g) ==
  /\ phase[g] \in {"none", "queued"} => turn[g] = 1
  /\ Complete(g) => turn[g] = Authorities
  /\ \A a \in Authority :
       /\ read[g][<<a, "status">>] # Unread <=>
            a < turn[g] \/ (a = turn[g] /\ (Complete(g) \/ phase[g] \in {"server", "insert"}))
       /\ read[g][<<a, "server">>] # Unread <=>
            a < turn[g] \/ (a = turn[g] /\ (Complete(g) \/ phase[g] = "insert"))

TodoInv(g) ==
  /\ cur[g] # NoBridge => cur[g] \in todo[g]
  /\ phase[g] # "insert" => todo[g] = {}
  /\ \A b \in todo[g] : Asked(read[g], turn[g], b) # Gone

\* The authorities for which a bridge has been inserted, or skipped.
Inserted(g, b) ==
  IF Complete(g) \/ (phase[g] = "insert" /\ b \notin todo[g]) THEN turn[g] ELSE turn[g] - 1

HeldInv(g) ==
  \A b \in Bridge, d \in Ring :
    Fits(read[g], Inserted(g, b), b, d, held[g][d], alone[g])

\* The last of them that put the bridge somewhere.
PlacedInv(g) ==
  \A b \in Bridge :
    (\E a \in 1..Inserted(g, b) : Places(read[g], a, b)) =>
      \E r \in Ring : RecordedBy(read[g], Inserted(g, b), b, r)

\* Nobody else writes the table while a generation is alone.
RecordInv(g) ==
  alone[g] /\ phase[g] \in Loading =>
    /\ \A b \in Bridge, r \in Ring : RecordedBy(read[g], Inserted(g, b), b, r) => db[b] = r
    /\ cur[g] # NoBridge => orig[g] = db[cur[g]]

LoadInv(g) ==
  phase[g] # "failed" =>
    ReadInv(g) /\ TodoInv(g) /\ HeldInv(g) /\ PlacedInv(g) /\ RecordInv(g)

HandInv ==
  /\ \A g \in Generation :
       /\ phase[g] = "publish" => next[g] =< Len(Dist)
       /\ phase[g] \notin {"publish", "done"} => next[g] = 1
  /\ \A i \in DOMAIN queue : Complete(queue[i].gen)
  /\ \A d \in Distributor : served[d] = 0 \/ Complete(served[d])

AloneInv ==
  /\ \A g, h \in Running : alone[g] => h = g
  /\ ~overlapped => \A g \in Running, h \in Generation : h > g => ~HasRun(h)

QueueInv ==
  ~overlapped =>
    \A i \in DOMAIN queue :
      /\ \A j \in DOMAIN queue : i < j => queue[i].gen =< queue[j].gen
      /\ \A d \in Distributor : served[d] =< queue[i].gen

\* The generation that a distributor will serve when the queue is empty.
Due(d, g) ==
  \/ \E i \in DOMAIN queue :
       /\ queue[i].dist = d /\ queue[i].gen = g
       /\ \A j \in DOMAIN queue : j > i => queue[j].dist # d
  \/ served[d] = g /\ \A i \in DOMAIN queue : queue[i].dist # d

\* The distributors a generation has been queued for.
Handed(g) == {Dist[i] : i \in 1..(next[g] - 1)}

DueInv ==
  ~overlapped =>
    \E last \in Generation :
      /\ \A g \in Generation : phase[g] = "done" => g =< last
      /\ \A d \in Distributor :
           \/ Due(d, last)
           \/ \E g \in Generation : phase[g] = "publish" /\ d \in Handed(g)
      /\ \A g \in Generation : phase[g] = "publish" => \A d \in Handed(g) : Due(d, g)

\* The table is as the youngest generation left it.
StoreInv ==
  ~overlapped =>
    \A g \in Generation : Complete(g) =>
      \/ \A b \in Bridge, r \in Ring :
           RecordedBy(read[g], Authorities, b, r) => db[b] = r
      \/ \E h \in Generation : h > g /\ HasRun(h)

IInv ==
  /\ TypeOK /\ OrderInv /\ \A g \in Generation : LoadInv(g)
  /\ HandInv /\ AloneInv /\ QueueInv /\ DueInv /\ StoreInv

\* No generation has begun before the start is over.
StartInv == Started \/ \A g \in Generation : HasRun(g) => g = 0

-----------------------------------------------------------------------------
\* The files as far as the generations have read them, and what a distributor
\* gives out: what the generation it serves holds for it.
givenOut == [d \in Distributor |-> IF Started THEN held[served[d]][d] ELSE {}]

Staged == INSTANCE StagedReload WITH up <- Started, given <- givenOut

\* Reload implements StagedReload: to those who are served, a reload reads one
\* file after another and replaces the bridges of a distributor at one moment,
\* by those that the files it read assign to it, whatever it, or another one,
\* has done to its rings and the table since.
ImplementsStagedReload == Staged!Spec
=============================================================================
