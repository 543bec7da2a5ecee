----------------------------- MODULE StagedReload -----------------------------
(***************************************************************************)
(* What the reload() in bridgedb.main.run promises those who are served in *)
(* the meantime.  A reload reads the authorities' files one at a time, so  *)
(* that they may be half old and half new, and puts into each distributor, *)
(* at one moment, the bridges that the files it read, and nothing else,    *)
(* assign to it: exactly those if no other reload ran meanwhile; if one    *)
(* did, and wrote the same table, a bridge may also stay where one         *)
(* authority put it although another one has asked for another ring.  That *)
(* bridges are inserted one by one in two sessions with the database and   *)
(* that a reload may fail half way is not to be seen.  Reload.tla is shown *)
(* to implement this specification.                                        *)
(***************************************************************************)
EXTENDS AuthorityFiles

CONSTANTS
  Distributor, Generation,  \* the served rings; the start is generation 0
  Unread

VARIABLES
  world,         \* the files
  up,            \* have the distributors been started?
  read,          \* what each generation has read of them
  alone,         \* has no other reload run at the time of this one?
  given          \* the bridges each distributor gives out

vars == <<world, up, read, alone, given>>

Init ==
  /\ world \in [File -> AnyContent] /\ \A f \in File : world[f] \in Content[f]
  /\ up = FALSE
  /\ read = [g \in Generation |-> [f \in File |-> Unread]]
  /\ alone = [g \in Generation |-> TRUE]
  /\ given = [d \in Distributor |-> {}]

Update(f, content) ==
  /\ world' = [world EXCEPT ![f] = content]
  /\ UNCHANGED <<up, read, alone, given>>

\* The authorities' files are read in turn, the networkstatus of each before
\* its server descriptors.
Before(f) ==
  {e \in File : e[1] < f[1] \/ (e[1] = f[1] /\ e[2] = "status" /\ f[2] = "server")}

Read(g, f) ==
  /\ g = 0 \/ up
  /\ read[g][f] = Unread /\ \A e \in Before(f) : read[g][e] # Unread
  /\ read' = [read EXCEPT ![g][f] = world[f]]
  /\ UNCHANGED <<world, up, alone, given>>

\* Reloads run at the same time.
Overlap(others) ==
  /\ alone' = [g \in Generation |-> alone[g] /\ g \notin others]
  /\ UNCHANGED <<world, up, read, given>>

\* The bridges that a generation may give to a distributor.
Part(bridges, g, d) ==
  /\ \A f \in File : read[g][f] # Unread
  /\ \A b \in Bridge : Fits(read[g], Authorities, b, d, bridges, alone[g])

\* All distributors are started with what was read first.
Start ==
  /\ ~up /\ up' = TRUE
  /\ given' \in [Distributor -> SUBSET Bridge]
  /\ \A d \in Distributor : Part(given'[d], 0, d)
  /\ UNCHANGED <<world, read, alone>>

Give(d, g, bridges) ==
  /\ up /\ Part(bridges, g, d)
  /\ given' = [given EXCEPT ![d] = bridges]
  /\ UNCHANGED <<world, up, read, alone>>

Next ==
  \/ \E f \in File : \E content \in Content[f] : Update(f, content)
  \/ Start
  \/ \E g \in Generation :
       \/ \E f \in File : Read(g, f)
       \/ \E d \in Distributor, bridges \in SUBSET Bridge : Give(d, g, bridges)
  \/ \E others \in SUBSET Generation : Overlap(others)

Spec == Init /\ [][Next]_vars
===============================================================================
