---------------------------- MODULE AuthorityFiles ----------------------------
(***************************************************************************)
(* What the files of the bridge authorities make of a bridge.  load() in   *)
(* src/bridgedb/main.py reads, for one authority after another, first the  *)
(* networkstatus and then the server descriptors, and inserts the bridges  *)
(* of the two into the BridgeSplitter before it opens the next authority's *)
(* files.  Each file is taken whole; extra-infos do not matter here, as    *)
(* they do not change where a bridge goes.                                 *)
(*                                                                         *)
(* r stands for the files as somebody read them, n for the first n         *)
(* authorities, b for a bridge and d for a ring.                           *)
(***************************************************************************)
EXTENDS Integers, RingAssignment

CONSTANTS
  Bridge,
  Authorities,   \* the number of BRIDGE_AUTHORITY_DIRECTORIES
  Content,       \* what each file may say of each bridge: None, or
                 \* [digest, running, barred] in a networkstatus and
                 \* [digest, request, barred] in a server descriptor
  IgnoreNetworkstatus,
  Ring,          \* ringsByName of every splitter
  HashPlace,     \* the ring the hash of each bridge falls into
  None,          \* the file does not have the bridge
  Gone           \* the bridge is not inserted for this authority

Authority == 1..Authorities
File == Authority \X {"status", "server"}
AnyContent == UNION {Content[f] : f \in File}

ASSUME AuthorityFilesAssumption ==
  /\ Authorities \in Nat \ {0}
  /\ DOMAIN Content = File
  /\ HashPlace \in [Bridge -> Ring]
  /\ "none" \notin Ring /\ Unseen \notin Ring /\ Gone \notin Ring \cup {"none"}

\* Bridges in NO_DISTRIBUTION_COUNTRIES or with a blacklisted version are
\* skipped.  The address is the server descriptor's, if there is one, or
\* the networkstatus's, if that is not ignored.
Barred(st, sd) == IF sd = None THEN st.barred /\ ~IgnoreNetworkstatus ELSE sd.barred

\* What a bridge asks insert() for on behalf of an authority: a bridge must be
\* listed and running, and its descriptor be the one the networkstatus names,
\* unless that is ignored.  Without a descriptor it asks for "any".
Asked(r, a, b) ==
  LET st == r[<<a, "status">>][b]
      sd == r[<<a, "server">>][b] IN
  IF \/ st = None \/ ~st.running \/ Barred(st, sd)
     \/ sd # None /\ sd.digest # st.digest /\ ~IgnoreNetworkstatus
    THEN Gone
    ELSE IF sd = None THEN "any" ELSE sd.request

Places(r, a, b) == Asked(r, a, b) \notin {Gone, "none"}

PutIn(r, a, b, d) ==
  Places(r, a, b) /\ Method(Asked(r, a, b), Ring, HashPlace[b]) = d

\* After n authorities the table, if nobody else writes it, names d.
RecordedBy(r, n, b, d) ==
  \E a \in 1..n : PutIn(r, a, b, d) /\ \A j \in (a + 1)..n : ~Places(r, j, b)

\* The insert for authority j takes b from d, where it is recorded.
Leaves(r, j, b, d) == RecordedBy(r, j - 1, b, d) /\ MustLeave(d, Asked(r, j, b), Ring)

\* The bridge is in d after n authorities, if nobody else writes the table:
\* one of them put it there and none took it away later.  A bridge is taken
\* from the ring on record only, so it may be in several.
Kept(r, n, b, d) ==
  \E a \in 1..n : PutIn(r, a, b, d) /\ \A j \in (a + 1)..n : ~Leaves(r, j, b, d)

\* ... whoever else writes it: no later authority asks for another ring.
SurelyKept(r, n, b, d) ==
  \E a \in 1..n :
    PutIn(r, a, b, d) /\ \A j \in (a + 1)..n : ~MustLeave(d, Asked(r, j, b), Ring)

\* ... at most: nothing else is ever put there.
MaybeKept(r, n, b, d) == \E a \in 1..n : PutIn(r, a, b, d)

\* What a ring of somebody who read r may be with regard to b; sole if nobody
\* else wrote the table meanwhile.
Fits(r, n, b, d, ring, sole) ==
  /\ SurelyKept(r, n, b, d) => b \in ring
  /\ b \in ring => MaybeKept(r, n, b, d)
  /\ sole => (b \in ring <=> Kept(r, n, b, d))

\* The last authority that lists the bridge asks for this, puts it there.
LastAsked(r, b, request) ==
  \E a \in Authority :
    /\ Asked(r, a, b) = request
    /\ \A j \in (a + 1)..Authorities : Asked(r, j, b) = Gone

LastPutIn(r, b, d) ==
  \E a \in Authority :
    /\ PutIn(r, a, b, d)
    /\ \A j \in (a + 1)..Authorities : Asked(r, j, b) = Gone

\* The authorities put the bridge into one ring, or into none.
Agree(r, b) ==
  \A a, j \in Authority, d, e \in Ring : PutIn(r, a, b, d) /\ PutIn(r, j, b, e) => d = e
===============================================================================
