----------------------------- MODULE SerialStore -----------------------------
(***************************************************************************)
(* What bridgedb.Storage.getDB promises its callers: at any moment at most *)
(* one thread is in a session with the database; what a session writes is  *)
(* seen by nobody else until it commits, a commit publishes all of it, and *)
(* a session that ends (or a process that dies) without a commit leaves no *)
(* trace.  Storage.tla is shown to implement this specification.           *)
(***************************************************************************)
CONSTANTS
  Thread,     \* the threads of the process: the reactor's and its pool's
  NoThread,   \* "no session is open"
  Row         \* the rows of the database

VARIABLES
  holder,     \* the thread in session, or NoThread
  view,       \* the rows as the open session sees them
  store       \* the committed rows: who wrote each of them last

vars == <<holder, view, store>>

Init ==
  /\ holder = NoThread
  /\ store = [r \in Row |-> NoThread]
  /\ view = store

Begin(t) ==
  /\ holder = NoThread
  /\ holder' = t
  /\ UNCHANGED <<view, store>>

Write(t, r) ==
  /\ holder = t
  /\ view' = [view EXCEPT ![r] = t]
  /\ UNCHANGED <<holder, store>>

Commit(t) ==
  /\ holder = t
  /\ store' = view
  /\ UNCHANGED <<holder, view>>

Rollback(t) ==
  /\ holder = t
  /\ view' = store
  /\ UNCHANGED <<holder, store>>

\* The session ends, or the process dies in the middle of it.
End ==
  /\ holder' = NoThread
  /\ view' = store
  /\ UNCHANGED store

Next ==
  \/ End
  \/ \E t \in Thread :
        \/ Begin(t) \/ Commit(t) \/ Rollback(t)
        \/ \E r \in Row : Write(t, r)

Spec == Init /\ [][Next]_vars
=============================================================================
