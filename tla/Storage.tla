------------------------------- MODULE Storage -------------------------------
(***************************************************************************)
(* The database handle of src/bridgedb/Storage.py: the re-entrant lock,    *)
(* the module globals _LOCKED, _OPENED_DB and _REFCOUNT, and the context   *)
(* manager getDB that every reader and writer of the sqlite file goes      *)
(* through, in the reactor thread and in the threads of callInThread.      *)
(*                                                                         *)
(* The globals are only touched by the thread that owns the lock, so the   *)
(* entry code is one step after the acquisition; the exit code is two      *)
(* steps (drop the reference and maybe close, then release the lock).      *)
(***************************************************************************)
EXTENDS Integers

CONSTANTS
  Thread,         \* threads that call getDB
  NoThread,       \* nobody
  Row,            \* rows of the database
  MaxDepth,       \* bound: nested `with getDB()` blocks of one thread
  MaxDeficit,     \* bound: how far below zero _REFCOUNT is followed
  OpenCanFail     \* whether Database(_DB_FNAME) may raise

ASSUME NoThreadAssumption == NoThread \notin Thread
ASSUME DepthAssumption == MaxDepth \in Nat /\ MaxDeficit \in Nat
ASSUME OpenCanFailAssumption == OpenCanFail \in BOOLEAN

VARIABLES
  lockOwner, lockCount,   \* threading.RLock: owner and recursion level
  locked,                 \* _LOCKED
  refcount,               \* _REFCOUNT
  opened,                 \* _OPENED_DB: the thread whose connection it is
  pc,                     \* where each thread is in getDB
  depth,                  \* `with getDB()` bodies each thread is inside of
  view,                   \* the rows as the open connection sees them
  store                   \* the committed rows

handle == <<lockOwner, lockCount, locked, refcount, opened>>
vars == <<lockOwner, lockCount, locked, refcount, opened, pc, depth, view, store>>

(***************************************************************************)
(* "run": outside getDB's own code, in a body when depth is positive;      *)
(* "wait": in _LOCK.acquire(True); "enter": own_lock is true and _LOCKED   *)
(* is counted; "leave": in the finally clause; "release": the reference is *)
(* dropped; "refused": a getDB(False) that yielded False.                  *)
(***************************************************************************)
PC == {"run", "wait", "enter", "leave", "release", "refused"}

LockFree(t) == lockOwner \in {NoThread, t}

Init ==
  /\ lockOwner = NoThread /\ lockCount = 0
  /\ locked = 0 /\ refcount = 0
  /\ opened = NoThread
  /\ pc = [t \in Thread |-> "run"]
  /\ depth = [t \in Thread |-> 0]
  /\ store = [r \in Row |-> NoThread]
  /\ view = store

Take(t) ==
  /\ lockOwner' = t
  /\ lockCount' = lockCount + 1
  /\ locked' = locked + 1
  /\ pc' = [pc EXCEPT ![t] = "enter"]

\* with getDB(): the thread asks for the lock and will wait for it.
Call(t) ==
  /\ pc[t] = "run" /\ depth[t] < MaxDepth
  /\ refcount > -MaxDeficit
  /\ pc' = [pc EXCEPT ![t] = "wait"]
  /\ UNCHANGED <<handle, depth, view, store>>

Acquire(t) ==
  /\ pc[t] = "wait" /\ LockFree(t)
  /\ Take(t)
  /\ UNCHANGED <<refcount, opened, depth, view, store>>

\* with getDB(False): no waiting; a refused caller's body runs with False.
TryCall(t) ==
  /\ pc[t] = "run" /\ depth[t] < MaxDepth
  /\ refcount > -MaxDeficit
  /\ \/ LockFree(t) /\ Take(t)
     \/ /\ ~LockFree(t)
        /\ pc' = [pc EXCEPT ![t] = "refused"]
        /\ UNCHANGED <<lockOwner, lockCount, locked>>
  /\ UNCHANGED <<refcount, opened, depth, view, store>>

\* Fault: the finally clause without its assertion.
LeaveRefusedUncounted(t) ==
  /\ pc[t] = "refused"
  /\ locked' = locked - 1
  /\ pc' = [pc EXCEPT ![t] = "run"]
  /\ UNCHANGED <<lockOwner, lockCount, refcount, opened, depth, view, store>>

\* The refused body ends: `assert own_lock` raises, no global is touched.
LeaveRefused(t) ==
  /\ pc[t] = "refused"
  /\ pc' = [pc EXCEPT ![t] = "run"]
  /\ UNCHANGED <<handle, depth, view, store>>

\* _REFCOUNT += 1; yield _OPENED_DB
Yield(t) ==
  /\ refcount' = refcount + 1
  /\ depth' = [depth EXCEPT ![t] = @ + 1]
  /\ pc' = [pc EXCEPT ![t] = "run"]
  /\ UNCHANGED <<lockOwner, lockCount, locked, view, store>>

\* No connection is open: assert _REFCOUNT == 0, then Database(_DB_FNAME).
Open(t) ==
  /\ pc[t] = "enter" /\ opened = NoThread /\ refcount = 0
  /\ opened' = t
  /\ Yield(t)

\* Fault: only the block that opens the connection counts.
ShareUncounted(t) ==
  /\ pc[t] = "enter" /\ opened # NoThread
  /\ depth' = [depth EXCEPT ![t] = @ + 1]
  /\ pc' = [pc EXCEPT ![t] = "run"]
  /\ UNCHANGED <<handle, view, store>>

\* This thread is inside an outer block already: share its connection.
Share(t) ==
  /\ pc[t] = "enter" /\ opened # NoThread
  /\ UNCHANGED opened
  /\ Yield(t)

\* Fault: no finally clause around the opening.
EnterRaisesThrough(t) ==
  /\ pc[t] = "enter" /\ opened = NoThread
  /\ refcount # 0 \/ OpenCanFail
  /\ pc' = [pc EXCEPT ![t] = "run"]
  /\ UNCHANGED <<handle, depth, view, store>>

\* Database() raises, or the assertion before it does: on to the finally.
EnterRaises(t) ==
  /\ pc[t] = "enter" /\ opened = NoThread
  /\ refcount # 0 \/ OpenCanFail
  /\ pc' = [pc EXCEPT ![t] = "leave"]
  /\ UNCHANGED <<handle, depth, view, store>>

\* The caller's body: statements on the connection, commit and rollback.
InBody(t) == pc[t] = "run" /\ depth[t] > 0

\* Fault: a connection in autocommit mode.
WriteThrough(t, r) ==
  /\ InBody(t)
  /\ view' = [view EXCEPT ![r] = t]
  /\ store' = [store EXCEPT ![r] = t]
  /\ UNCHANGED <<handle, pc, depth>>

Write(t, r) ==
  /\ InBody(t)
  /\ view' = [view EXCEPT ![r] = t]
  /\ UNCHANGED <<handle, pc, depth, store>>

Commit(t) ==
  /\ InBody(t)
  /\ store' = view
  /\ UNCHANGED <<handle, pc, depth, view>>

Rollback(t) ==
  /\ InBody(t)
  /\ view' = store
  /\ UNCHANGED <<handle, pc, depth, store>>

\* The body returns or raises.
Exit(t) ==
  /\ InBody(t)
  /\ depth' = [depth EXCEPT ![t] = @ - 1]
  /\ pc' = [pc EXCEPT ![t] = "leave"]
  /\ UNCHANGED <<handle, view, store>>

\* Fault: the connection is forgotten but not closed, and found again.
DropReferenceUnclosed(t) ==
  /\ pc[t] = "leave"
  /\ refcount' = refcount - 1
  /\ opened' = IF refcount' = 0 THEN NoThread ELSE opened
  /\ pc' = [pc EXCEPT ![t] = "release"]
  /\ UNCHANGED <<lockOwner, lockCount, locked, depth, view, store>>

\* _REFCOUNT -= 1; at zero close the connection: sqlite drops what was not
\* committed.
DropReference(t) ==
  /\ pc[t] = "leave"
  /\ refcount' = refcount - 1
  /\ IF refcount' = 0
       THEN opened' = NoThread /\ view' = store
       ELSE UNCHANGED <<opened, view>>
  /\ pc' = [pc EXCEPT ![t] = "release"]
  /\ UNCHANGED <<lockOwner, lockCount, locked, depth, store>>

\* Fault: a lock without recursion levels.
ReleaseAll(t) ==
  /\ pc[t] = "release"
  /\ locked' = locked - 1
  /\ lockCount' = lockCount - 1
  /\ lockOwner' = NoThread
  /\ pc' = [pc EXCEPT ![t] = "run"]
  /\ UNCHANGED <<refcount, opened, depth, view, store>>

\* Fault: _LOCKED is only counted down when the connection was closed.
ReleaseUncounted(t) ==
  /\ pc[t] = "release"
  /\ locked' = IF opened = NoThread THEN locked - 1 ELSE locked
  /\ lockCount' = lockCount - 1
  /\ lockOwner' = IF lockCount = 1 THEN NoThread ELSE lockOwner
  /\ pc' = [pc EXCEPT ![t] = "run"]
  /\ UNCHANGED <<refcount, opened, depth, view, store>>

\* _LOCKED -= 1; _LOCK.release()
Release(t) ==
  /\ pc[t] = "release"
  /\ locked' = locked - 1
  /\ lockCount' = lockCount - 1
  /\ lockOwner' = IF lockCount = 1 THEN NoThread ELSE lockOwner
  /\ pc' = [pc EXCEPT ![t] = "run"]
  /\ UNCHANGED <<refcount, opened, depth, view, store>>

\* The process dies and is started again; only the file survives.
Restart ==
  /\ lockOwner' = NoThread /\ lockCount' = 0
  /\ locked' = 0 /\ refcount' = 0
  /\ opened' = NoThread
  /\ pc' = [t \in Thread |-> "run"]
  /\ depth' = [t \in Thread |-> 0]
  /\ view' = store
  /\ UNCHANGED store

\* The steps of getDB itself, once it has the lock.
Steps(t) ==
  \/ Open(t) \/ Share(t) \/ EnterRaises(t)
  \/ DropReference(t) \/ Release(t) \/ LeaveRefused(t)

Body(t) ==
  \/ Commit(t) \/ Rollback(t) \/ Exit(t)
  \/ \E r \in Row : Write(t, r)

Next ==
  \/ \E t \in Thread :
        Call(t) \/ TryCall(t) \/ Acquire(t) \/ Steps(t) \/ Body(t)
  \/ Restart

Spec == Init /\ [][Next]_vars

(***************************************************************************)
(* Fairness.  A thread that is scheduled runs getDB's code to its end, and *)
(* every body in the code base is a finite list of statements, so it       *)
(* exits.  Which waiter gets a free lock is not promised by                *)
(* threading.RLock: only that one of those waiting does.                   *)
(***************************************************************************)
FairSpec ==
  /\ Spec
  /\ \A t \in Thread : WF_vars(Steps(t)) /\ WF_vars(Exit(t))
  /\ WF_vars(\E t \in Thread : Acquire(t))

-----------------------------------------------------------------------------
(* Properties *)

TypeOK ==
  /\ lockOwner \in Thread \cup {NoThread} /\ lockCount \in Nat
  /\ locked \in Nat /\ refcount \in Int
  /\ opened \in Thread \cup {NoThread}
  /\ pc \in [Thread -> PC]
  /\ depth \in [Thread -> Nat]
  /\ view \in [Row -> Thread \cup {NoThread}]
  /\ store \in [Row -> Thread \cup {NoThread}]

\* Between the acquisition of the lock and its release.
Inside(t) == depth[t] > 0 \/ pc[t] \in {"enter", "leave", "release"}

\* getDB's docstring: the handle yielded is "usable within the current
\* thread".  A sqlite3 connection is usable only in the thread that made it:
\* whoever runs a body runs it on a connection of its own, alone.
UsableInThread ==
  \A t \in Thread : depth[t] > 0 =>
    /\ opened = t
    /\ \A u \in Thread \ {t} : ~Inside(u)

\* dbIsLocked() (_LOCKED # 0) tells whether the lock is held, however
\* deeply it is nested and whatever was raised on the way.
LockedIsExact ==
  /\ locked = lockCount
  /\ (locked # 0) <=> (\E t \in Thread : Inside(t))

\* What a connection holds uncommitted was written by the thread in session:
\* nothing an earlier session left behind rides along with the next commit.
NoForeignWrites ==
  \A r \in Row : view[r] # store[r] => opened # NoThread /\ view[r] \in {opened, NoThread}

\* While a connection is open the reference count is exactly the number of
\* bodies its thread has entered and not yet dropped, so the last one out
\* closes it and nobody closes it earlier; with no connection open the count
\* is never positive, so a stale count cannot keep a later one from closing.
RefcountExact ==
  IF opened = NoThread
    THEN refcount =< 0
    ELSE refcount = depth[opened] + (IF pc[opened] = "leave" THEN 1 ELSE 0)

\* The assertion in getDB: a connection is only opened at reference count 0.
\* (Storage.py, `assert _REFCOUNT == 0`)
AssertRefcountZero ==
  \A t \in Thread : pc[t] = "enter" /\ opened = NoThread => refcount = 0

\* While threads wait for the database, one of the callers gets it, or every
\* waiter is told (by an exception, or by the process dying): they are never
\* all stuck behind a lock nobody gives back.
SomebodyIsServed ==
  LET Waits(t) == pc[t] = "wait" IN
  (\E t \in Thread : Waits(t)) ~>
    ((\E t \in Thread : depth[t] > 0) \/ (\A t \in Thread : ~Waits(t)))

-----------------------------------------------------------------------------
(***************************************************************************)
(* The inductive invariant behind these.  The lock is what everything      *)
(* rests on: who is inside getDB owns it, and the owner's recursion level  *)
(* counts its bodies.  The handle follows from it: an open connection      *)
(* belongs to the owner, and no connection means no body and nothing       *)
(* uncommitted.                                                            *)
(***************************************************************************)
InGetDB(t) == pc[t] \in {"enter", "leave", "release"}

LockInv ==
  /\ \A t \in Thread : Inside(t) => lockOwner = t
  /\ lockOwner # NoThread =>
       lockCount = depth[lockOwner] + (IF InGetDB(lockOwner) THEN 1 ELSE 0)
  /\ lockOwner = NoThread <=> lockCount = 0

HandleInv ==
  /\ opened # NoThread => lockOwner = opened /\ refcount > 0
  /\ opened = NoThread => view = store /\ \A t \in Thread : depth[t] = 0
  /\ RefcountExact
  /\ NoForeignWrites

\* When opening cannot fail, the count and the connection agree.
CleanInv ==
  ~OpenCanFail /\ opened = NoThread =>
    refcount = 0 /\ \A t \in Thread : pc[t] # "leave"

IInv == TypeOK /\ LockInv /\ locked = lockCount /\ HandleInv /\ CleanInv

\* Storage implements SerialStore: a session is an open connection.
Serial == INSTANCE SerialStore WITH holder <- opened
ImplementsSerialStore == Serial!Spec
=============================================================================
