---------------------------- MODULE StorageProofs ----------------------------
(***************************************************************************)
(* Proofs about Storage, for any set of threads and rows, any nesting and  *)
(* any pattern of failing opens.                                           *)
(***************************************************************************)
EXTENDS Storage, TLAPS

LEMMA InitInv == Init => IInv
  <1> SUFFICES ASSUME Init PROVE IInv
    OBVIOUS
  <1> USE NoThreadAssumption DEF Init
  <1>1. TypeOK
    BY DEF TypeOK, PC
  <1>2. LockInv
    BY DEF LockInv, Inside, InGetDB
  <1>3. HandleInv
    BY DEF HandleInv, RefcountExact, NoForeignWrites
  <1>4. CleanInv
    BY DEF CleanInv
  <1> QED
    BY <1>1, <1>2, <1>3, <1>4 DEF IInv

-----------------------------------------------------------------------------
(* One lemma per action, or per group of actions that touch the same state. *)

\* Waiting for the lock, or being refused it, disturbs nothing else.
LEMMA QuietStep ==
  ASSUME IInv, NEW t \in Thread,
         \/ Call(t)
         \/ LeaveRefused(t)
         \/ TryCall(t) /\ ~LockFree(t)
  PROVE  IInv'
  <1> DEFINE Quiet == /\ UNCHANGED <<handle, depth, view, store>>
                      /\ \E q \in {"wait", "run", "refused"} :
                            pc' = [pc EXCEPT ![t] = q]
                      /\ ~InGetDB(t)
  <1>1. Quiet
    BY DEF IInv, TypeOK, Call, LeaveRefused, TryCall, InGetDB, handle
  <1>2. TypeOK'
    BY <1>1 DEF IInv, TypeOK, PC, handle
  <1>3. \A u \in Thread : /\ InGetDB(u)' <=> InGetDB(u)
                          /\ Inside(u)' <=> Inside(u)
                          /\ (pc[u] = "leave")' <=> pc[u] = "leave"
    BY <1>1 DEF IInv, TypeOK, InGetDB, Inside, handle
  <1>4. LockInv'
    BY <1>1, <1>3 DEF IInv, LockInv, TypeOK, handle
  <1>5. HandleInv' /\ CleanInv' /\ (locked = lockCount)'
    BY <1>1, <1>3 DEF IInv, HandleInv, CleanInv, RefcountExact,
                      NoForeignWrites, TypeOK, handle
  <1> QED
    BY <1>2, <1>4, <1>5 DEF IInv

\* The lock is taken: by nobody's neighbour, at the owner's next level.
LEMMA TakeStep ==
  ASSUME IInv, NEW t \in Thread,
         pc[t] \in {"wait", "run"}, LockFree(t), Take(t),
         UNCHANGED <<refcount, opened, depth, view, store>>
  PROVE  IInv'
  <1> USE NoThreadAssumption DEF IInv, Take
  <1>1. TypeOK'
    BY DEF TypeOK, PC
  <1>2. ~InGetDB(t) /\ InGetDB(t)'
    BY DEF TypeOK, InGetDB
  <1>3. \A u \in Thread \ {t} : ~Inside(u) /\ ~Inside(u)'
    BY DEF LockFree, LockInv, Inside, TypeOK
  <1>4. lockOwner = NoThread => depth[t] = 0
    BY DEF LockInv, Inside, TypeOK
  <1>5. lockCount = depth[t]
    BY <1>2, <1>4 DEF LockInv, LockFree, TypeOK
  <1>6. LockInv'
    BY <1>2, <1>3, <1>5 DEF LockInv, TypeOK
  <1>7. HandleInv' /\ CleanInv'
    BY DEF HandleInv, CleanInv, RefcountExact, NoForeignWrites, LockFree,
           TypeOK
  <1>8. (locked = lockCount)'
    OBVIOUS
  <1> QED
    BY <1>1, <1>6, <1>7, <1>8

\* A body is entered on a connection of the thread's own.
LEMMA YieldStep ==
  ASSUME IInv, NEW t \in Thread, Open(t) \/ Share(t)
  PROVE  IInv'
  <1> USE NoThreadAssumption DEF IInv
  <1>1. TypeOK'
    BY DEF TypeOK, PC, Open, Share, Yield
  <1>2. InGetDB(t) /\ ~InGetDB(t)'
    BY DEF TypeOK, InGetDB, Open, Share, Yield
  <1>3. lockOwner = t /\ lockOwner' = t
    BY <1>2 DEF LockInv, Inside, InGetDB, Open, Share, Yield
  <1>4. \A u \in Thread \ {t} : ~Inside(u) /\ ~Inside(u)' /\ depth[u] = 0
    BY <1>3 DEF LockInv, Inside, TypeOK, Open, Share, Yield
  <1>5. opened' = t
    BY <1>3 DEF HandleInv, Open, Share
  <1>6. refcount' = depth'[t] /\ refcount' > 0
    BY <1>3 DEF HandleInv, RefcountExact, Open, Share, Yield, TypeOK
  <1>7. LockInv'
    BY <1>2, <1>3, <1>4 DEF LockInv, Inside, TypeOK, Open, Share, Yield
  <1>8. HandleInv'
    <2>1. view' = view /\ store' = store /\ pc'[t] = "run"
      BY DEF Open, Share, Yield, TypeOK
    <2> QED
      BY <1>1, <1>3, <1>5, <1>6, <2>1
      DEF HandleInv, RefcountExact, NoForeignWrites, Open, Share, TypeOK
  <1>9. CleanInv' /\ (locked = lockCount)'
    BY <1>5 DEF CleanInv, Open, Share, Yield
  <1> QED
    BY <1>1, <1>7, <1>8, <1>9

\* An exception while opening: on the way out, with nothing opened.
LEMMA EnterRaisesStep ==
  ASSUME IInv, NEW t \in Thread, EnterRaises(t)
  PROVE  IInv'
  <1> USE NoThreadAssumption DEF IInv, EnterRaises, handle
  <1>1. TypeOK'
    BY DEF TypeOK, PC
  <1>2. \A u \in Thread : (InGetDB(u)' <=> InGetDB(u)) /\ (Inside(u)' <=> Inside(u))
    BY DEF TypeOK, InGetDB, Inside
  <1>3. LockInv'
    BY <1>2 DEF LockInv, TypeOK
  <1>4. HandleInv'
    BY DEF HandleInv, RefcountExact, NoForeignWrites
  <1>5. CleanInv'
    BY OpenCanFailAssumption DEF CleanInv
  <1> QED
    BY <1>1, <1>3, <1>4, <1>5

\* Statements, commits and rollbacks of a body stay inside its session.
LEMMA DataStep ==
  ASSUME IInv, NEW t \in Thread,
         Commit(t) \/ Rollback(t) \/ \E r \in Row : Write(t, r)
  PROVE  IInv'
  <1> USE NoThreadAssumption DEF IInv, handle
  <1>1. UNCHANGED <<handle, pc, depth>>
    BY DEF Commit, Rollback, Write
  <1>2. opened = t
    BY DEF Commit, Rollback, Write, InBody, HandleInv, LockInv, Inside, TypeOK
  <1>3. TypeOK'
    BY <1>1 DEF TypeOK, PC, Commit, Rollback, Write
  <1>4. LockInv' /\ CleanInv'
    BY <1>1 DEF LockInv, CleanInv, Inside, InGetDB
  <1>5. NoForeignWrites'
    BY <1>1, <1>2 DEF HandleInv, NoForeignWrites, Commit, Rollback, Write, TypeOK
  <1>6. HandleInv'
    BY <1>1, <1>2, <1>5 DEF HandleInv, RefcountExact
  <1> QED
    BY <1>1, <1>3, <1>4, <1>6

\* A body is left; its reference is still to be dropped.
LEMMA ExitStep ==
  ASSUME IInv, NEW t \in Thread, Exit(t)
  PROVE  IInv'
  <1> USE NoThreadAssumption DEF IInv, Exit, handle
  <1>1. depth[t] > 0 /\ pc[t] = "run"
    BY DEF InBody
  <1>2. TypeOK'
    BY <1>1 DEF TypeOK, PC
  <1>3. lockOwner = t /\ opened = t
    BY <1>1 DEF LockInv, HandleInv, Inside, TypeOK
  <1>4. pc'[t] = "leave" /\ depth'[t] = depth[t] - 1
    BY DEF TypeOK
  <1>5. \A u \in Thread \ {t} : Inside(u)' <=> Inside(u)
    BY DEF Inside, TypeOK
  <1>6. LockInv'
    BY <1>1, <1>3, <1>4, <1>5 DEF LockInv, InGetDB, Inside, TypeOK
  <1>7. HandleInv'
    BY <1>1, <1>3, <1>4 DEF HandleInv, RefcountExact, NoForeignWrites, TypeOK
  <1>8. CleanInv'
    BY <1>3 DEF CleanInv
  <1> QED
    BY <1>2, <1>6, <1>7, <1>8

\* The last reference closes the connection and forgets what it held; after
\* a failed open there is no connection and the count only moves away from 0.
LEMMA DropReferenceStep ==
  ASSUME IInv, NEW t \in Thread, DropReference(t)
  PROVE  IInv'
  <1> USE NoThreadAssumption DEF IInv, DropReference
  <1>1. TypeOK'
    BY DEF TypeOK, PC
  <1>2. \A u \in Thread : (InGetDB(u)' <=> InGetDB(u)) /\ (Inside(u)' <=> Inside(u))
    BY DEF TypeOK, InGetDB, Inside
  <1>3. LockInv'
    BY <1>2 DEF LockInv, TypeOK
  <1>4. lockOwner = t
    BY DEF LockInv, Inside
  <1>5. \A u \in Thread \ {t} : depth[u] = 0 /\ pc[u] # "leave"
    BY <1>4 DEF LockInv, Inside, TypeOK
  <1>6. CASE opened = NoThread
    <2>1. refcount' < 0 /\ opened' = NoThread /\ UNCHANGED <<view, store, depth>>
      BY <1>6 DEF HandleInv, RefcountExact, TypeOK
    <2>2. HandleInv'
      BY <1>6, <2>1 DEF HandleInv, RefcountExact, NoForeignWrites
    <2>3. CleanInv'
      BY <1>6 DEF CleanInv
    <2> QED
      BY <1>1, <1>3, <2>2, <2>3
  <1>7. CASE opened # NoThread
    <2>1. opened = t /\ refcount = depth[t] + 1
      BY <1>4, <1>7 DEF HandleInv, RefcountExact
    <2>2. refcount' = depth[t] /\ pc'[t] = "release" /\ depth' = depth
      BY <2>1 DEF TypeOK
    <2>3. CASE depth[t] = 0
      <3>1. refcount' = 0 /\ opened' = NoThread /\ view' = store /\ store' = store
        BY <2>2, <2>3
      <3>2. \A u \in Thread : depth'[u] = 0 /\ pc'[u] # "leave"
        BY <1>5, <2>2, <2>3 DEF TypeOK
      <3> QED
        BY <1>1, <1>3, <3>1, <3>2
        DEF HandleInv, RefcountExact, NoForeignWrites, CleanInv
    <2>4. CASE depth[t] # 0
      <3>1. refcount' > 0 /\ UNCHANGED <<opened, view, store, lockOwner>>
        BY <2>2, <2>4 DEF TypeOK
      <3> QED
        BY <1>1, <1>3, <1>4, <1>7, <2>1, <2>2, <3>1
        DEF HandleInv, RefcountExact, NoForeignWrites, CleanInv
    <2> QED
      BY <2>3, <2>4
  <1> QED
    BY <1>6, <1>7

\* The lock is given back only when the thread has left its outermost block.
LEMMA ReleaseStep ==
  ASSUME IInv, NEW t \in Thread, Release(t)
  PROVE  IInv'
  <1> USE NoThreadAssumption DEF IInv, Release
  <1>1. lockOwner = t /\ lockCount = depth[t] + 1
    BY DEF LockInv, Inside, InGetDB
  <1>2. TypeOK'
    BY <1>1 DEF TypeOK, PC
  <1>3. pc'[t] = "run" /\ lockCount' = depth[t]
    BY <1>1 DEF TypeOK
  <1>4. \A u \in Thread \ {t} : ~Inside(u) /\ ~Inside(u)'
    BY <1>1 DEF LockInv, Inside, TypeOK
  <1>5. LockInv'
    BY <1>1, <1>3, <1>4 DEF LockInv, Inside, InGetDB, TypeOK
  <1>6. opened # NoThread => depth[t] > 0
    BY <1>1 DEF HandleInv, RefcountExact, TypeOK
  <1>7. HandleInv'
    BY <1>1, <1>3, <1>6 DEF HandleInv, RefcountExact, NoForeignWrites, TypeOK
  <1>8. CleanInv' /\ (locked = lockCount)'
    BY <1>3 DEF CleanInv, TypeOK
  <1> QED
    BY <1>2, <1>5, <1>7, <1>8

LEMMA RestartStep == ASSUME IInv, Restart PROVE IInv'
  <1> USE NoThreadAssumption DEF Restart
  <1>1. TypeOK'
    BY DEF IInv, TypeOK, PC
  <1>2. LockInv'
    BY DEF LockInv, Inside, InGetDB
  <1>3. HandleInv' /\ CleanInv'
    BY DEF HandleInv, RefcountExact, NoForeignWrites, CleanInv
  <1> QED
    BY <1>1, <1>2, <1>3 DEF IInv

LEMMA StutterStep == ASSUME IInv, UNCHANGED vars PROVE IInv'
  BY DEF vars, IInv, TypeOK, LockInv, HandleInv, CleanInv, RefcountExact,
         NoForeignWrites, Inside, InGetDB

LEMMA NextInv == IInv /\ [Next]_vars => IInv'
  <1> SUFFICES ASSUME IInv, [Next]_vars PROVE IInv'
    OBVIOUS
  <1>1. ASSUME NEW t \in Thread, Acquire(t) PROVE IInv'
    BY <1>1, TakeStep DEF Acquire
  <1>2. ASSUME NEW t \in Thread, TryCall(t) PROVE IInv'
    <2>1. CASE LockFree(t)
      BY <1>2, <2>1, TakeStep DEF TryCall
    <2>2. CASE ~LockFree(t)
      BY <1>2, <2>2, QuietStep
    <2> QED
      BY <2>1, <2>2
  <1>3. ASSUME NEW t \in Thread, Steps(t) PROVE IInv'
    BY <1>3, QuietStep, YieldStep, EnterRaisesStep, DropReferenceStep,
       ReleaseStep DEF Steps
  <1>4. ASSUME NEW t \in Thread, Body(t) PROVE IInv'
    BY <1>4, DataStep, ExitStep DEF Body
  <1> QED
    BY <1>1, <1>2, <1>3, <1>4, QuietStep, RestartStep, StutterStep DEF Next

-----------------------------------------------------------------------------
(* The theorems *)

\* The inductive invariant holds in every state of Storage.
THEOREM Invariance == Spec => []IInv
  BY InitInv, NextInv, PTL DEF Spec

\* Every variable keeps its type.
THEOREM TypeCorrect == Spec => []TypeOK
  <1>1. IInv => TypeOK
    BY DEF IInv
  <1> QED
    BY <1>1, Invariance, PTL

\* A body always runs on a connection of its own thread, alone
\* (the promise of getDB's docstring).
THEOREM SessionsAreExclusive == Spec => []UsableInThread
  <1>1. IInv => UsableInThread
    BY NoThreadAssumption
    DEF IInv, TypeOK, LockInv, HandleInv, UsableInThread, Inside
  <1> QED
    BY <1>1, Invariance, PTL

\* _LOCKED counts the levels at which the lock is held.
THEOREM LockedCounts == Spec => []LockedIsExact
  <1>1. ASSUME IInv PROVE LockedIsExact
    <2>1. ASSUME NEW t \in Thread, Inside(t) PROVE locked # 0
      BY <1>1, <2>1, NoThreadAssumption DEF IInv, LockInv
    <2>2. ASSUME locked # 0 PROVE \E t \in Thread : Inside(t)
      <3>1. lockOwner \in Thread /\ lockCount # 0
        BY <1>1, <2>2 DEF IInv, TypeOK, LockInv
      <3>2. Inside(lockOwner)
        BY <1>1, <3>1, NoThreadAssumption
        DEF IInv, TypeOK, LockInv, Inside, InGetDB
      <3> QED
        BY <3>1, <3>2
    <2> QED
      BY <1>1, <2>1, <2>2 DEF LockedIsExact, IInv
  <1> QED
    BY <1>1, Invariance, PTL

\* _REFCOUNT counts the bodies on the open connection, so the last one out
\* closes it and nobody else does.
THEOREM ReferencesCounted == Spec => []RefcountExact
  <1>1. IInv => RefcountExact
    BY DEF IInv, HandleInv
  <1> QED
    BY <1>1, Invariance, PTL

\* Nothing written by one session and not committed is left for another.
THEOREM NothingLeaks == Spec => []NoForeignWrites
  <1>1. IInv => NoForeignWrites
    BY DEF IInv, HandleInv
  <1> QED
    BY <1>1, Invariance, PTL

\* The assertion `_REFCOUNT == 0` in getDB can only fail after a
\* Database() that raised.
THEOREM AssertionNeedsFailure ==
  ASSUME ~OpenCanFail
  PROVE  Spec => []AssertRefcountZero
  <1>1. IInv => AssertRefcountZero
    BY DEF IInv, CleanInv, AssertRefcountZero
  <1> QED
    BY <1>1, Invariance, PTL

\* Every step of getDB and of the bodies is a step of SerialStore.
LEMMA SerialStep == IInv /\ [Next]_vars => [Serial!Next]_Serial!vars
  <1> SUFFICES ASSUME IInv, [Next]_vars PROVE [Serial!Next]_Serial!vars
    OBVIOUS
  <1> USE DEF Serial!vars
  <1>1. ASSUME NEW t \in Thread, Open(t) PROVE Serial!Next
    BY <1>1 DEF Open, Yield, Serial!Next, Serial!Begin
  <1>2. ASSUME NEW t \in Thread, DropReference(t) PROVE [Serial!Next]_Serial!vars
    BY <1>2 DEF DropReference, Serial!Next, Serial!End
  <1>3. ASSUME NEW t \in Thread, Body(t) PROVE [Serial!Next]_Serial!vars
    <2>1. InBody(t) => opened = t
      BY DEF InBody, IInv, HandleInv, LockInv, Inside, TypeOK
    <2>2. ASSUME NEW r \in Row, Write(t, r) PROVE Serial!Next
      BY <2>1, <2>2 DEF Write, handle, Serial!Next, Serial!Write
    <2>3. CASE Commit(t)
      BY <2>1, <2>3 DEF Commit, handle, Serial!Next, Serial!Commit
    <2>4. CASE Rollback(t)
      BY <2>1, <2>4 DEF Rollback, handle, Serial!Next, Serial!Rollback
    <2>5. CASE Exit(t)
      BY <2>5 DEF Exit, handle
    <2> QED
      BY <1>3, <2>2, <2>3, <2>4, <2>5 DEF Body
  <1>4. CASE Restart
    BY <1>4 DEF Restart, Serial!Next, Serial!End
  <1>5. ASSUME NEW t \in Thread,
               \/ Call(t) \/ TryCall(t) \/ Acquire(t) \/ Share(t)
               \/ EnterRaises(t) \/ Release(t) \/ LeaveRefused(t)
        PROVE  UNCHANGED Serial!vars
    BY <1>5 DEF Call, TryCall, Acquire, Share, Yield, EnterRaises, Release,
                LeaveRefused, Take, handle
  <1>6. CASE UNCHANGED vars
    BY <1>6 DEF vars
  <1> QED
    BY <1>1, <1>2, <1>3, <1>4, <1>5, <1>6 DEF Next, Steps

\* Storage implements SerialStore: the threads' sessions, nested and failing
\* as they may, look like one session after another.
THEOREM Refinement == Spec => ImplementsSerialStore
  <1>1. Init => Serial!Init
    BY DEF Init, Serial!Init
  <1> QED
    BY <1>1, SerialStep, Invariance, PTL
    DEF Spec, ImplementsSerialStore, Serial!Spec
=============================================================================
