SPECIFICATION FairSpec
CONSTANTS
  Thread = {t1, t2, t3}
  NoThread = NoThread
  Row = {r1, r2}
  MaxDepth = 2
  MaxDeficit = 2
  OpenCanFail = TRUE
INVARIANTS TypeOK UsableInThread LockedIsExact NoForeignWrites RefcountExact
PROPERTIES ImplementsSerialStore SomebodyIsServed
