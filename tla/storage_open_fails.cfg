SPECIFICATION Spec
CONSTANTS
  Thread = {t1, t2, t3}
  NoThread = NoThread
  Row = {r1, r2}
  MaxDepth = 2
  MaxDeficit = 2
  OpenCanFail = TRUE
INVARIANT AssertRefcountZero
