SPECIFICATION Spec
CONSTANTS
  Client = {alice, wendy}
  NoClient = NoClient
  Whitelist = {wendy}
  Never = Never
  MINUTE = 3
  RATE = 6
  CleanEvery = 4
  MaxWait = 1
  MaxTime = 18
INVARIANTS TypeOK RowsAreForgotten
PROPERTIES AnswersAreSpaced OneWarningPerPeriod RefusalsEnd
CHECK_DEADLOCK FALSE
