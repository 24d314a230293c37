SPECIFICATION Spec
CONSTANTS
  r1 = r1
  Schemas <- TheSchemas
  FirstSchema <- First
  Tables = {"users", "events"}
  OldName <- OldNames
  Rows = {r1}
  Losses <- TheLosses
  Cautious = TRUE
  MaxPlans = 3
CHECK_DEADLOCK FALSE
INVARIANTS
  RowsKept
  GoalReached
  Settled
  OfflineAgrees
  RollbackRestores
