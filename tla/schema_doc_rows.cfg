SPECIFICATION Spec
CONSTANTS
  r1 = r1
  Schemas <- TheSchemas
  FirstSchema <- First
  Tables = {"users", "events"}
  OldName <- OldNames
  Rows = {r1}
  Losses <- NoLosses
  Cautious = FALSE
  MaxPlans = 3
CHECK_DEADLOCK FALSE
INVARIANT
  RowsKept
