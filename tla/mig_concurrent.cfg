SPECIFICATION Spec
CONSTANTS
  m1 = m1
  m2 = m2
  r1 = r1
  r2 = r2
  Ids = {m1, m2}
  Order <- InOrder
  Length <- TwoSteps
  DependsOn <- SecondOnFirst
  Kind <- Kinds
  Needs <- NeedsTable
  Flagged <- FirstSteps
  Checkpointed <- TheFill
  StopOnError = TRUE
  Runners = {r1, r2}
  MaxRuns = 2
  MaxEdits = 0
  Crashes = TRUE
  LostAnswers = TRUE
  Operator = FALSE
CHECK_DEADLOCK FALSE
INVARIANTS
  TypeOK
  PrefixDone
  CompletedIsDone
  SuccessIsRecorded
  OrderKept
