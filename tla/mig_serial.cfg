SPECIFICATION Spec
CONSTANTS
  m1 = m1
  m2 = m2
  r1 = r1
  r2 = r2
  Ids = {m1, m2}
  Order <- InOrder
  Length <- TwoSteps
  DependsOn <- SecondOnFirst
  Kind <- Kinds
  Needs <- NeedsTable
  Flagged <- FirstSteps
  Checkpointed <- TheFill
  StopOnError = FALSE
  Runners = {r1}
  MaxRuns = 3
  MaxEdits = 1
  Crashes = TRUE
  LostAnswers = TRUE
  Operator = TRUE
CHECK_DEADLOCK FALSE
INVARIANT RunsOnce
PROPERTY ModifiedBlocks
