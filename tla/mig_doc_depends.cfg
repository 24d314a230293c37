SPECIFICATION Spec
CONSTANTS
  m1 = m1
  m2 = m2
  r1 = r1
  r2 = r2
  Ids = {m1, m2}
  Order <- OutOfOrder
  Length <- TwoSteps
  DependsOn <- SecondOnFirst
  Kind <- Kinds
  Needs <- NeedsNothing
  Flagged <- FirstSteps
  Checkpointed <- TheFill
  StopOnError = TRUE
  Runners = {r1}
  MaxRuns = 1
  MaxEdits = 0
  Crashes = FALSE
  LostAnswers = FALSE
  Operator = FALSE
CHECK_DEADLOCK FALSE
INVARIANT DependenciesFirst
