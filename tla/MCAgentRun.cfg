SPECIFICATION FairSpec
CONSTANTS
  r1 = r1
  r2 = r2
  Runs = {r1, r2}
  MaxRepair <- TwoLimits
  Sandboxes = {s1, s2}
  None = None
INVARIANTS
  StatusTellsOutcome
  FeedbackIsPrevious
  SandboxOnlyInTool
  SpansNested
  CallIdsNumber
PROPERTIES
  RunEnds
CHECK_DEADLOCK FALSE
