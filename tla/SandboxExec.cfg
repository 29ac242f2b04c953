SPECIFICATION ExecFairSpec
CONSTANTS
  MaxUses = 3
INVARIANTS
  ResultIsHonest
  StaleFilesHaveWriter
PROPERTIES
  ExecReturns
CHECK_DEADLOCK FALSE
