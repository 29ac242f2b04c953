SPECIFICATION StartupSpec
CONSTANTS
  Configs <- AllConfigs
INVARIANTS
  FailedStartIsClean
  RunningResolves
  DefaultsSettle
CHECK_DEADLOCK FALSE
