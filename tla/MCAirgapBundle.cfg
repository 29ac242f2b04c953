SPECIFICATION Spec
CONSTANTS
  tool = tool
  dotConfig = dotConfig
  Names = {tool, dotConfig, config, lock, manifest}
  ConfigName = config
  lockName = lock
  manifestName = manifest
  PathOf <- CleanPath
  Requests <- SomeRequests
  Contents = {d1, d2}
  Modes = {{}, {"rw"}, {"rw", "x"}}
  Default = {"rw"}
  Keys = {k1, k2}
  None = None
  Broken = Broken
SYMMETRY AirgapSymmetry
INVARIANTS
  InstalledIsPacked
  IntactOnly
CHECK_DEADLOCK FALSE
