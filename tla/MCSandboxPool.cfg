SPECIFICATION FairSpec
CONSTANTS
  Clients = {c1, c2}
  Sandboxes = {s1, s2, s3}
  Size = 1
  Undeletable = {s1}
  None = None
INVARIANTS
  ExclusiveOwnership
  LentIsAlive
  OpenPoolAccounts
  CloseReclaims
PROPERTIES
  ImplementsContract
  EventuallyWarm
CHECK_DEADLOCK FALSE
