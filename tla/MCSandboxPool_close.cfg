SPECIFICATION Spec
CONSTANTS
  Clients = {c1}
  Sandboxes = {s1, s2, s3}
  Size = 1
  Undeletable = {}
  None = None
SYMMETRY Symmetry
INVARIANTS
  CloseDestroysAll
CHECK_DEADLOCK FALSE
