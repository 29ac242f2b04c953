SPECIFICATION Spec
CONSTANTS
  d1 = d1
  d2 = d2
  h1 = h1
  h2 = h2
  h3 = h3
  e1 = e1
  e2 = e2
  Procs = {d1, d2}
  Handlers = {h1, h2, h3}
  ProcOf <- DaemonOf
  Bodies = {e1, e2}
  MaxRows = 3
  Nobody = Nobody
SYMMETRY AuditSymmetry
INVARIANTS
  ChainIntact
  TamperingDetected
CHECK_DEADLOCK FALSE
