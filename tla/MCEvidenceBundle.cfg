SPECIFICATION Spec
CONSTANTS
  Builds = {b1, b2}
  Outs = {o1, o2}
  Evals = {e1, e2}
  NCases = 1
  Times = {1, 2}
  MaxFlaws = 1
  ListLimit = 1
  None = None
SYMMETRY EvidenceSymmetry
INVARIANTS
  ReportIsComplete
  BundleCoversHistory
  FreshVerifies
  OneKey
CHECK_DEADLOCK FALSE
