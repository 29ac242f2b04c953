SPECIFICATION EvalSpec
CONSTANTS
  Evals = {e1, e2}
  NCases = 2
  SuiteChecks = {"exit_zero"}
  K = 2
  NSamples = 3
  Suites <- MCSuites
  FailOn = {"threshold"}
SYMMETRY EvalSymmetry
INVARIANTS
  PassAtKIsEstimator
  RowsExplainRun
  GateFollowsRows
CHECK_DEADLOCK FALSE
