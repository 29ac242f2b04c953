------------------------------ MODULE MCEvalRun ------------------------------
(* TLC instance of EvalRun: two concurrent requests for suites of any kinds, *)
(* over a dataset whose cases may share an id.                               *)
EXTENDS EvalRun, TLC

\* Suites with a threshold, with two, with none and with one that no score can meet.
MCSuites ==
  LET min(n, d) == [metric |-> "score", num |-> n, den |-> d]
      absent    == [metric |-> "absent", num |-> 1, den |-> 2]
  IN  {[kind |-> "code_passk", mins |-> {min(1, 2)}],
       [kind |-> "code_passk", mins |-> {}],
       [kind |-> "deterministic", mins |-> {min(1, 2), min(1, 1)}],
       [kind |-> "deterministic", mins |-> {min(1, 2), absent}],
       [kind |-> "judge", mins |-> {min(5, 2)}],
       [kind |-> "regression", mins |-> {}]}

EvalSymmetry == Permutations(Evals)

=============================================================================
