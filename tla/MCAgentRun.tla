------------------------------ MODULE MCAgentRun ------------------------------
(* TLC instance of AgentRun: two runs, of agents with limits of their own,     *)
(* over two sandboxes that other clients use too.                              *)
EXTENDS AgentRun, TLC

CONSTANTS r1, r2

TwoLimits == (r1 :> 2 @@ r2 :> 1)
Default   == (r1 :> 0 @@ r2 :> 1)

=============================================================================
