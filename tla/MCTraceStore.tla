----------------------------- MODULE MCTraceStore -----------------------------
(* TLC instances of TraceStore: an agent run with a tool call and below it a  *)
(* span of the Python service, beside a second run; and a run whose Python     *)
(* span has no parent, as AgentLoop._generate emits it.                        *)
EXTENDS TraceStore, TLC

CONSTANTS t1, t2, run, tool, chat, other

TwoTraces  == (run :> t1 @@ tool :> t1 @@ chat :> t1 @@ other :> t2)
Nested     == (run :> None @@ tool :> run @@ chat :> tool @@ other :> None)

\* One trace, with the parent passed on, and without.
OneTrace   == (run :> t1 @@ tool :> t1 @@ chat :> t1)
Parented   == (run :> None @@ tool :> run @@ chat :> run)
Parentless == (run :> None @@ tool :> run @@ chat :> None)

=============================================================================
