------------------------------- MODULE AgentRun -------------------------------
(***************************************************************************)
(* Agent runs, internal/runtime/agent.go (Run, verify), over the tool      *)
(* broker, internal/mcp (Call, codeExec, runTests, runInSandbox), for      *)
(* concurrent handlers of one daemon.  The sandbox pool is taken at its    *)
(* contract (PoolContract, which SandboxPool implements); the generator is *)
(* the router: it answers or fails (Router).                               *)
(*                                                                         *)
(* What a run generates and prints is reduced to what decides: whether the *)
(* command passed, failed with output, or failed without any.              *)
(***************************************************************************)
EXTENDS Integers, Sequences, FiniteSetsExt

CONSTANTS Runs,       \* agent runs, one per handler
          MaxRepair,  \* per run: max_repair_iterations of its agent
          Sandboxes, None

\* config.DefaultMaxRepair
DefaultMaxRepair == 4
Repairs(r) == IF MaxRepair[r] <= 0 THEN DefaultMaxRepair ELSE MaxRepair[r]

ASSUME AgentAssumption == MaxRepair \in [Runs -> Int] /\ None \notin Sandboxes

VARIABLES
  pc,         \* per run: its next step
  iter,       \* per run: the loop variable
  result,     \* per run: [status, iterations]
  failure,    \* per run: lastFailure, as the number of the attempt that printed it, or 0
  prompt,     \* per run: the failure shown to the model in this iteration, or 0
  outcomes,   \* per run: outcomes of the verifications, in order
  ctx,        \* per run: the span in the context of the run's calls
  open,       \* per run: spans started and not ended
  edges,      \* per run: [span, parent, alive], the parent and whether it was open at End
  callN,      \* Broker.callN
  reg,        \* per run: callN as loaded by the increment
  raced,      \* history: two calls have overlapped in taking their ids
  idle, lent, retired   \* the pool's contract

agentVars == <<iter, result, failure, prompt, outcomes, ctx>>
spanVars  == <<open, edges>>
callVars  == <<callN, reg, raced>>
poolVars  == <<idle, lent, retired>>
vars == <<pc, agentVars, spanVars, callVars, poolVars>>

Pool == INSTANCE PoolContract WITH Clients <- Runs

Goto(r, l) == pc' = [pc EXCEPT ![r] = l]

Init ==
  /\ pc = [r \in Runs |-> "idle"]
  /\ iter = [r \in Runs |-> 0]
  /\ result = [r \in Runs |-> [status |-> "unresolved", iterations |-> 0]]
  /\ failure = [r \in Runs |-> 0] /\ prompt = [r \in Runs |-> 0]
  /\ outcomes = [r \in Runs |-> <<>>]
  /\ ctx = [r \in Runs |-> "none"]
  /\ open = [r \in Runs |-> {}] /\ edges = [r \in Runs |-> {}]
  /\ callN = 0 /\ reg = [r \in Runs |-> 0] /\ raced = FALSE
  /\ Pool!Init

\* Ended spans, each under its parent.
Edge(s, p, o) == [span |-> s, parent |-> p, alive |-> p \in o]

\* Run returns: the status is set and the deferred root.End runs.
Return(r, status) ==
  /\ result' = [result EXCEPT ![r].status = status]
  /\ open' = [open EXCEPT ![r] = @ \ {"invoke_agent"}]
  /\ Goto(r, "done")

-----------------------------------------------------------------------------

\* Run starts the root span.
Begin(r) ==
  /\ pc[r] = "idle"
  /\ ctx' = [ctx EXCEPT ![r] = "invoke_agent"]
  /\ open' = [open EXCEPT ![r] = {"invoke_agent"}]
  /\ Goto(r, "plan")
  /\ UNCHANGED <<iter, result, failure, prompt, outcomes, edges, callVars, poolVars>>

\* Deliberate error used as a mutant: the plan span's context is kept (ctx, planSpan :=).
Plan_KeepContext(r) ==
  /\ pc[r] = "plan"
  /\ ctx' = [ctx EXCEPT ![r] = "plan"]
  /\ edges' = [edges EXCEPT ![r] = @ \union {Edge("plan", ctx[r], open[r])}]
  /\ Goto(r, "generate")
  /\ UNCHANGED <<iter, result, failure, prompt, outcomes, open, callVars, poolVars>>

\* The plan span is started and ended.
Plan(r) ==
  /\ pc[r] = "plan"
  /\ edges' = [edges EXCEPT ![r] = @ \union {Edge("plan", ctx[r], open[r])}]
  /\ Goto(r, "generate")
  /\ UNCHANGED <<agentVars, open, callVars, poolVars>>

\* buildMessages: the failure is shown from the second iteration on, unless empty.
Generate(r) ==
  /\ pc[r] = "generate"
  /\ prompt' = [prompt EXCEPT ![r] = IF iter[r] > 0 THEN failure[r] ELSE 0]
  /\ open' = [open EXCEPT ![r] = @ \union {"route"}]
  /\ Goto(r, "generating")
  /\ UNCHANGED <<iter, result, failure, outcomes, ctx, edges, callVars, poolVars>>

\* The chat span ended under the route span, and the route span under ctx.
Routed(r) == {Edge("chat", "route", open[r]), Edge("route", ctx[r], open[r])}

GenerateOk(r) ==
  /\ pc[r] = "generating"
  /\ edges' = [edges EXCEPT ![r] = @ \union Routed(r)]
  /\ open' = [open EXCEPT ![r] = @ \ {"route"}]
  /\ result' = [result EXCEPT ![r].iterations = iter[r] + 1]
  /\ Goto(r, "load")
  /\ UNCHANGED <<iter, failure, prompt, outcomes, ctx, callVars, poolVars>>

GenerateError(r) ==
  /\ pc[r] = "generating"
  /\ edges' = [edges EXCEPT ![r] = @ \union Routed(r)]
  /\ result' = [result EXCEPT ![r].status = "error"]
  /\ open' = [open EXCEPT ![r] = @ \ {"route", "invoke_agent"}]
  /\ Goto(r, "done")
  /\ UNCHANGED <<iter, failure, prompt, outcomes, ctx, callVars, poolVars>>

-----------------------------------------------------------------------------
(* verify, through Broker.Call: run_tests and code_exec differ only in the  *)
(* command they run.                                                        *)

\* b.callN++ is a load and a store, with no lock.
LoadCallN(r) ==
  /\ pc[r] = "load"
  /\ reg' = [reg EXCEPT ![r] = callN]
  /\ raced' = (raced \/ \E q \in Runs : pc[q] \in {"store", "call"})
  /\ Goto(r, "store")
  /\ UNCHANGED <<agentVars, spanVars, callN, poolVars>>

\* Deliberate error used as a mutant: the id counts the calls of this run.
StoreCallN_PerRun(r) ==
  /\ pc[r] = "store"
  /\ callN' = Len(outcomes[r]) + 1
  /\ Goto(r, "call")
  /\ UNCHANGED <<agentVars, spanVars, reg, raced, poolVars>>

StoreCallN(r) ==
  /\ pc[r] = "store"
  /\ callN' = reg[r] + 1
  /\ Goto(r, "call")
  /\ UNCHANGED <<agentVars, spanVars, reg, raced, poolVars>>

\* The id is formatted from callN as it is now, and the span is started.
StartCall(r) ==
  /\ pc[r] = "call"
  /\ open' = [open EXCEPT ![r] = @ \union {"execute_tool"}]
  /\ Goto(r, "acquire")
  /\ UNCHANGED <<agentVars, edges, callVars, poolVars>>

EndToolSpan(r) ==
  /\ edges' = [edges EXCEPT ![r] = @ \union {Edge("execute_tool", ctx[r], open[r])}]
  /\ open' = [open EXCEPT ![r] = @ \ {"execute_tool"}]

Acquire(r) ==
  /\ pc[r] = "acquire"
  /\ \E s \in Sandboxes : Pool!Lend(r, s) \/ Pool!LendNew(r, s)
  /\ Goto(r, "exec")
  /\ UNCHANGED <<agentVars, spanVars, callVars>>

\* Acquire returns an error: the call and the run end with it.
AcquireError(r) ==
  /\ pc[r] = "acquire"
  /\ outcomes' = [outcomes EXCEPT ![r] = Append(@, "error")]
  /\ EndToolSpan(r)
  /\ Goto(r, "observe")
  /\ UNCHANGED <<iter, result, failure, prompt, ctx, callVars, poolVars>>

\* Exec: exit 0 in time; any other end, with or without output; or an error.
Exec(r, out) ==
  /\ pc[r] = "exec"
  /\ outcomes' = [outcomes EXCEPT ![r] = Append(@, out)]
  /\ Goto(r, "release")
  /\ UNCHANGED <<iter, result, failure, prompt, ctx, spanVars, callVars, poolVars>>

Last(q) == q[Len(q)]

\* Deliberate error used as a mutant: the release is not deferred, so an error of
\* Exec returns without it.
Release_NotDeferred(r) ==
  /\ pc[r] = "release"
  /\ IF Last(outcomes[r]) = "error" THEN UNCHANGED poolVars ELSE Pool!Return(r) \/ Pool!Discard(r)
  /\ EndToolSpan(r)
  /\ Goto(r, "observe")
  /\ UNCHANGED <<agentVars, callVars>>

\* The deferred Release, then the deferred End of the tool span.
Release(r) ==
  /\ pc[r] = "release"
  /\ Pool!Return(r) \/ Pool!Discard(r)
  /\ EndToolSpan(r)
  /\ Goto(r, "observe")
  /\ UNCHANGED <<agentVars, callVars>>

-----------------------------------------------------------------------------

Solved(r) ==
  /\ pc[r] = "observe" /\ Last(outcomes[r]) = "pass"
  /\ Return(r, "solved")
  /\ UNCHANGED <<iter, failure, prompt, outcomes, ctx, edges, callVars, poolVars>>

VerifyError(r) ==
  /\ pc[r] = "observe" /\ Last(outcomes[r]) = "error"
  /\ Return(r, "error")
  /\ UNCHANGED <<iter, failure, prompt, outcomes, ctx, edges, callVars, poolVars>>

Failing(r) == pc[r] = "observe" /\ Last(outcomes[r]) \in {"fail", "silent"}

\* Deliberate errors used as mutants: an empty output keeps the failure before it;
\* the loop stops one short of the limit, or never.
Repair_KeepOld(r) ==
  /\ Failing(r) /\ iter[r] < Repairs(r)
  /\ failure' = [failure EXCEPT ![r] = IF Last(outcomes[r]) = "fail" THEN iter[r] + 1 ELSE @]
  /\ iter' = [iter EXCEPT ![r] = @ + 1]
  /\ Goto(r, "generate")
  /\ UNCHANGED <<result, prompt, outcomes, ctx, spanVars, callVars, poolVars>>
GiveUp_Early(r) ==
  /\ Failing(r) /\ iter[r] >= Repairs(r) - 1
  /\ Return(r, "unresolved")
  /\ UNCHANGED <<iter, failure, prompt, outcomes, ctx, edges, callVars, poolVars>>
GiveUp_Never(r) ==
  /\ Failing(r) /\ iter[r] > Repairs(r)
  /\ Return(r, "unresolved")
  /\ UNCHANGED <<iter, failure, prompt, outcomes, ctx, edges, callVars, poolVars>>

\* lastFailure is the output of this attempt; the loop goes on.
Repair(r) ==
  /\ Failing(r) /\ iter[r] < Repairs(r)
  /\ failure' = [failure EXCEPT ![r] = IF Last(outcomes[r]) = "fail" THEN iter[r] + 1 ELSE 0]
  /\ iter' = [iter EXCEPT ![r] = @ + 1]
  /\ Goto(r, "generate")
  /\ UNCHANGED <<result, prompt, outcomes, ctx, spanVars, callVars, poolVars>>

\* The loop ends: unresolved.
GiveUp(r) ==
  /\ Failing(r) /\ iter[r] = Repairs(r)
  /\ Return(r, "unresolved")
  /\ UNCHANGED <<iter, failure, prompt, outcomes, ctx, edges, callVars, poolVars>>

\* The pool's other clients and its refills: sandboxes come and go.
PoolStep ==
  /\ \E s \in Sandboxes : Pool!Stock(s) \/ Pool!Purge(s) \/ Pool!Waste(s)
  /\ UNCHANGED <<pc, agentVars, spanVars, callVars>>

RunStep(r) ==
  \/ Plan(r) \/ Generate(r) \/ GenerateOk(r) \/ GenerateError(r)
  \/ LoadCallN(r) \/ StoreCallN(r) \/ StartCall(r)
  \/ Acquire(r) \/ AcquireError(r)
  \/ \E out \in {"pass", "fail", "silent", "error"} : Exec(r, out)
  \/ Release(r)
  \/ Solved(r) \/ VerifyError(r) \/ Repair(r) \/ GiveUp(r)

Next ==
  \/ \E r \in Runs : Begin(r) \/ RunStep(r)
  \/ PoolStep

Spec == Init /\ [][Next]_vars

\* A handler runs; backends and Exec end by their timeouts.
FairSpec == Spec /\ \A r \in Runs : WF_vars(RunStep(r))

-----------------------------------------------------------------------------
(* Properties.                                                              *)

Steps == {"idle", "plan", "generate", "generating", "load", "store", "call",
          "acquire", "exec", "release", "observe", "done"}
Spans == {"invoke_agent", "plan", "route", "chat", "execute_tool"}

Outcomes == {"pass", "fail", "silent", "error"}

\* The variables hold values of their types; the loop stays within its limit.
LoopType ==
  /\ pc \in [Runs -> Steps]
  /\ iter \in [Runs -> Nat] /\ failure \in [Runs -> Nat] /\ prompt \in [Runs -> Nat]
  /\ \A r \in Runs : iter[r] <= Repairs(r)
  /\ result \in [Runs -> [status : {"unresolved", "solved", "error"}, iterations : Nat]]
  /\ outcomes \in [Runs -> Seq(Outcomes)]

SpanType ==
  /\ ctx \in [Runs -> Spans \union {"none"}]
  /\ open \in [Runs -> SUBSET Spans]
  /\ edges \in [Runs -> SUBSET [span : Spans, parent : Spans \union {"none"}, alive : BOOLEAN]]

CallType == callN \in Nat /\ reg \in [Runs -> Nat] /\ raced \in BOOLEAN

PoolType ==
  /\ idle \in SUBSET Sandboxes /\ retired \in SUBSET Sandboxes
  /\ lent \in [Runs -> Sandboxes \union {None}]

TypeOK == LoopType /\ SpanType /\ CallType /\ PoolType

\* A run says "solved" iff its last verification passed, and "unresolved" only
\* after the first attempt and every allowed repair have been verified and failed.
StatusTellsOutcome ==
  \A r \in Runs : pc[r] = "done" =>
    LET n == Len(outcomes[r]) IN
    /\ \A i \in 1..(n - 1) : outcomes[r][i] \in {"fail", "silent"}
    /\ result[r].status = "solved" <=> n > 0 /\ outcomes[r][n] = "pass"
    /\ result[r].status = "unresolved" =>
         /\ n = Repairs(r) + 1 /\ result[r].iterations = n
         /\ outcomes[r][n] \in {"fail", "silent"}

\* A repair prompt shows the output of the attempt just before it, never an older
\* one, and shows nothing only when that attempt printed nothing.
FeedbackIsPrevious ==
  \A r \in Runs : pc[r] = "generating" =>
    prompt[r] = IF iter[r] > 0 /\ outcomes[r][iter[r]] = "fail" THEN iter[r] ELSE 0

\* A run has a sandbox only between Acquire and Release of one tool call: on no
\* exit path does it generate, wait or end with one.
SandboxOnlyInTool ==
  \A r \in Runs : lent[r] # None <=> pc[r] \in {"exec", "release"}

\* Every span of a run ends while its parent is open, and none is left open when
\* the run returns (TraceStore's local spans rely on this).
SpansNested ==
  \A r \in Runs : /\ \A e \in edges[r] : e.alive
                  /\ pc[r] = "done" => open[r] = {}

\* Every run that has begun returns.
RunEnds == \A r \in Runs : pc[r] = "plan" ~> pc[r] = "done"

\* The calls of r that have taken an id, one per verification.
Called(r) ==
  1..(IF pc[r] \in {"call", "acquire", "exec"} THEN Len(outcomes[r]) + 1 ELSE Len(outcomes[r]))
Calls == UNION {{r} \X Called(r) : r \in Runs}

\* The ids of tool calls number them ("an execute_tool code_exec span records the
\* tool call id") as long as no two calls overlap: b.callN++ and the read after it
\* hold no lock, and once two have overlapped ids repeat, even within one run.  What an
\* overlap does is lose increments: no id is beyond the number of calls.
CallIdsNumber ==
  /\ callN <= Cardinality(Calls)
  /\ ~raced => callN = Cardinality(Calls)

=============================================================================
