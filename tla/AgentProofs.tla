----------------------------- MODULE AgentProofs -----------------------------
(***************************************************************************)
(* AgentRun proved for any number of runs, repair limits and sandboxes.    *)
(* What a run has done is told by its pc and its loop counter: so many     *)
(* verifications, all failed, since the first (Counted); the feedback is   *)
(* that of the last one (Remembered); the open spans and the sandbox go    *)
(* with the place in the code (SpansAt, SandboxOnlyInTool).                *)
(*                                                                         *)
(* Then EvalRun, the other caller of the models and of code_exec, for any  *)
(* dataset and suite: what passAtK counts, and that the stored rows of a   *)
(* run tell its metric but for the cases that share an id (Kept).          *)
(***************************************************************************)
EXTENDS AgentRun, EvalRun, FiniteSetTheorems, NaturalsInduction, TLAPS

\* A repair limit is a natural number, the default included.
LEMMA RepairsType == \A r \in Runs : Repairs(r) \in Nat
BY AgentAssumption DEF Repairs, DefaultMaxRepair

\* The steps by what they change; a step not named in a lemma below leaves its part alone.
LEMMA Frame ==
  ASSUME [Next]_vars
  PROVE  \/ \E r \in Runs : RunStep(r) \/ Begin(r)
         \/ UNCHANGED <<pc, agentVars, spanVars, callVars>>
            /\ (UNCHANGED poolVars \/ \E s \in Sandboxes : Pool!Stock(s) \/ Pool!Purge(s) \/ Pool!Waste(s))
BY DEF Next, PoolStep, vars

\* The result keeps its type when a field of it is set.
LEMMA ResultType ==
  ASSUME LoopType, NEW r \in Runs,
         NEW s \in {"unresolved", "solved", "error"}, NEW i \in Nat
  PROVE  /\ [result EXCEPT ![r].status = s]
              \in [Runs -> [status : {"unresolved", "solved", "error"}, iterations : Nat]]
         /\ [result EXCEPT ![r].iterations = i]
              \in [Runs -> [status : {"unresolved", "solved", "error"}, iterations : Nat]]
<1>1. result[r] \in [status : {"unresolved", "solved", "error"}, iterations : Nat]
      /\ result \in [Runs -> [status : {"unresolved", "solved", "error"}, iterations : Nat]]
  BY DEF LoopType
<1>2. [result[r] EXCEPT !.status = s] \in [status : {"unresolved", "solved", "error"}, iterations : Nat]
      /\ [result[r] EXCEPT !.iterations = i]
           \in [status : {"unresolved", "solved", "error"}, iterations : Nat]
  BY <1>1
<1> QED BY <1>1, <1>2

\* Every step keeps the types of the loop.
LEMMA LoopTyped ==
  ASSUME LoopType, [Next]_vars
  PROVE  LoopType'
<1> USE RepairsType DEF LoopType, Goto, Steps, agentVars, Repairs
<1>1. ASSUME NEW r \in Runs, Begin(r) \/ Plan(r) \/ Generate(r) PROVE LoopType'
  <2>1. CASE Begin(r) BY <2>1 DEF Begin
  <2>2. CASE Plan(r) BY <2>2 DEF Plan
  <2>3. CASE Generate(r) BY <2>3 DEF Generate
  <2> QED BY <1>1, <2>1, <2>2, <2>3
<1>2. ASSUME NEW r \in Runs, GenerateOk(r) PROVE LoopType'
  <2>1. iter[r] + 1 \in Nat OBVIOUS
  <2>2. result' \in [Runs -> [status : {"unresolved", "solved", "error"}, iterations : Nat]]
    BY <1>2, <2>1, ResultType DEF GenerateOk
  <2> QED BY <1>2, <2>2 DEF GenerateOk
<1>3. ASSUME NEW r \in Runs, GenerateError(r) PROVE LoopType'
  <2>1. result' \in [Runs -> [status : {"unresolved", "solved", "error"}, iterations : Nat]]
    BY <1>3, ResultType DEF GenerateError
  <2> QED BY <1>3, <2>1 DEF GenerateError
<1>4. ASSUME NEW r \in Runs, LoadCallN(r) \/ StoreCallN(r) \/ StartCall(r) PROVE LoopType'
  BY <1>4 DEF LoadCallN, StoreCallN, StartCall
<1>5. ASSUME NEW r \in Runs, Acquire(r) \/ Release(r) PROVE LoopType'
  BY <1>5 DEF Acquire, Release
<1>6. ASSUME NEW r \in Runs, AcquireError(r) PROVE LoopType'
  BY <1>6 DEF AcquireError, Outcomes
<1>7. ASSUME NEW r \in Runs, NEW out \in Outcomes, Exec(r, out) PROVE LoopType'
  BY <1>7 DEF Exec
<1>8. ASSUME NEW r \in Runs, Solved(r) \/ VerifyError(r) \/ GiveUp(r) PROVE LoopType'
  <2>1. PICK s \in {"unresolved", "solved", "error"} : Return(r, s)
    BY <1>8 DEF Solved, VerifyError, GiveUp
  <2>2. result' \in [Runs -> [status : {"unresolved", "solved", "error"}, iterations : Nat]]
    BY <2>1, ResultType DEF Return
  <2>3. pc' \in [Runs -> Steps] BY <2>1 DEF Return
  <2>4. UNCHANGED <<iter, failure, prompt, outcomes>> BY <1>8 DEF Solved, VerifyError, GiveUp
  <2> QED BY <2>2, <2>3, <2>4
<1>9. ASSUME NEW r \in Runs, Repair(r) PROVE LoopType' BY <1>9 DEF Repair
<1>10. CASE UNCHANGED <<pc, agentVars>> BY <1>10
<1> QED BY <1>1, <1>2, <1>3, <1>4, <1>5, <1>6, <1>7, <1>8, <1>9, <1>10, Frame DEF RunStep, Outcomes

-----------------------------------------------------------------------------
(* The loop: status and feedback.                                           *)

Failures(r, m) == \A i \in 1..m : outcomes[r][i] \in {"fail", "silent"}

\* StatusTellsOutcome, for one run that has returned.
Tells(r) ==
  LET n == Len(outcomes[r]) IN
  /\ \A i \in 1..(n - 1) : outcomes[r][i] \in {"fail", "silent"}
  /\ result[r].status = "solved" <=> n > 0 /\ outcomes[r][n] = "pass"
  /\ result[r].status = "unresolved" =>
       /\ n = Repairs(r) + 1 /\ result[r].iterations = n
       /\ outcomes[r][n] \in {"fail", "silent"}

\* Before a verification there are as many outcomes as the loop counts, after it one more;
\* all but the last are failures.
Counted(r) ==
  /\ pc[r] \in {"idle", "plan"} => iter[r] = 0
  /\ pc[r] \in {"idle", "plan", "generate", "generating", "load", "store", "call", "acquire", "exec"} =>
       Len(outcomes[r]) = iter[r] /\ Failures(r, iter[r])
  /\ pc[r] \in {"release", "observe"} => Len(outcomes[r]) = iter[r] + 1 /\ Failures(r, iter[r])
  /\ pc[r] \in {"load", "store", "call", "acquire", "exec", "release", "observe"} =>
       result[r].iterations = iter[r] + 1
  /\ pc[r] = "done" => Tells(r)

\* What the loop remembers is the output of the attempt it counted last.
Remembered(r) ==
  /\ pc[r] # "done" =>
       failure[r] = IF iter[r] > 0 /\ outcomes[r][iter[r]] = "fail" THEN iter[r] ELSE 0
  /\ pc[r] = "generating" =>
       prompt[r] = IF iter[r] > 0 /\ outcomes[r][iter[r]] = "fail" THEN iter[r] ELSE 0

LoopInv == \A r \in Runs : Counted(r) /\ Remembered(r)

\* No run has begun.
LEMMA LoopInit == Init => LoopType /\ LoopInv
<1> SUFFICES ASSUME Init PROVE LoopType /\ LoopInv OBVIOUS
<1>1. /\ pc = [r \in Runs |-> "idle"] /\ iter = [r \in Runs |-> 0]
      /\ result = [r \in Runs |-> [status |-> "unresolved", iterations |-> 0]]
      /\ failure = [r \in Runs |-> 0] /\ prompt = [r \in Runs |-> 0]
      /\ outcomes = [r \in Runs |-> <<>>]
  BY DEF Init
<1>2. outcomes \in [Runs -> Seq(Outcomes)]
  <2>1. <<>> \in Seq(Outcomes) OBVIOUS
  <2> QED BY <1>1, <2>1
<1>3. LoopType BY <1>1, <1>2, RepairsType DEF LoopType, Steps
<1>4. LoopInv BY <1>1 DEF LoopInv, Counted, Remembered, Failures
<1> QED BY <1>3, <1>4

\* A step of another run.
LEMMA LoopElsewhere ==
  ASSUME LoopInv, NEW r \in Runs,
         pc'[r] = pc[r], iter'[r] = iter[r], outcomes'[r] = outcomes[r],
         result'[r] = result[r], failure'[r] = failure[r], prompt'[r] = prompt[r]
  PROVE  (Counted(r) /\ Remembered(r))'
<1>1. Counted(r) /\ Remembered(r) BY DEF LoopInv
<1>2. Tells(r)' = Tells(r) BY DEF Tells, Repairs
<1> QED BY <1>1, <1>2 DEF Counted, Remembered, Failures

\* An outcome is added to those of r.
LEMMA OutcomeAdded ==
  ASSUME LoopType, NEW r \in Runs, NEW out \in Outcomes,
         outcomes' = [outcomes EXCEPT ![r] = Append(@, out)]
  PROVE  /\ Len(outcomes'[r]) = Len(outcomes[r]) + 1 /\ Len(outcomes[r]) \in Nat
         /\ \A i \in 1..Len(outcomes[r]) : outcomes'[r][i] = outcomes[r][i]
         /\ outcomes'[r][Len(outcomes[r]) + 1] = out
         /\ \A q \in Runs : q # r => outcomes'[q] = outcomes[q]
<1>1. outcomes[r] \in Seq(Outcomes) /\ outcomes'[r] = Append(outcomes[r], out) BY DEF LoopType
<1>2. \A q \in Runs : q # r => outcomes'[q] = outcomes[q] BY DEF LoopType
<1> QED BY <1>1, <1>2

\* Every step keeps the verifications counted and the last feedback in the prompt.
LEMMA LoopNext ==
  ASSUME LoopType, LoopInv, [Next]_vars
  PROVE  LoopInv'
<1> SUFFICES ASSUME NEW q \in Runs PROVE (Counted(q) /\ Remembered(q))' BY DEF LoopInv
<1>1. /\ pc \in [Runs -> Steps] /\ iter \in [Runs -> Nat] /\ iter[q] \in Nat /\ iter[q] <= Repairs(q)
      /\ failure \in [Runs -> Nat] /\ prompt \in [Runs -> Nat]
      /\ result \in [Runs -> [status : {"unresolved", "solved", "error"}, iterations : Nat]]
      /\ outcomes \in [Runs -> Seq(Outcomes)]
  BY DEF LoopType
<1>2. Counted(q) /\ Remembered(q) BY DEF LoopInv
<1>3. Repairs(q)' = Repairs(q) /\ Repairs(q) \in Nat BY RepairsType DEF Repairs
<1>4. ASSUME NEW r \in Runs, RunStep(r) \/ Begin(r), q # r
      PROVE  (Counted(q) /\ Remembered(q))'
  <2>1. /\ pc'[q] = pc[q] /\ iter'[q] = iter[q] /\ outcomes'[q] = outcomes[q]
        /\ result'[q] = result[q] /\ failure'[q] = failure[q] /\ prompt'[q] = prompt[q]
    BY <1>1, <1>4 DEF RunStep, Begin, Plan, Generate, GenerateOk, GenerateError, LoadCallN, StoreCallN,
       StartCall, Acquire, AcquireError, Exec, Release, Solved, VerifyError, Repair, GiveUp, Return,
       Goto, agentVars
  <2> QED BY <2>1, LoopElsewhere
<1>5. CASE Begin(q) \/ Plan(q) \/ LoadCallN(q) \/ StoreCallN(q) \/ StartCall(q) \/ Acquire(q)
  <2>1. /\ \/ pc[q] = "idle" /\ pc'[q] = "plan"
           \/ pc[q] = "plan" /\ pc'[q] = "generate"
           \/ pc[q] = "load" /\ pc'[q] = "store"
           \/ pc[q] = "store" /\ pc'[q] = "call"
           \/ pc[q] = "call" /\ pc'[q] = "acquire"
           \/ pc[q] = "acquire" /\ pc'[q] = "exec"
        /\ UNCHANGED <<iter, result, failure, prompt, outcomes>>
    BY <1>1, <1>5 DEF Begin, Plan, LoadCallN, StoreCallN, StartCall, Acquire, Goto, agentVars
  <2> QED BY <1>2, <2>1 DEF Counted, Remembered, Failures
<1>6. CASE Generate(q)
  <2>1. /\ pc[q] = "generate" /\ pc'[q] = "generating"
        /\ prompt'[q] = IF iter[q] > 0 THEN failure[q] ELSE 0
        /\ UNCHANGED <<iter, result, failure, outcomes>>
    BY <1>1, <1>6 DEF Generate, Goto
  <2> QED BY <1>1, <1>2, <2>1 DEF Counted, Remembered, Failures
<1>7. CASE GenerateOk(q)
  <2>1. /\ pc[q] = "generating" /\ pc'[q] = "load" /\ result'[q].iterations = iter[q] + 1
        /\ UNCHANGED <<iter, failure, prompt, outcomes>>
    BY <1>1, <1>7 DEF GenerateOk, Goto
  <2> QED BY <1>2, <2>1 DEF Counted, Remembered, Failures
<1>8. CASE GenerateError(q)
  <2>1. /\ pc[q] = "generating" /\ pc'[q] = "done" /\ result'[q].status = "error"
        /\ UNCHANGED <<iter, failure, prompt, outcomes>>
    BY <1>1, <1>8 DEF GenerateError, Goto
  <2>2. Len(outcomes[q]) = iter[q] /\ Failures(q, iter[q]) BY <1>2, <2>1 DEF Counted
  <2>3. /\ \A i \in 1..(iter[q] - 1) : outcomes[q][i] \in {"fail", "silent"}
        /\ iter[q] > 0 => outcomes[q][iter[q]] \in {"fail", "silent"}
    BY <1>1, <2>2 DEF Failures
  <2>4. Tells(q)' BY <2>1, <2>2, <2>3 DEF Tells
  <2> QED BY <2>1, <2>4 DEF Counted, Remembered
<1>9. CASE AcquireError(q) \/ \E out \in Outcomes : Exec(q, out)
  <2>1. PICK out \in Outcomes : outcomes' = [outcomes EXCEPT ![q] = Append(@, out)]
    BY <1>9 DEF AcquireError, Exec, Outcomes
  <2>2. /\ pc[q] \in {"acquire", "exec"} /\ pc'[q] \in {"observe", "release"}
        /\ UNCHANGED <<iter, result, failure, prompt>>
    BY <1>1, <1>9 DEF AcquireError, Exec, Goto
  <2>3. Len(outcomes[q]) = iter[q] /\ Failures(q, iter[q]) BY <1>2, <2>2 DEF Counted
  <2>4. /\ Len(outcomes'[q]) = iter[q] + 1
        /\ \A i \in 1..iter[q] : outcomes'[q][i] = outcomes[q][i]
    BY <2>1, <2>3, OutcomeAdded
  <2>5. Failures(q, iter[q])' BY <2>2, <2>3, <2>4 DEF Failures
  <2>6. Counted(q)' BY <1>2, <2>2, <2>4, <2>5 DEF Counted
  <2>7. iter[q] > 0 => outcomes'[q][iter[q]] = outcomes[q][iter[q]]
    <3>1. iter[q] \in Nat BY <1>1
    <3>2. iter[q] > 0 => iter[q] \in 1..iter[q] BY <3>1
    <3> QED BY <2>4, <3>2
  <2>8. Remembered(q)' BY <1>2, <2>2, <2>7 DEF Remembered
  <2> QED BY <2>6, <2>8
<1>10. CASE Release(q)
  <2>1. pc[q] = "release" /\ pc'[q] = "observe" /\ UNCHANGED <<iter, result, failure, prompt, outcomes>>
    BY <1>1, <1>10 DEF Release, Goto, agentVars
  <2> QED BY <1>2, <2>1 DEF Counted, Remembered, Failures
<1>11. CASE Solved(q) \/ VerifyError(q) \/ GiveUp(q)
  <2>1. PICK s \in {"solved", "error", "unresolved"} :
          /\ Return(q, s)
          /\ s = "solved" => outcomes[q][Len(outcomes[q])] = "pass"
          /\ s = "error" => outcomes[q][Len(outcomes[q])] = "error"
          /\ s = "unresolved" => /\ outcomes[q][Len(outcomes[q])] \in {"fail", "silent"}
                                 /\ iter[q] = Repairs(q)
    BY <1>11 DEF Solved, VerifyError, GiveUp, Failing, Last
  <2>2. pc[q] = "observe" /\ UNCHANGED <<iter, failure, prompt, outcomes>>
    BY <1>11 DEF Solved, VerifyError, GiveUp, Failing
  <2>3. /\ pc'[q] = "done" /\ result'[q].status = s /\ result'[q].iterations = result[q].iterations
    BY <1>1, <2>1 DEF Return, Goto
  <2>4. Len(outcomes[q]) = iter[q] + 1 /\ Failures(q, iter[q]) /\ result[q].iterations = iter[q] + 1
    BY <1>2, <2>2 DEF Counted
  <2>5. Tells(q)' BY <1>1, <1>3, <2>1, <2>2, <2>3, <2>4 DEF Tells, Failures
  <2> QED BY <2>3, <2>5 DEF Counted, Remembered
<1>12. CASE Repair(q)
  <2>1. /\ pc[q] = "observe" /\ pc'[q] = "generate" /\ iter'[q] = iter[q] + 1
        /\ outcomes[q][Len(outcomes[q])] \in {"fail", "silent"}
        /\ failure'[q] = IF outcomes[q][Len(outcomes[q])] = "fail" THEN iter[q] + 1 ELSE 0
        /\ UNCHANGED <<result, prompt, outcomes>>
    BY <1>1, <1>12 DEF Repair, Failing, Last, Goto
  <2>2. Len(outcomes[q]) = iter[q] + 1 /\ Failures(q, iter[q]) BY <1>2, <2>1 DEF Counted
  <2>3. Failures(q, iter[q])' BY <1>1, <2>1, <2>2 DEF Failures
  <2>4. Counted(q)' BY <2>1, <2>2, <2>3 DEF Counted
  <2>5. Remembered(q)' BY <1>1, <2>1, <2>2 DEF Remembered
  <2> QED BY <2>4, <2>5
<1>13. CASE UNCHANGED <<pc, agentVars>> BY <1>13, LoopElsewhere DEF agentVars
<1> QED BY <1>4, <1>5, <1>6, <1>7, <1>8, <1>9, <1>10, <1>11, <1>12, <1>13, Frame DEF RunStep, Outcomes

\* So they hold throughout.
LEMMA LoopInvariant == Spec => [](LoopType /\ LoopInv)
<1>1. LoopType /\ LoopInv /\ [Next]_vars => (LoopType /\ LoopInv)' BY LoopTyped, LoopNext
<1> QED BY <1>1, LoopInit, PTL DEF Spec

\* "solved" iff the last verification passed, "unresolved" only after the first attempt and
\* every repair the limit allows.
THEOREM AgentStatusTellsOutcome == Spec => []StatusTellsOutcome
<1>1. LoopType /\ LoopInv => StatusTellsOutcome
  BY DEF LoopInv, Counted, Tells, StatusTellsOutcome
<1> QED BY <1>1, LoopInvariant, PTL

\* The model is shown the output of the attempt just before, whatever runs interleave.
THEOREM AgentFeedbackIsPrevious == Spec => []FeedbackIsPrevious
<1>1. LoopType /\ LoopInv => FeedbackIsPrevious
  BY DEF LoopInv, Remembered, FeedbackIsPrevious
<1> QED BY <1>1, LoopInvariant, PTL

-----------------------------------------------------------------------------
(* The sandbox and the spans.                                               *)

Lending == lent \in [Runs -> Sandboxes \union {None}] /\ SandboxOnlyInTool

\* Every step leaves a sandbox to a run inside its tool call only.
LEMMA LendingNext ==
  ASSUME LoopType, Lending, [Next]_vars
  PROVE  Lending'
<1> USE AgentAssumption DEF Lending, SandboxOnlyInTool, Goto, poolVars
<1>1. pc \in [Runs -> Steps] BY DEF LoopType
<1>2. ASSUME NEW r \in Runs, Acquire(r) PROVE Lending'
  BY <1>1, <1>2 DEF Acquire, Pool!Lend, Pool!LendNew
<1>3. ASSUME NEW r \in Runs, Release(r) PROVE Lending'
  BY <1>1, <1>3 DEF Release, Pool!Return, Pool!Discard
<1>4. ASSUME NEW r \in Runs, NEW out \in Outcomes, Exec(r, out) PROVE Lending'
  BY <1>1, <1>4 DEF Exec
<1>5. ASSUME NEW r \in Runs, Begin(r) \/ Plan(r) \/ Generate(r) \/ GenerateOk(r) \/ GenerateError(r)
      PROVE  Lending'
  BY <1>1, <1>5 DEF Begin, Plan, Generate, GenerateOk, GenerateError
<1>6. ASSUME NEW r \in Runs, LoadCallN(r) \/ StoreCallN(r) \/ StartCall(r) \/ AcquireError(r)
      PROVE  Lending'
  BY <1>1, <1>6 DEF LoadCallN, StoreCallN, StartCall, AcquireError
<1>7. ASSUME NEW r \in Runs, Solved(r) \/ VerifyError(r) \/ Repair(r) \/ GiveUp(r)
      PROVE  Lending'
  BY <1>1, <1>7 DEF Solved, VerifyError, Repair, GiveUp, Failing, Return
<1>8. ASSUME UNCHANGED <<pc, agentVars, spanVars, callVars>>,
             UNCHANGED poolVars \/ \E s \in Sandboxes : Pool!Stock(s) \/ Pool!Purge(s) \/ Pool!Waste(s)
      PROVE  Lending'
  BY <1>8 DEF Pool!Stock, Pool!Purge, Pool!Waste
<1> QED BY <1>2, <1>3, <1>4, <1>5, <1>6, <1>7, <1>8, Frame DEF RunStep, Outcomes

\* No exit path of a tool call or of a run keeps a sandbox.
THEOREM AgentSandboxOnlyInTool == Spec => []SandboxOnlyInTool
<1>1. Init => Lending BY DEF Init, Lending, SandboxOnlyInTool, Pool!Init
<1>2. LoopType /\ Lending /\ [Next]_vars => Lending' BY LendingNext
<1>3. Lending => SandboxOnlyInTool BY DEF Lending
<1> QED BY <1>1, <1>2, <1>3, LoopInvariant, PTL DEF Spec

\* The spans that are open at a place of the code.
OpenAt(l) ==
  CASE l \in {"idle", "done"} -> {}
    [] l = "generating" -> {"invoke_agent", "route"}
    [] l \in {"acquire", "exec", "release"} -> {"invoke_agent", "execute_tool"}
    [] OTHER -> {"invoke_agent"}

SpansAt ==
  /\ DOMAIN ctx = Runs /\ DOMAIN open = Runs /\ DOMAIN edges = Runs
  /\ \A r \in Runs : /\ open[r] = OpenAt(pc[r])
                     /\ pc[r] \notin {"idle", "done"} => ctx[r] = "invoke_agent"
                     /\ \A e \in edges[r] : e.alive

\* Spans that end under an open parent are added.
LEMMA EdgesAdded ==
  ASSUME SpansAt, NEW r \in Runs, NEW E, \A e \in E : e.alive,
         edges' = [edges EXCEPT ![r] = @ \union E]
  PROVE  DOMAIN edges' = Runs /\ \A q \in Runs : \A e \in edges'[q] : e.alive
BY DEF SpansAt

\* A step of r to another place, with the spans that belong there.
LEMMA SpansMoved ==
  ASSUME LoopType, SpansAt, NEW r \in Runs, NEW l \in Steps \ {"idle", "done"}, Goto(r, l),
         ctx' = ctx, pc[r] \notin {"idle", "done"},
         DOMAIN open' = Runs, open'[r] = OpenAt(l), \A q \in Runs : q # r => open'[q] = open[q],
         DOMAIN edges' = Runs, \A q \in Runs : \A e \in edges'[q] : e.alive
  PROVE  SpansAt'
BY DEF LoopType, SpansAt, Goto, OpenAt

\* The tool span ends under the span it was opened in.
LEMMA ToolSpanEnded ==
  ASSUME SpansAt, NEW r \in Runs, pc[r] \in {"acquire", "release"}, EndToolSpan(r)
  PROVE  /\ DOMAIN open' = Runs /\ open'[r] = OpenAt("observe")
         /\ \A q \in Runs : q # r => open'[q] = open[q]
         /\ DOMAIN edges' = Runs /\ \A q \in Runs : \A e \in edges'[q] : e.alive
<1>1. open[r] = {"invoke_agent", "execute_tool"} /\ ctx[r] = "invoke_agent" BY DEF SpansAt, OpenAt
<1>2. Edge("execute_tool", ctx[r], open[r]).alive BY <1>1 DEF Edge
<1>3. edges' = [edges EXCEPT ![r] = @ \union {Edge("execute_tool", ctx[r], open[r])}]
      /\ open' = [open EXCEPT ![r] = @ \ {"execute_tool"}]
  BY DEF EndToolSpan
<1>4. open[r] \ {"execute_tool"} = OpenAt("observe") BY <1>1 DEF OpenAt
<1> QED BY <1>2, <1>3, <1>4, EdgesAdded DEF SpansAt

\* The spans a routed request records are recorded under open ones.
LEMMA RoutedAlive ==
  ASSUME SpansAt, NEW r \in Runs, pc[r] = "generating"
  PROVE  \A e \in Routed(r) : e.alive
<1>1. "route" \in open[r] /\ ctx[r] \in open[r] BY DEF SpansAt, OpenAt
<1>2. Edge("chat", "route", open[r]).alive /\ Edge("route", ctx[r], open[r]).alive
  BY <1>1 DEF Edge
<1> QED BY <1>2 DEF Routed

\* Every step keeps the open spans those of the place in the code.
LEMMA SpansNext ==
  ASSUME LoopType, SpansAt, [Next]_vars
  PROVE  SpansAt'
<1> USE DEF SpansAt, OpenAt, Goto, agentVars, spanVars
<1>1. pc \in [Runs -> Steps] BY DEF LoopType
<1>2. ASSUME NEW r \in Runs, Begin(r) PROVE SpansAt' BY <1>1, <1>2 DEF Begin
<1>3. ASSUME NEW r \in Runs, Plan(r) PROVE SpansAt'
  <2>1. pc[r] = "plan" /\ Goto(r, "generate") /\ ctx' = ctx /\ open' = open
        /\ edges' = [edges EXCEPT ![r] = @ \union {Edge("plan", ctx[r], open[r])}]
    BY <1>3 DEF Plan
  <2>2. Edge("plan", ctx[r], open[r]).alive BY <2>1 DEF Edge
  <2>3. DOMAIN edges' = Runs /\ \A q \in Runs : \A e \in edges'[q] : e.alive
    BY <2>1, <2>2, EdgesAdded
  <2> QED BY <2>1, <2>3, SpansMoved DEF Steps
<1>4. ASSUME NEW r \in Runs, Generate(r) PROVE SpansAt'
  <2>1. pc[r] = "generate" /\ Goto(r, "generating") /\ ctx' = ctx /\ edges' = edges
        /\ open' = [open EXCEPT ![r] = @ \union {"route"}]
    BY <1>4 DEF Generate
  <2> QED BY <2>1, SpansMoved DEF Steps
<1>5. ASSUME NEW r \in Runs, GenerateOk(r) PROVE SpansAt'
  <2>1. pc[r] = "generating" /\ Goto(r, "load") /\ ctx' = ctx
        /\ open' = [open EXCEPT ![r] = @ \ {"route"}]
        /\ edges' = [edges EXCEPT ![r] = @ \union Routed(r)]
    BY <1>5 DEF GenerateOk
  <2>2. \A e \in Routed(r) : e.alive BY <2>1, RoutedAlive
  <2>3. DOMAIN edges' = Runs /\ \A q \in Runs : \A e \in edges'[q] : e.alive
    BY <2>1, <2>2, EdgesAdded
  <2>4. open'[r] = OpenAt("load") BY <2>1
  <2> QED BY <2>1, <2>3, <2>4, SpansMoved DEF Steps
<1>6. ASSUME NEW r \in Runs, GenerateError(r) PROVE SpansAt'
  <2>1. pc[r] = "generating" /\ Goto(r, "done") /\ ctx' = ctx
        /\ open' = [open EXCEPT ![r] = @ \ {"route", "invoke_agent"}]
        /\ edges' = [edges EXCEPT ![r] = @ \union Routed(r)]
    BY <1>6 DEF GenerateError
  <2>2. open[r] = {"invoke_agent", "route"} /\ ctx[r] = "invoke_agent" BY <2>1
  <2>3. \A e \in Routed(r) : e.alive BY <2>1, RoutedAlive
  <2>4. DOMAIN edges' = Runs /\ \A q \in Runs : \A e \in edges'[q] : e.alive
    BY <2>1, <2>3, EdgesAdded
  <2>5. open'[r] = {} BY <2>1, <2>2
  <2> QED BY <1>1, <2>1, <2>4, <2>5
<1>7. ASSUME NEW r \in Runs, LoadCallN(r) \/ StoreCallN(r) PROVE SpansAt'
  BY <1>1, <1>7 DEF LoadCallN, StoreCallN
<1>8. ASSUME NEW r \in Runs, StartCall(r) PROVE SpansAt' BY <1>1, <1>8 DEF StartCall
<1>9. ASSUME NEW r \in Runs, Acquire(r) PROVE SpansAt' BY <1>1, <1>9 DEF Acquire
<1>10. ASSUME NEW r \in Runs, AcquireError(r) PROVE SpansAt'
  <2>1. pc[r] = "acquire" /\ Goto(r, "observe") /\ ctx' = ctx /\ EndToolSpan(r)
    BY <1>10 DEF AcquireError
  <2> QED BY <2>1, ToolSpanEnded, SpansMoved DEF Steps
<1>11. ASSUME NEW r \in Runs, NEW out \in Outcomes, Exec(r, out) PROVE SpansAt'
  BY <1>1, <1>11 DEF Exec
<1>12. ASSUME NEW r \in Runs, Release(r) PROVE SpansAt'
  <2>1. pc[r] = "release" /\ Goto(r, "observe") /\ ctx' = ctx /\ EndToolSpan(r)
    BY <1>12 DEF Release
  <2> QED BY <2>1, ToolSpanEnded, SpansMoved DEF Steps
<1>13. ASSUME NEW r \in Runs, Solved(r) \/ VerifyError(r) \/ GiveUp(r) PROVE SpansAt'
  BY <1>1, <1>13 DEF Solved, VerifyError, GiveUp, Failing, Return
<1>14. ASSUME NEW r \in Runs, Repair(r) PROVE SpansAt' BY <1>1, <1>14 DEF Repair, Failing
<1>15. ASSUME UNCHANGED <<pc, agentVars, spanVars, callVars>> PROVE SpansAt' BY <1>15
<1> QED BY <1>2, <1>3, <1>4, <1>5, <1>6, <1>7, <1>8, <1>9, <1>10, <1>11, <1>12, <1>13, <1>14, <1>15,
           Frame DEF RunStep, Outcomes

\* Spans end under parents that are still open, and all of them before the run returns.
THEOREM AgentSpansNested == Spec => []SpansNested
<1>1. Init => SpansAt BY DEF Init, SpansAt, OpenAt
<1>2. LoopType /\ SpansAt /\ [Next]_vars => SpansAt' BY SpansNext
<1>3. SpansAt => SpansNested BY DEF SpansAt, SpansNested, OpenAt
<1> QED BY <1>1, <1>2, <1>3, LoopInvariant, PTL DEF Spec

-----------------------------------------------------------------------------
(* The ids of the tool calls.                                               *)

\* From the load to the read of the id: the window of the unlocked increment.
Counting == {"store", "call"}

\* The counter, and what is loaded of it, is at most the number of the calls that took an
\* id.  While no two calls have overlapped there is at most one in the window, its register
\* is up to date, and the counter is that number.
Numbered ==
  /\ callN \in Nat /\ reg \in [Runs -> Nat] /\ IsFiniteSet(Calls)
  /\ callN <= Cardinality(Calls)
  /\ \A r \in Runs : pc[r] = "store" => reg[r] <= Cardinality(Calls)
  /\ ~raced => /\ callN = Cardinality(Calls)
               /\ \A r \in Runs : pc[r] = "store" => reg[r] = callN
               /\ \A r, q \in Runs : pc[r] \in Counting /\ pc[q] \in Counting => r = q

\* A step outside of the window that completes no call but what it had counted.
LEMMA NumberedElsewhere ==
  ASSUME Numbered, UNCHANGED callVars, \A r \in Runs : Called(r)' = Called(r),
         \A r \in Runs : /\ pc'[r] = "store" => pc[r] = "store"
                         /\ pc'[r] \in Counting => pc[r] \in Counting
  PROVE  Numbered'
<1>1. Calls' = Calls BY DEF Calls
<1> QED BY <1>1 DEF Numbered, callVars

\* An outcome takes the place of the call it is of.
LEMMA OutcomeCounted ==
  ASSUME LoopType, Numbered, NEW r \in Runs, NEW out \in Outcomes, NEW l \in {"release", "observe"},
         pc[r] \in {"acquire", "exec"}, Goto(r, l), UNCHANGED callVars,
         outcomes' = [outcomes EXCEPT ![r] = Append(@, out)]
  PROVE  Numbered'
<1>1. pc \in [Runs -> Steps] BY DEF LoopType
<1>2. /\ Len(outcomes'[r]) = Len(outcomes[r]) + 1 /\ Len(outcomes[r]) \in Nat
      /\ \A q \in Runs : q # r => outcomes'[q] = outcomes[q]
      /\ pc'[r] = l /\ \A q \in Runs : q # r => pc'[q] = pc[q]
  BY <1>1, OutcomeAdded DEF Goto
<1>3. Called(r) = 1..(Len(outcomes[r]) + 1) BY DEF Called
<1>4. Called(r)' = 1..Len(outcomes'[r]) BY <1>2 DEF Called
<1>5. \A q \in Runs : q # r => Called(q)' = Called(q) BY <1>2 DEF Called
<1>6. \A q \in Runs : Called(q)' = Called(q) BY <1>2, <1>3, <1>4, <1>5
<1> QED BY <1>1, <1>2, <1>6, NumberedElsewhere DEF Counting

\* The store: one more call has an id.
LEMMA CallCounted ==
  ASSUME LoopType, Numbered, NEW r \in Runs, StoreCallN(r)
  PROVE  Numbered'
<1>1. /\ pc \in [Runs -> Steps] /\ outcomes' = outcomes /\ reg' = reg /\ raced' = raced
      /\ pc[r] = "store" /\ pc' = [pc EXCEPT ![r] = "call"] /\ callN' = reg[r] + 1
  BY DEF StoreCallN, Goto, agentVars, LoopType
<1> DEFINE c == <<r, Len(outcomes[r]) + 1>>
<1>2. Len(outcomes[r]) \in Nat BY DEF LoopType
<1>3. Called(r)' = Called(r) \union {Len(outcomes[r]) + 1} /\ Len(outcomes[r]) + 1 \notin Called(r)
  BY <1>1, <1>2 DEF Called
<1>4. \A q \in Runs : q # r => Called(q)' = Called(q) BY <1>1 DEF Called
<1>5. Calls' = Calls \union {c}
  <2>1. \A q \in Runs : ({q} \X Called(q))' = IF q = r THEN ({q} \X Called(q)) \union {c}
                                              ELSE {q} \X Called(q)
    BY <1>3, <1>4
  <2> HIDE DEF c
  <2> QED BY <2>1 DEF Calls
<1>6. c \notin Calls BY <1>3 DEF Calls
<1>7. IsFiniteSet(Calls)' /\ Cardinality(Calls)' = Cardinality(Calls) + 1
      /\ Cardinality(Calls) \in Nat
  <2> HIDE DEF c
  <2> QED BY <1>5, <1>6, FS_AddElement, FS_CardinalityType DEF Numbered
<1> QED BY <1>1, <1>7 DEF Numbered, Counting

\* Every step keeps the calls numbered as they are counted, until two increments overlap.
LEMMA NumberedNext ==
  ASSUME LoopType, Numbered, [Next]_vars
  PROVE  Numbered'
<1> USE DEF Goto, agentVars
<1>1. pc \in [Runs -> Steps] BY DEF LoopType
<1>2. ASSUME NEW r \in Runs, LoadCallN(r) PROVE Numbered'
  <2>1. /\ pc[r] = "load" /\ pc' = [pc EXCEPT ![r] = "store"]
        /\ reg' = [reg EXCEPT ![r] = callN] /\ UNCHANGED <<callN, outcomes>>
        /\ raced' = (raced \/ \E q \in Runs : pc[q] \in Counting)
    BY <1>2 DEF LoadCallN, Counting
  <2>2. Calls' = Calls
    <3>1. \A q \in Runs : Called(q)' = Called(q) BY <1>1, <2>1 DEF Called
    <3> QED BY <3>1 DEF Calls
  <2>3. ~raced' => ~raced /\ \A q \in Runs : pc[q] \notin Counting BY <2>1
  <2> QED BY <1>1, <2>1, <2>2, <2>3 DEF Numbered, Counting
<1>3. ASSUME NEW r \in Runs, StoreCallN(r) PROVE Numbered' BY <1>3, CallCounted
<1>4. ASSUME NEW r \in Runs, Begin(r) \/ Plan(r) \/ Generate(r) \/ GenerateOk(r) \/ GenerateError(r)
      PROVE  Numbered'
  <2>1. UNCHANGED <<callVars, outcomes>>
        /\ pc[r] \in {"idle", "plan", "generate", "generating"}
        /\ \E l \in {"plan", "generate", "generating", "load", "done"} : pc' = [pc EXCEPT ![r] = l]
    BY <1>4 DEF Begin, Plan, Generate, GenerateOk, GenerateError
  <2>2. \A q \in Runs : Called(q)' = Called(q) BY <1>1, <2>1 DEF Called
  <2> QED BY <1>1, <2>1, <2>2, NumberedElsewhere DEF Counting
<1>5. ASSUME NEW r \in Runs, StartCall(r) \/ Acquire(r) PROVE Numbered'
  <2>1. UNCHANGED <<callVars, outcomes>>
        /\ \/ pc[r] = "call" /\ pc' = [pc EXCEPT ![r] = "acquire"]
           \/ pc[r] = "acquire" /\ pc' = [pc EXCEPT ![r] = "exec"]
    BY <1>5 DEF StartCall, Acquire
  <2>2. \A q \in Runs : Called(q)' = Called(q) BY <1>1, <2>1 DEF Called
  <2> QED BY <1>1, <2>1, <2>2, NumberedElsewhere DEF Counting
<1>6. ASSUME NEW r \in Runs, AcquireError(r) PROVE Numbered'
  BY <1>6, OutcomeCounted DEF AcquireError, Outcomes
<1>7. ASSUME NEW r \in Runs, NEW out \in Outcomes, Exec(r, out) PROVE Numbered'
  BY <1>7, OutcomeCounted DEF Exec
<1>8. ASSUME NEW r \in Runs, Release(r) \/ Solved(r) \/ VerifyError(r) \/ Repair(r) \/ GiveUp(r)
      PROVE  Numbered'
  <2>1. UNCHANGED <<callVars, outcomes>>
        /\ pc[r] \in {"release", "observe"}
        /\ \E l \in {"observe", "generate", "done"} : pc' = [pc EXCEPT ![r] = l]
    BY <1>8 DEF Release, Solved, VerifyError, Repair, GiveUp, Failing, Return
  <2>2. \A q \in Runs : Called(q)' = Called(q) BY <1>1, <2>1 DEF Called
  <2> QED BY <1>1, <2>1, <2>2, NumberedElsewhere DEF Counting
<1>9. ASSUME UNCHANGED <<pc, agentVars, spanVars, callVars>> PROVE Numbered'
  <2>1. \A q \in Runs : Called(q)' = Called(q) BY <1>9 DEF Called
  <2> QED BY <1>9, <2>1, NumberedElsewhere
<1> QED BY <1>2, <1>3, <1>4, <1>5, <1>6, <1>7, <1>8, <1>9, Frame DEF RunStep, Outcomes

\* The ids number the calls as long as no two increments of the counter overlap, and are
\* never beyond their number.
THEOREM AgentCallIdsNumber == Spec => []CallIdsNumber
<1>1. Init => Numbered
  <2> SUFFICES ASSUME Init PROVE Numbered OBVIOUS
  <2>1. \A r \in Runs : Called(r) = {} BY DEF Init, Called
  <2>2. Calls = {} BY <2>1 DEF Calls
  <2> QED BY <2>2, FS_EmptySet DEF Init, Numbered, Counting
<1>2. LoopType /\ Numbered /\ [Next]_vars => Numbered' BY NumberedNext
<1>3. Numbered => CallIdsNumber BY DEF Numbered, CallIdsNumber
<1> QED BY <1>1, <1>2, <1>3, LoopInvariant, PTL DEF Spec

-----------------------------------------------------------------------------
(* The types, and the runs as clients of the pool.                          *)

\* A span that ends is an edge of the tree.
LEMMA EdgeType ==
  ASSUME NEW s \in Spans, NEW p \in Spans \union {"none"}, NEW o
  PROVE  Edge(s, p, o) \in [span : Spans, parent : Spans \union {"none"}, alive : BOOLEAN]
BY DEF Edge

\* Every step keeps the types of the spans and of the call counter.
LEMMA SpanTyped ==
  ASSUME LoopType, SpanType, CallType, [Next]_vars
  PROVE  (SpanType /\ CallType)'
<1> DEFINE EdgeSet == [span : Spans, parent : Spans \union {"none"}, alive : BOOLEAN]
<1>0. /\ \A r \in Runs : ctx[r] \in Spans \union {"none"}
      /\ {"invoke_agent", "plan", "route", "chat", "execute_tool"} \subseteq Spans
  BY DEF SpanType, Spans
<1>1. \A r \in Runs : /\ Edge("plan", ctx[r], open[r]) \in EdgeSet
                      /\ Edge("execute_tool", ctx[r], open[r]) \in EdgeSet
                      /\ Routed(r) \subseteq EdgeSet
  BY <1>0, EdgeType DEF Routed
<1> HIDE DEF EdgeSet
<1>2. /\ ctx \in [Runs -> Spans \union {"none"}] /\ open \in [Runs -> SUBSET Spans]
      /\ edges \in [Runs -> SUBSET EdgeSet]
  BY DEF SpanType, EdgeSet
<1>3. callN \in Nat /\ reg \in [Runs -> Nat] /\ raced \in BOOLEAN BY DEF CallType
<1> USE DEF Goto
<1>4. SUFFICES /\ ctx' \in [Runs -> Spans \union {"none"}] /\ open' \in [Runs -> SUBSET Spans]
               /\ edges' \in [Runs -> SUBSET EdgeSet]
               /\ callN' \in Nat /\ reg' \in [Runs -> Nat] /\ raced' \in BOOLEAN
  BY DEF SpanType, CallType, EdgeSet
<1>5. ASSUME NEW r \in Runs, Begin(r) \/ Plan(r) \/ Generate(r) PROVE <1>4!1
  BY <1>0, <1>1, <1>2, <1>3, <1>5 DEF Begin, Plan, Generate, agentVars, callVars
<1>6. ASSUME NEW r \in Runs, GenerateOk(r) \/ GenerateError(r) PROVE <1>4!1
  BY <1>1, <1>2, <1>3, <1>6 DEF GenerateOk, GenerateError, callVars
<1>7. ASSUME NEW r \in Runs, LoadCallN(r) \/ StoreCallN(r) \/ StartCall(r) PROVE <1>4!1
  <2>1. CASE LoadCallN(r)
    <3>1. /\ reg' = [reg EXCEPT ![r] = callN] /\ UNCHANGED <<ctx, open, edges, callN>>
          /\ raced' = (raced \/ \E q \in Runs : pc[q] \in {"store", "call"})
      BY <2>1 DEF LoadCallN, agentVars, spanVars
    <3>2. raced' \in BOOLEAN BY <3>1, Zenon
    <3>3. reg' \in [Runs -> Nat] BY <1>3, <3>1
    <3> QED BY <1>2, <1>3, <3>1, <3>2, <3>3
  <2>2. CASE StoreCallN(r)
    <3>1. callN' = reg[r] + 1 /\ UNCHANGED <<ctx, open, edges, reg, raced>>
      BY <2>2 DEF StoreCallN, agentVars, spanVars
    <3> QED BY <1>2, <1>3, <3>1
  <2>3. CASE StartCall(r)
    <3>1. /\ open' = [open EXCEPT ![r] = @ \union {"execute_tool"}]
          /\ UNCHANGED <<ctx, edges, callN, reg, raced>>
      BY <2>3 DEF StartCall, agentVars, callVars
    <3> QED BY <1>0, <1>2, <1>3, <3>1
  <2> QED BY <1>7, <2>1, <2>2, <2>3
<1>8. ASSUME NEW r \in Runs, Acquire(r) PROVE <1>4!1
  BY <1>2, <1>3, <1>8 DEF Acquire, agentVars, spanVars, callVars
<1>9. ASSUME NEW r \in Runs, AcquireError(r) \/ Release(r) PROVE <1>4!1
  <2>1. EndToolSpan(r) /\ UNCHANGED <<ctx, callN, reg, raced>>
    BY <1>9 DEF AcquireError, Release, agentVars, callVars
  <2>2. edges' = [edges EXCEPT ![r] = @ \union {Edge("execute_tool", ctx[r], open[r])}]
        /\ open' = [open EXCEPT ![r] = @ \ {"execute_tool"}]
    BY <2>1 DEF EndToolSpan
  <2>3. edges' \in [Runs -> SUBSET EdgeSet] BY <1>1, <1>2, <2>2
  <2>4. open' \in [Runs -> SUBSET Spans] BY <1>2, <2>2
  <2> QED BY <1>2, <1>3, <2>1, <2>3, <2>4
<1>10. ASSUME NEW r \in Runs, NEW out \in Outcomes, Exec(r, out) PROVE <1>4!1
  BY <1>2, <1>3, <1>10 DEF Exec, spanVars, callVars
<1>11. ASSUME NEW r \in Runs, Solved(r) \/ VerifyError(r) \/ Repair(r) \/ GiveUp(r) PROVE <1>4!1
  BY <1>2, <1>3, <1>11 DEF Solved, VerifyError, Repair, GiveUp, Failing, Return, spanVars, callVars
<1>12. ASSUME UNCHANGED <<pc, agentVars, spanVars, callVars>> PROVE <1>4!1
  BY <1>2, <1>3, <1>12 DEF agentVars, spanVars, callVars
<1> QED BY <1>5, <1>6, <1>7, <1>8, <1>9, <1>10, <1>11, <1>12, Frame DEF RunStep, Outcomes

\* Whatever a run or the pool does is a step of the contract, or none.
LEMMA PoolStepOrStutter ==
  ASSUME [Next]_vars
  PROVE  [Pool!Next]_(Pool!vars)
<1> USE DEF Pool!vars, poolVars
<1>1. ASSUME NEW r \in Runs, Acquire(r) PROVE Pool!Next BY <1>1 DEF Acquire, Pool!Next
<1>2. ASSUME NEW r \in Runs, Release(r) PROVE Pool!Next BY <1>2 DEF Release, Pool!Next
<1>3. ASSUME NEW r \in Runs, Begin(r) \/ Plan(r) \/ Generate(r) \/ GenerateOk(r) \/ GenerateError(r)
      PROVE  UNCHANGED Pool!vars
  BY <1>3 DEF Begin, Plan, Generate, GenerateOk, GenerateError
<1>4. ASSUME NEW r \in Runs, LoadCallN(r) \/ StoreCallN(r) \/ StartCall(r) \/ AcquireError(r)
      PROVE  UNCHANGED Pool!vars
  BY <1>4 DEF LoadCallN, StoreCallN, StartCall, AcquireError
<1>5. ASSUME NEW r \in Runs, NEW out \in Outcomes, Exec(r, out) PROVE UNCHANGED Pool!vars
  BY <1>5 DEF Exec
<1>6. ASSUME NEW r \in Runs, Solved(r) \/ VerifyError(r) \/ Repair(r) \/ GiveUp(r)
      PROVE  UNCHANGED Pool!vars
  BY <1>6 DEF Solved, VerifyError, Repair, GiveUp
<1>7. ASSUME UNCHANGED poolVars \/ \E s \in Sandboxes : Pool!Stock(s) \/ Pool!Purge(s) \/ Pool!Waste(s)
      PROVE  [Pool!Next]_(Pool!vars)
  BY <1>7 DEF Pool!Next
<1> QED BY <1>1, <1>2, <1>3, <1>4, <1>5, <1>6, <1>7, Frame DEF RunStep, Outcomes

\* The tool calls of agent runs ask of the pool what the contract has, and nothing else.
THEOREM AgentIsPoolClient == Spec => Pool!Spec
<1>1. Init => Pool!Init BY DEF Init
<1>2. [Next]_vars => [Pool!Next]_(Pool!vars) BY PoolStepOrStutter
<1> QED BY <1>1, <1>2, PTL DEF Spec, Pool!Spec

\* A sandbox is waiting, or lent to one client, or given up.
Apart ==
  /\ PoolType
  /\ idle \intersect retired = {}
  /\ \A r \in Runs : lent[r] \notin idle \union retired
  /\ \A r, q \in Runs : lent[r] # None /\ lent[r] = lent[q] => r = q

\* Every step of the contract keeps them apart.
LEMMA ApartNext ==
  ASSUME Apart, [Pool!Next]_(Pool!vars)
  PROVE  Apart'
<1> USE AgentAssumption DEF Apart, PoolType
<1>1. ASSUME NEW s \in Sandboxes, Pool!Stock(s) PROVE Apart'
  BY <1>1 DEF Pool!Stock, Pool!Unseen, Pool!Borrowed
<1>2. ASSUME NEW s \in Sandboxes, Pool!Purge(s) PROVE Apart' BY <1>2 DEF Pool!Purge
<1>3. ASSUME NEW s \in Sandboxes, Pool!Waste(s) PROVE Apart'
  BY <1>3 DEF Pool!Waste, Pool!Unseen, Pool!Borrowed
<1>4. ASSUME NEW c \in Runs, NEW s \in Sandboxes, Pool!Lend(c, s) PROVE Apart'
  BY <1>4 DEF Pool!Lend
<1>5. ASSUME NEW c \in Runs, NEW s \in Sandboxes, Pool!LendNew(c, s) PROVE Apart'
  BY <1>5 DEF Pool!LendNew, Pool!Unseen, Pool!Borrowed
<1>6. ASSUME NEW c \in Runs, Pool!Return(c) PROVE Apart' BY <1>6 DEF Pool!Return
<1>7. ASSUME NEW c \in Runs, Pool!Discard(c) PROVE Apart' BY <1>7 DEF Pool!Discard
<1>8. CASE UNCHANGED Pool!vars BY <1>8 DEF Pool!vars
<1> QED BY <1>1, <1>2, <1>3, <1>4, <1>5, <1>6, <1>7, <1>8 DEF Pool!Next

\* No two runs ever execute in the same sandbox, nor one in a sandbox that waits for
\* another or that was given up, however their tool calls interleave with refills.
THEOREM AgentSandboxesApart == Spec => []Apart
<1>1. Init => Apart BY AgentAssumption DEF Init, Pool!Init, Apart, PoolType
<1>2. Apart /\ [Next]_vars => Apart' BY ApartNext, PoolStepOrStutter
<1> QED BY <1>1, <1>2, PTL DEF Spec

\* Every variable of the agent runs, their spans and the pool keeps its type.
THEOREM AgentTypeCorrect == Spec => []TypeOK
<1>1. Init => SpanType /\ CallType
  <2> SUFFICES ASSUME Init PROVE SpanType /\ CallType OBVIOUS
  <2>1. CallType BY DEF Init, CallType
  <2>2. ctx \in [Runs -> Spans \union {"none"}] /\ open \in [Runs -> SUBSET Spans] BY DEF Init
  <2>3. edges \in [Runs -> SUBSET [span : Spans, parent : Spans \union {"none"}, alive : BOOLEAN]]
    BY DEF Init
  <2> QED BY <2>1, <2>2, <2>3 DEF SpanType
<1>2. LoopType /\ SpanType /\ CallType /\ [Next]_vars => (SpanType /\ CallType)' BY SpanTyped
<1>3. LoopType /\ SpanType /\ CallType /\ Apart => TypeOK BY DEF TypeOK, Apart
<1> QED BY <1>1, <1>2, <1>3, LoopInvariant, AgentSandboxesApart, PTL DEF Spec

-----------------------------------------------------------------------------
(* Eval runs.  First, induction over a set that is named, which well-founded *)
(* orders give: the library's rules for it take an operator.                 *)

\* Of some subsets of a finite set, one holds no other.
LEMMA SmallestSubset ==
  ASSUME NEW S, IsFiniteSet(S), NEW B \in SUBSET (SUBSET S), B # {}
  PROVE  \E T \in B : \A U \in B : U \subseteq T => U = T
<1>1. IsWellFoundedOn(StrictSubsetOrdering(S), SUBSET S)
  BY FS_FiniteSubsetsOfFinite, FS_StrictSubsetOrderingWellFounded
<1>2. PICK T \in B : \A U \in B : <<U, T>> \notin StrictSubsetOrdering(S) BY <1>1, WFMin
<1>3. \A U \in B : U \subseteq T => U = T BY <1>2 DEF StrictSubsetOrdering
<1> QED BY <1>3

\* What holds of {} and, with a set, of the set with one element more holds of every
\* subset of a finite set.
LEMMA SetInduction ==
  ASSUME NEW S, IsFiniteSet(S), NEW F \in SUBSET (SUBSET S),
         {} \in F, \A T \in F : \A x \in S \ T : T \union {x} \in F
  PROVE  F = SUBSET S
<1> DEFINE Bad == (SUBSET S) \ F
<1>1. SUFFICES ASSUME Bad # {} PROVE FALSE OBVIOUS
<1>2. PICK T \in Bad : \A U \in Bad : U \subseteq T => U = T
  <2>1. Bad \in SUBSET (SUBSET S) OBVIOUS
  <2> HIDE DEF Bad
  <2> QED BY <1>1, <2>1, SmallestSubset
<1>3. PICK x : x \in T OBVIOUS
<1>4. T \ {x} \in F BY <1>2, <1>3
<1>5. (T \ {x}) \union {x} = T BY <1>3
<1> QED BY <1>3, <1>4, <1>5

\* What holds of 0 and, with a number, of the next holds of every natural number.
LEMMA NatInd ==
  ASSUME NEW F \in SUBSET Nat, 0 \in F, \A i \in F : i + 1 \in F
  PROVE  F = Nat
<1> DEFINE Bad == Nat \ F
<1>1. SUFFICES ASSUME Bad # {} PROVE FALSE OBVIOUS
<1>2. IsWellFoundedOn(OpToRel(<, Nat), Nat) BY NatLessThanWellFounded
<1>3. PICK m \in Bad : \A j \in Bad : <<j, m>> \notin OpToRel(<, Nat)
  <2> HIDE DEF Bad
  <2>1. Bad \subseteq Nat BY DEF Bad
  <2> QED BY <1>1, <1>2, <2>1, WFMin
<1>4. \A j \in Bad : ~(j < m) BY <1>3 DEF OpToRel
<1>5. m - 1 \in Bad BY <1>4
<1> QED BY <1>4, <1>5

-----------------------------------------------------------------------------
(* Falling, the denominator of passAtK, and what it counts.                  *)

\* f is right at i; the function Falling defines, and that there is one.
FallStep(nn, f, i) == f[i] = IF i = 0 THEN 1 ELSE f[i - 1] * (nn - i + 1)

FallFn(nn, kk) == CHOOSE f : f = [i \in 0..kk |-> IF i = 0 THEN 1 ELSE f[i - 1] * (nn - i + 1)]

\* Falling is the last value of that function.
LEMMA FallDef == ASSUME NEW nn, NEW kk PROVE Falling(nn, kk) = FallFn(nn, kk)[kk]
BY DEF Falling, FallFn

\* Some function satisfies the recursive definition.
LEMMA FallExists ==
  ASSUME NEW nn \in Int
  PROVE  \A kk \in Nat : \E f \in [0..kk -> Int] : \A i \in 0..kk : FallStep(nn, f, i)
<1> DEFINE F == {kk \in Nat : \E f \in [0..kk -> Int] : \A i \in 0..kk : FallStep(nn, f, i)}
<1>1. 0 \in F
  <2>1. [i \in 0..0 |-> 1] \in [0..0 -> Int] OBVIOUS
  <2>2. \A i \in 0..0 : FallStep(nn, [j \in 0..0 |-> 1], i) BY DEF FallStep
  <2> QED BY <2>1, <2>2
<1>2. ASSUME NEW kk \in F PROVE kk + 1 \in F
  <2>1. PICK f \in [0..kk -> Int] : \A i \in 0..kk : FallStep(nn, f, i) OBVIOUS
  <2> DEFINE g == [i \in 0..(kk + 1) |-> IF i <= kk THEN f[i] ELSE f[kk] * (nn - kk)]
  <2>2. f[kk] * (nn - kk) \in Int OBVIOUS
  <2>3. g \in [0..(kk + 1) -> Int] BY <2>2
  <2>4. ASSUME NEW i \in 0..(kk + 1) PROVE FallStep(nn, g, i)
    <3>1. CASE i <= kk
      <4>1. FallStep(nn, f, i) BY <2>1, <3>1
      <4>2. g[i] = f[i] BY <3>1
      <4>3. i # 0 => g[i - 1] = f[i - 1] BY <3>1
      <4> QED BY <4>1, <4>2, <4>3 DEF FallStep
    <3>2. CASE i = kk + 1
      <4>1. g[i] = f[kk] * (nn - kk) /\ g[i - 1] = f[kk] /\ i # 0 /\ nn - i + 1 = nn - kk BY <3>2
      <4> QED BY <4>1 DEF FallStep
    <3> QED BY <3>1, <3>2
  <2> HIDE DEF g
  <2>5. \E h \in [0..(kk + 1) -> Int] : \A i \in 0..(kk + 1) : FallStep(nn, h, i) BY <2>3, <2>4
  <2> QED BY <2>5
<1>3. F \in SUBSET Nat OBVIOUS
<1> HIDE DEF F
<1>4. F = Nat BY <1>1, <1>2, <1>3, NatInd
<1> QED BY <1>4 DEF F

\* So the function chosen satisfies it.
LEMMA FallFnStep ==
  ASSUME NEW nn \in Int, NEW kk \in Nat
  PROVE  \A i \in 0..kk : FallStep(nn, FallFn(nn, kk), i)
<1>1. PICK f \in [0..kk -> Int] : \A i \in 0..kk : FallStep(nn, f, i) BY FallExists
<1>2. f = [i \in 0..kk |-> IF i = 0 THEN 1 ELSE f[i - 1] * (nn - i + 1)] BY <1>1 DEF FallStep
<1> DEFINE g == FallFn(nn, kk)
<1>3. g = [i \in 0..kk |-> IF i = 0 THEN 1 ELSE g[i - 1] * (nn - i + 1)]
  BY <1>2 DEF FallFn
<1> QED BY <1>3 DEF FallStep

\* n(n-1)...(n-k+1), by its last factor.
LEMMA FallingNext ==
  ASSUME NEW nn \in Int
  PROVE  /\ Falling(nn, 0) = 1
         /\ \A kk \in Nat : Falling(nn, kk + 1) = Falling(nn, kk) * (nn - kk)
<1>1. Falling(nn, 0) = 1
  <2>1. FallStep(nn, FallFn(nn, 0), 0) BY FallFnStep
  <2> QED BY <2>1, FallDef DEF FallStep
<1>2. ASSUME NEW kk \in Nat PROVE Falling(nn, kk + 1) = Falling(nn, kk) * (nn - kk)
  <2> DEFINE f == FallFn(nn, kk)  g == FallFn(nn, kk + 1)
             Same == {i \in Nat : i <= kk => f[i] = g[i]}
  <2>1. \A i \in 0..kk : FallStep(nn, f, i) BY FallFnStep
  <2>2. \A i \in 0..(kk + 1) : FallStep(nn, g, i) BY FallFnStep
  <2> HIDE DEF f, g
  <2>3. 0 \in Same BY <2>1, <2>2 DEF FallStep
  <2>4. ASSUME NEW i \in Same PROVE i + 1 \in Same
    <3>1. CASE i + 1 <= kk
      <4>1. f[i] = g[i] /\ i + 1 # 0 /\ (i + 1) - 1 = i BY <3>1
      <4>2. f[i + 1] = f[i] * (nn - (i + 1) + 1) BY <2>1, <3>1, <4>1 DEF FallStep
      <4>3. g[i + 1] = g[i] * (nn - (i + 1) + 1) BY <2>2, <3>1, <4>1 DEF FallStep
      <4> QED BY <4>1, <4>2, <4>3
    <3> QED BY <3>1
  <2>5. Same = Nat
    <3>1. Same \in SUBSET Nat OBVIOUS
    <3> HIDE DEF Same
    <3> QED BY <2>3, <2>4, <3>1, NatInd
  <2>6. f[kk] = g[kk] BY <2>5
  <2>7. g[kk + 1] = g[kk] * (nn - kk)
    <3>1. FallStep(nn, g, kk + 1) BY <2>2
    <3>2. kk + 1 # 0 /\ (kk + 1) - 1 = kk /\ nn - (kk + 1) + 1 = nn - kk OBVIOUS
    <3> QED BY <3>1, <3>2 DEF FallStep
  <2> QED BY <2>6, <2>7, FallDef DEF f, g
<1> QED BY <1>1, <1>2

\* It is a natural number, 0 when there are fewer than k to draw from.
LEMMA FallingNat ==
  ASSUME NEW nn \in Nat
  PROVE  \A kk \in Nat : Falling(nn, kk) \in Nat /\ (kk > nn => Falling(nn, kk) = 0)
<1> DEFINE F == {kk \in Nat : Falling(nn, kk) \in Nat /\ (kk > nn => Falling(nn, kk) = 0)}
<1>1. 0 \in F BY FallingNext
<1>2. ASSUME NEW kk \in F PROVE kk + 1 \in F
  <2>1. Falling(nn, kk + 1) = Falling(nn, kk) * (nn - kk) BY FallingNext
  <2> DEFINE a == Falling(nn, kk)
  <2>2. a \in Nat /\ (kk > nn => a = 0) OBVIOUS
  <2> HIDE DEF a
  <2>3. CASE kk > nn
    <3>1. a * (nn - kk) = 0 BY <2>2, <2>3
    <3> QED BY <2>1, <3>1 DEF a
  <2>4. CASE kk <= nn
    <3>1. nn - kk \in Nat /\ (kk + 1 > nn => nn - kk = 0) BY <2>4
    <3>2. a * (nn - kk) \in Nat /\ (kk + 1 > nn => a * (nn - kk) = 0) BY <2>2, <3>1
    <3> QED BY <2>1, <3>2 DEF a
  <2> QED BY <2>3, <2>4
<1>3. F \in SUBSET Nat OBVIOUS
<1> HIDE DEF F
<1>4. F = Nat BY <1>1, <1>2, <1>3, NatInd
<1> QED BY <1>4 DEF F

\* And by its first factor.
LEMMA FallingFirst ==
  ASSUME NEW nn \in Nat
  PROVE  \A kk \in Nat : Falling(nn + 1, kk + 1) = (nn + 1) * Falling(nn, kk)
<1> DEFINE F == {kk \in Nat : Falling(nn + 1, kk + 1) = (nn + 1) * Falling(nn, kk)}
<1>1. 0 \in F
  <2>1. /\ Falling(nn + 1, 0) = 1 /\ Falling(nn, 0) = 1
        /\ Falling(nn + 1, 0 + 1) = Falling(nn + 1, 0) * (nn + 1 - 0)
    BY FallingNext
  <2> QED BY <2>1
<1>2. ASSUME NEW kk \in F PROVE kk + 1 \in F
  <2> DEFINE a == Falling(nn, kk)
  <2>1. Falling(nn + 1, kk + 1) = (nn + 1) * a OBVIOUS
  <2>2. Falling(nn + 1, (kk + 1) + 1) = Falling(nn + 1, kk + 1) * (nn + 1 - (kk + 1)) BY FallingNext
  <2>3. Falling(nn, kk + 1) = a * (nn - kk) BY FallingNext
  <2>4. a \in Nat BY FallingNat
  <2> HIDE DEF a
  <2>5. ((nn + 1) * a) * (nn + 1 - (kk + 1)) = (nn + 1) * (a * (nn - kk)) BY <2>4
  <2> QED BY <2>1, <2>2, <2>3, <2>5
<1>3. F \in SUBSET Nat OBVIOUS
<1> HIDE DEF F
<1>4. F = Nat BY <1>1, <1>2, <1>3, NatInd
<1> QED BY <1>4 DEF F

\* Pascal's rule for it.
LEMMA FallingPascal ==
  ASSUME NEW nn \in Nat, NEW kk \in Nat
  PROVE  Falling(nn + 1, kk + 1) = Falling(nn, kk + 1) + (kk + 1) * Falling(nn, kk)
<1> DEFINE a == Falling(nn, kk)
<1>1. Falling(nn + 1, kk + 1) = (nn + 1) * a BY FallingFirst
<1>2. Falling(nn, kk + 1) = a * (nn - kk) BY FallingNext
<1>3. a \in Nat BY FallingNat
<1> HIDE DEF a
<1>4. (nn + 1) * a = a * (nn - kk) + (kk + 1) * a BY <1>3
<1> QED BY <1>1, <1>2, <1>4 DEF a

\* It grows with n.
LEMMA FallingGrows ==
  ASSUME NEW mm \in Nat, NEW kk \in Nat
  PROVE  \A dd \in Nat : Falling(mm, kk) <= Falling(mm + dd, kk)
<1> DEFINE F == {dd \in Nat : Falling(mm, kk) <= Falling(mm + dd, kk)}
<1>1. 0 \in F BY FallingNat
<1>2. ASSUME NEW dd \in F PROVE dd + 1 \in F
  <2>1. mm + dd \in Nat /\ mm + (dd + 1) = (mm + dd) + 1 OBVIOUS
  <2>2. Falling(mm + dd, kk) <= Falling((mm + dd) + 1, kk)
    <3>1. CASE kk = 0 BY <2>1, <3>1, FallingNext
    <3>2. CASE kk # 0
      <4>1. kk - 1 \in Nat /\ (kk - 1) + 1 = kk BY <3>2
      <4>2. Falling((mm + dd) + 1, kk) = Falling(mm + dd, kk) + kk * Falling(mm + dd, kk - 1)
        BY <2>1, <4>1, FallingPascal
      <4> DEFINE a == Falling(mm + dd, kk)  b == Falling(mm + dd, kk - 1)
      <4>3. a \in Nat /\ b \in Nat BY <2>1, <4>1, FallingNat
      <4> HIDE DEF a, b
      <4>4. kk * b >= 0 BY <4>3
      <4>5. a <= a + kk * b BY <4>3, <4>4
      <4> QED BY <4>2, <4>5 DEF a, b
    <3> QED BY <3>1, <3>2
  <2>3. Falling(mm, kk) \in Nat /\ Falling(mm + dd, kk) \in Nat /\ Falling((mm + dd) + 1, kk) \in Nat
    <3>1. (mm + dd) + 1 \in Nat BY <2>1
    <3> QED BY <2>1, <3>1, FallingNat
  <2> QED BY <2>1, <2>2, <2>3
<1>3. F \in SUBSET Nat OBVIOUS
<1> HIDE DEF F
<1>4. F = Nat BY <1>1, <1>2, <1>3, NatInd
<1> QED BY <1>4 DEF F

\* The k-subsets of a finite set are finitely many.
LEMMA SubsetsFinite ==
  ASSUME NEW S, IsFiniteSet(S), NEW kk \in Nat
  PROVE  IsFiniteSet(kSubset(kk, S)) /\ Cardinality(kSubset(kk, S)) \in Nat
<1>1. kSubset(kk, S) \in SUBSET (SUBSET S) BY DEF kSubset
<1>2. IsFiniteSet(kSubset(kk, S)) BY <1>1, FS_SUBSET, FS_Subset
<1> QED BY <1>2, FS_CardinalityType

\* Pascal's rule: a (k+1)-subset has the new element or it has not.
LEMMA SubsetsPascal ==
  ASSUME NEW S, IsFiniteSet(S), NEW x, x \notin S, NEW kk \in Nat
  PROVE  Cardinality(kSubset(kk + 1, S \union {x})) =
           Cardinality(kSubset(kk + 1, S)) + Cardinality(kSubset(kk, S))
<1> DEFINE A == kSubset(kk + 1, S)
           B == kSubset(kk, S)
           C == {T \union {x} : T \in B}
           f == [T \in B |-> T \union {x}]
<1>1. \A T \in SUBSET S : IsFiniteSet(T) /\ Cardinality(T) \in Nat /\ Cardinality(T \union {x}) = Cardinality(T) + 1
  BY FS_Subset, FS_AddElement, FS_CardinalityType
<1>2. kSubset(kk + 1, S \union {x}) = A \union C
  <2>1. ASSUME NEW U \in kSubset(kk + 1, S \union {x}) PROVE U \in A \union C
    <3>1. U \subseteq S \union {x} /\ Cardinality(U) = kk + 1 BY <2>1 DEF kSubset
    <3>2. CASE x \notin U
      <4>1. U \in SUBSET S BY <3>1, <3>2
      <4> QED BY <3>1, <4>1 DEF kSubset
    <3>3. CASE x \in U
      <4>1. U \ {x} \in SUBSET S /\ U = (U \ {x}) \union {x} BY <3>1, <3>3
      <4>2. Cardinality(U) = Cardinality(U \ {x}) + 1 /\ Cardinality(U \ {x}) \in Nat BY <1>1, <4>1
      <4>3. Cardinality(U \ {x}) = kk BY <3>1, <4>2
      <4>4. U \ {x} \in B BY <4>1, <4>3 DEF kSubset
      <4> QED BY <4>1, <4>4
    <3> QED BY <3>2, <3>3
  <2>2. A \subseteq kSubset(kk + 1, S \union {x}) BY DEF kSubset
  <2>3. ASSUME NEW T \in B PROVE T \union {x} \in kSubset(kk + 1, S \union {x})
    <3>1. T \in SUBSET S /\ Cardinality(T) = kk BY <2>3 DEF kSubset
    <3>2. Cardinality(T \union {x}) = kk + 1 BY <1>1, <3>1
    <3>3. T \union {x} \in SUBSET (S \union {x}) BY <3>1
    <3> QED BY <3>2, <3>3 DEF kSubset
  <2> HIDE DEF A, B
  <2>4. C \subseteq kSubset(kk + 1, S \union {x}) BY <2>3
  <2> QED BY <2>1, <2>2, <2>4
<1>3. A \intersect C = {} BY DEF kSubset
<1>4. IsFiniteSet(A) /\ IsFiniteSet(B) /\ Cardinality(A) \in Nat /\ Cardinality(B) \in Nat
  BY SubsetsFinite
<1>5. f \in Bijection(B, C)
  <2>1. \A T \in B : x \notin T BY DEF kSubset
  <2> HIDE DEF B
  <2>2. f \in [B -> C] OBVIOUS
  <2>3. \A T, U \in B : T \union {x} = U \union {x} => T = U BY <2>1
  <2>4. IsInjective(f) BY <2>3 DEF IsInjective
  <2>5. \A U \in C : \E T \in B : f[T] = U OBVIOUS
  <2> QED BY <2>2, <2>4, <2>5 DEF Bijection, Injection, Surjection
<1>6. IsFiniteSet(C) /\ Cardinality(C) = Cardinality(B)
  <2> HIDE DEF B, C, f
  <2> QED BY <1>4, <1>5, FS_Bijection DEF ExistsBijection
<1>7. Cardinality(A \union C) = Cardinality(A) + Cardinality(C)
  <2> HIDE DEF A, B, C
  <2>1. Cardinality(A \union C) = Cardinality(A) + Cardinality(C) - Cardinality(A \intersect C)
    BY <1>4, <1>6, FS_Union
  <2> QED BY <1>3, <1>4, <1>6, <2>1, FS_EmptySet
<1> QED BY <1>2, <1>6, <1>7

\* How many k-subsets a set has, up to the factor k!: as many as its size falls to.
LEMMA SubsetsCount ==
  ASSUME NEW S, IsFiniteSet(S)
  PROVE  \A kk \in Nat : \E q \in Nat : \A T \in SUBSET S :
           Falling(Cardinality(T), kk) = q * Cardinality(kSubset(kk, T))
<1> DEFINE Count(kk, q, T) == Falling(Cardinality(T), kk) = q * Cardinality(kSubset(kk, T))
           F == {kk \in Nat : \E q \in Nat : \A T \in SUBSET S : Count(kk, q, T)}
<1>0. \A T \in SUBSET S : IsFiniteSet(T) /\ Cardinality(T) \in Nat BY FS_Subset, FS_CardinalityType
<1>1. 0 \in F
  <2>1. ASSUME NEW T \in SUBSET S PROVE Count(0, 1, T)
    <3>1. kSubset(0, T) = {{}}
      <4>1. \A U \in SUBSET T : Cardinality(U) = 0 <=> U = {} BY <1>0, FS_EmptySet
      <4> QED BY <4>1 DEF kSubset
    <3>2. Falling(Cardinality(T), 0) = 1
      <4>1. Cardinality(T) \in Int BY <1>0
      <4> QED BY <4>1, FallingNext
    <3>3. Cardinality(kSubset(0, T)) = 1 BY <3>1, FS_Singleton
    <3> QED BY <3>2, <3>3
  <2> HIDE DEF Count
  <2> QED BY <2>1
<1>2. ASSUME NEW kk \in F PROVE kk + 1 \in F
  <2>1. PICK q \in Nat : \A T \in SUBSET S : Count(kk, q, T) OBVIOUS
  <2> DEFINE r == (kk + 1) * q
             G == {T \in SUBSET S : Count(kk + 1, r, T)}
  <2>2. r \in Nat OBVIOUS
  <2>3. {} \in G
    <3>1. kSubset(kk + 1, {}) = {}
      <4>1. Cardinality({}) = 0 /\ kk + 1 # 0 BY FS_EmptySet
      <4>2. \A U \in SUBSET {} : U = {} OBVIOUS
      <4> QED BY <4>1, <4>2 DEF kSubset
    <3>2. Falling(0, kk + 1) = 0 BY FallingNat
    <3> HIDE DEF r
    <3>3. Cardinality({}) = 0 BY FS_EmptySet
    <3>4. 0 = r * 0 BY <2>2
    <3>5. Count(kk + 1, r, {}) BY <3>1, <3>2, <3>3, <3>4
    <3> QED BY <3>5
  <2>4. ASSUME NEW T \in G, NEW x \in S \ T PROVE T \union {x} \in G
    <3> DEFINE m == Cardinality(T)
               a == Falling(m, kk)  b == Falling(m, kk + 1)
               s == Cardinality(kSubset(kk, T))  t == Cardinality(kSubset(kk + 1, T))
    <3>1. m \in Nat /\ IsFiniteSet(T) /\ Cardinality(T \union {x}) = m + 1
      BY <1>0, FS_AddElement
    <3>2. s \in Nat /\ t \in Nat
      <4>1. kk + 1 \in Nat OBVIOUS
      <4> QED BY <3>1, <4>1, SubsetsFinite
    <3>3. Cardinality(kSubset(kk + 1, T \union {x})) = t + s BY <3>1, SubsetsPascal
    <3>4. Falling(m + 1, kk + 1) = b + (kk + 1) * a BY <3>1, FallingPascal
    <3>5. a = q * s BY <2>1
    <3>6. b = r * t OBVIOUS
    <3> HIDE DEF a, b, s, t, m, r, Count
    <3>7. b + (kk + 1) * a = r * (t + s) BY <3>2, <3>5, <3>6 DEF r
    <3>8. T \union {x} \in SUBSET S BY DEF G
    <3>9. Count(kk + 1, r, T \union {x}) BY <3>1, <3>3, <3>4, <3>7 DEF Count
    <3> QED BY <3>8, <3>9
  <2>5. G = SUBSET S
    <3>1. G \in SUBSET (SUBSET S) OBVIOUS
    <3> HIDE DEF G
    <3> QED BY <2>3, <2>4, <3>1, SetInduction
  <2> HIDE DEF Count, r
  <2>6. \A T \in SUBSET S : Count(kk + 1, r, T) BY <2>5
  <2> QED BY <2>2, <2>6
<1>3. F \in SUBSET Nat OBVIOUS
<1> HIDE DEF F
<1>4. F = Nat BY <1>1, <1>2, <1>3, NatInd
<1> QED BY <1>4 DEF F

\* passAtK is a number of Falling(n, k)-ths, at most all of them.
LEMMA PassAtKRange ==
  ASSUME NEW nn \in Nat, NEW c \in 0..nn, NEW kk \in Nat
  PROVE  passAtK(nn, c, kk) \in 0..Falling(nn, kk)
<1>1. Falling(nn, kk) \in Nat BY FallingNat
<1>2. CASE nn - c < kk BY <1>1, <1>2 DEF passAtK
<1>3. CASE ~(nn - c < kk)
  <2>1. nn - c \in Nat /\ c \in Nat /\ (nn - c) + c = nn OBVIOUS
  <2>2. Falling(nn - c, kk) <= Falling((nn - c) + c, kk) BY <2>1, FallingGrows
  <2>3. Falling(nn - c, kk) \in Nat BY <2>1, FallingNat
  <2>4. Falling(nn - c, kk) <= Falling(nn, kk) BY <2>1, <2>2
  <2>5. passAtK(nn, c, kk) = Falling(nn, kk) - Falling(nn - c, kk) BY <1>3 DEF passAtK
  <2> QED BY <1>1, <2>3, <2>4, <2>5
<1> QED BY <1>2, <1>3

\* The k-subsets that miss the first c elements are those of the others, and their number
\* is what passAtK takes off.
LEMMA PassAtKEstimates ==
  ASSUME NEW nn \in Nat, NEW c \in 0..nn, NEW kk \in Nat
  PROVE  LET subsets == kSubset(kk, 1..nn)
             hits    == {S \in subsets : S \intersect (1..c) # {}}
         IN  passAtK(nn, c, kk) * Cardinality(subsets) = Falling(nn, kk) * Cardinality(hits)
<1> DEFINE A == kSubset(kk, 1..nn)
           H == {S \in A : S \intersect (1..c) # {}}
           M == kSubset(kk, (c + 1)..nn)
           a == Cardinality(A)  h == Cardinality(H)  m == Cardinality(M)
<1>1. IsFiniteSet(1..nn) /\ Cardinality(1..nn) = nn BY FS_Interval
<1>2. IsFiniteSet((c + 1)..nn) /\ Cardinality((c + 1)..nn) = nn - c
  <2>1. c + 1 \in Int /\ nn \in Int OBVIOUS
  <2>2. IsFiniteSet((c + 1)..nn)
        /\ Cardinality((c + 1)..nn) = IF c + 1 > nn THEN 0 ELSE nn - (c + 1) + 1
    BY <2>1, FS_Interval
  <2> QED BY <2>2
<1>3. IsFiniteSet(A) /\ a \in Nat /\ IsFiniteSet(M) /\ m \in Nat BY <1>1, <1>2, SubsetsFinite
<1>4. M \subseteq A /\ H = A \ M
  <2>1. (c + 1)..nn = (1..nn) \ (1..c) OBVIOUS
  <2>2. \A S \in SUBSET (1..nn) : S \subseteq (c + 1)..nn <=> S \intersect (1..c) = {} BY <2>1
  <2> QED BY <2>1, <2>2 DEF kSubset
<1>5. h = a - m
  <2> HIDE DEF A, H, M
  <2>1. Cardinality(A \ M) = Cardinality(A) - Cardinality(A \intersect M) BY <1>3, FS_Difference
  <2>2. A \intersect M = M BY <1>4
  <2> QED BY <1>4, <2>1, <2>2
<1>6. Falling(nn, kk) \in Nat BY FallingNat
<1>7. CASE nn - c < kk
  <2>1. M = {}
    <3>1. \A S \in SUBSET ((c + 1)..nn) : Cardinality(S) <= nn - c BY <1>2, FS_Subset
    <3>2. \A S \in SUBSET ((c + 1)..nn) : Cardinality(S) # kk
      <4> SUFFICES ASSUME NEW S \in SUBSET ((c + 1)..nn), Cardinality(S) = kk PROVE FALSE OBVIOUS
      <4> QED BY <1>7, <3>1
    <3> QED BY <3>2 DEF kSubset
  <2>2. m = 0 BY <2>1, FS_EmptySet
  <2>3. passAtK(nn, c, kk) = Falling(nn, kk) BY <1>7 DEF passAtK
  <2> HIDE DEF a, h, m
  <2>4. h = a BY <1>3, <1>5, <2>2
  <2> QED BY <2>3, <2>4 DEF a, h
<1>8. CASE ~(nn - c < kk)
  <2>1. PICK q \in Nat : \A T \in SUBSET (1..nn) :
          Falling(Cardinality(T), kk) = q * Cardinality(kSubset(kk, T))
    BY <1>1, SubsetsCount
  <2>2. Falling(nn, kk) = q * a
    <3>1. (1..nn) \in SUBSET (1..nn) OBVIOUS
    <3> QED BY <1>1, <2>1, <3>1
  <2>3. Falling(nn - c, kk) = q * m
    <3>1. ((c + 1)..nn) \in SUBSET (1..nn) OBVIOUS
    <3> QED BY <1>2, <2>1, <3>1
  <2>4. passAtK(nn, c, kk) = Falling(nn, kk) - Falling(nn - c, kk) BY <1>8 DEF passAtK
  <2> HIDE DEF a, h, m
  <2>5. (q * a - q * m) * a = (q * a) * h
    <3>1. q * a - q * m = q * (a - m) BY <1>3
    <3>2. (q * h) * a = (q * a) * h BY <1>3, <1>5
    <3> QED BY <1>5, <3>1, <3>2
  <2> QED BY <2>2, <2>3, <2>4, <2>5 DEF a, h, m
<1> QED BY <1>7, <1>8

-----------------------------------------------------------------------------
(* The total of the stored scores, in whatever order they are summed.        *)

\* The element Total takes first, the equation it is defined by, the function it chooses.
Taken(S) == CHOOSE x \in S : TRUE
TotalStep(g, T) == g[T] = IF T = {} THEN 0 ELSE Taken(T).score + g[T \ {Taken(T)}]
TotalFn(S) == CHOOSE g : g = [T \in SUBSET S |-> IF T = {} THEN 0
                                                 ELSE Taken(T).score + g[T \ {Taken(T)}]]

\* Total is the value of that function at the whole set.
LEMMA TotalDef == ASSUME NEW S PROVE Total(S) = TotalFn(S)[S]
BY DEF Total, TotalFn, Taken, MapThenSumSet, MapThenFoldSet

\* A finite set of results.
Scored(S) == IsFiniteSet(S) /\ \A x \in S : x.score \in Int

\* Some function satisfies the equation on every subset.
LEMMA TotalFnExists ==
  ASSUME NEW S, Scored(S)
  PROVE  \E g \in [SUBSET S -> Int] : \A T \in SUBSET S : TotalStep(g, T)
<1> DEFINE Upto(m) == {T \in SUBSET S : Cardinality(T) <= m}
           F == {m \in Nat : \E g \in [SUBSET S -> Int] : \A T \in Upto(m) : TotalStep(g, T)}
<1>0. \A T \in SUBSET S : /\ IsFiniteSet(T) /\ Cardinality(T) \in Nat
                          /\ \A x \in T : Cardinality(T \ {x}) = Cardinality(T) - 1
  BY FS_Subset, FS_CardinalityType, FS_RemoveElement DEF Scored
<1>1. 0 \in F
  <2> DEFINE g == [T \in SUBSET S |-> 0]
  <2>1. g \in [SUBSET S -> Int] OBVIOUS
  <2>2. \A T \in Upto(0) : T = {} BY <1>0, FS_EmptySet
  <2>3. \A T \in Upto(0) : TotalStep(g, T) BY <2>2 DEF TotalStep
  <2> HIDE DEF g
  <2> QED BY <2>1, <2>3
<1>2. ASSUME NEW m \in F PROVE m + 1 \in F
  <2>1. PICK f \in [SUBSET S -> Int] : \A T \in Upto(m) : TotalStep(f, T) OBVIOUS
  <2> DEFINE g == [T \in SUBSET S |-> IF T \in Upto(m) THEN f[T]
                                      ELSE Taken(T).score + f[T \ {Taken(T)}]]
  <2>2. \A T \in SUBSET S : T # {} => Taken(T) \in T BY DEF Taken
  <2>3. {} \in Upto(m) BY FS_EmptySet
  <2>4. g \in [SUBSET S -> Int]
    <3>1. \A T \in SUBSET S : T # {} => Taken(T).score + f[T \ {Taken(T)}] \in Int
      BY <2>2 DEF Scored
    <3> HIDE DEF Upto
    <3> QED BY <2>3, <3>1
  <2>5. ASSUME NEW T \in Upto(m + 1) PROVE TotalStep(g, T)
    <3>1. T \in SUBSET S OBVIOUS
    <3>2. T # {} => T \ {Taken(T)} \in Upto(m) BY <1>0, <2>2, <3>1
    <3>3. CASE T \in Upto(m)
      <4>1. TotalStep(f, T) BY <2>1, <3>3
      <4>2. g[T] = f[T] /\ (T # {} => g[T \ {Taken(T)}] = f[T \ {Taken(T)}])
        <5> HIDE DEF Upto
        <5> QED BY <3>1, <3>2, <3>3
      <4> HIDE DEF g, Upto
      <4> QED BY <4>1, <4>2 DEF TotalStep
    <3>4. CASE T \notin Upto(m)
      <4>1. T # {} BY <2>3, <3>4
      <4>2. g[T] = Taken(T).score + f[T \ {Taken(T)}] /\ g[T \ {Taken(T)}] = f[T \ {Taken(T)}]
        <5> HIDE DEF Upto
        <5> QED BY <3>1, <3>2, <3>4, <4>1
      <4> HIDE DEF g, Upto
      <4> QED BY <4>1, <4>2 DEF TotalStep
    <3> QED BY <3>3, <3>4
  <2> HIDE DEF g, Upto
  <2>6. \E h \in [SUBSET S -> Int] : \A T \in Upto(m + 1) : TotalStep(h, T) BY <2>4, <2>5
  <2> QED BY <2>6 DEF Upto
<1>3. F = Nat
  <2>1. F \in SUBSET Nat OBVIOUS
  <2> HIDE DEF F
  <2> QED BY <1>1, <1>2, <2>1, NatInd
<1>4. Cardinality(S) \in Nat /\ SUBSET S = Upto(Cardinality(S))
  BY FS_Subset, FS_CardinalityType DEF Scored
<1> HIDE DEF Upto
<1> QED BY <1>3, <1>4

\* No two of them differ.
LEMMA TotalUnique ==
  ASSUME NEW S, IsFiniteSet(S), NEW f, NEW g,
         \A T \in SUBSET S : TotalStep(f, T) /\ TotalStep(g, T)
  PROVE  \A T \in SUBSET S : f[T] = g[T]
<1> DEFINE B == {T \in SUBSET S : f[T] # g[T]}
<1>1. SUFFICES ASSUME B # {} PROVE FALSE OBVIOUS
<1>2. PICK T \in B : \A U \in B : U \subseteq T => U = T
  <2>1. B \in SUBSET (SUBSET S) OBVIOUS
  <2> HIDE DEF B
  <2> QED BY <1>1, <2>1, SmallestSubset
<1>3. T # {} BY DEF TotalStep
<1>4. Taken(T) \in T BY <1>3 DEF Taken
<1>5. f[T \ {Taken(T)}] = g[T \ {Taken(T)}] BY <1>2, <1>4
<1> QED BY <1>3, <1>5 DEF TotalStep

\* So the function chosen satisfies it.
LEMMA TotalFnStep ==
  ASSUME NEW S, Scored(S)
  PROVE  /\ \A T \in SUBSET S : TotalStep(TotalFn(S), T)
         /\ \A T \in SUBSET S : TotalFn(S)[T] \in Int
<1>1. PICK f \in [SUBSET S -> Int] : \A T \in SUBSET S : TotalStep(f, T) BY TotalFnExists
<1>2. f = [T \in SUBSET S |-> IF T = {} THEN 0 ELSE Taken(T).score + f[T \ {Taken(T)}]]
  BY <1>1 DEF TotalStep
<1> DEFINE g == TotalFn(S)
<1>3. g = [T \in SUBSET S |-> IF T = {} THEN 0 ELSE Taken(T).score + g[T \ {Taken(T)}]]
  BY <1>2 DEF TotalFn
<1> HIDE DEF g
<1>4. \A T \in SUBSET S : TotalStep(g, T) BY <1>3 DEF TotalStep
<1>5. \A T \in SUBSET S : f[T] = g[T] BY <1>1, <1>4, TotalUnique DEF Scored
<1> QED BY <1>4, <1>5 DEF g

\* Whatever element is taken first, the total is the same.
LEMMA TotalRemove ==
  ASSUME NEW S, Scored(S)
  PROVE  \A T \in SUBSET S : \A x \in T : TotalFn(S)[T] = x.score + TotalFn(S)[T \ {x}]
<1> DEFINE g == TotalFn(S)
           Holds(T) == \A x \in T : g[T] = x.score + g[T \ {x}]
           B == {T \in SUBSET S : ~Holds(T)}
<1>1. SUFFICES ASSUME B # {} PROVE FALSE OBVIOUS
<1>2. PICK T \in B : \A U \in B : U \subseteq T => U = T
  <2>1. B \in SUBSET (SUBSET S) OBVIOUS
  <2> HIDE DEF B
  <2> QED BY <1>1, <2>1, SmallestSubset DEF Scored
<1>3. /\ \A U \in SUBSET S : TotalStep(g, U) /\ g[U] \in Int
      /\ \A x \in S : x.score \in Int
  BY TotalFnStep DEF Scored
<1> HIDE DEF g
<1>4. PICK x \in T : g[T] # x.score + g[T \ {x}] OBVIOUS
<1> DEFINE c == Taken(T)
<1>5. c \in T /\ T \in SUBSET S BY <1>4 DEF Taken
<1>6. g[T] = c.score + g[T \ {c}] BY <1>3, <1>4, <1>5 DEF TotalStep
<1> HIDE DEF c
<1>7. x # c BY <1>4, <1>6
<1>8. Holds(T \ {c}) /\ Holds(T \ {x})
  <2>1. T \ {c} \in SUBSET S /\ T \ {c} # T /\ T \ {x} \in SUBSET S /\ T \ {x} # T BY <1>5
  <2> HIDE DEF Holds
  <2> QED BY <1>2, <2>1
<1>9. g[T \ {c}] = x.score + g[(T \ {c}) \ {x}] BY <1>7, <1>8
<1>10. g[T \ {x}] = c.score + g[(T \ {x}) \ {c}] BY <1>5, <1>7, <1>8
<1>11. (T \ {c}) \ {x} = (T \ {x}) \ {c} OBVIOUS
<1>12. /\ x.score \in Int /\ c.score \in Int
       /\ g[(T \ {x}) \ {c}] \in Int
  <2>1. (T \ {x}) \ {c} \in SUBSET S BY <1>5
  <2> QED BY <1>3, <1>5, <2>1
<1> DEFINE u == g[(T \ {x}) \ {c}]  p == x.score  q == c.score
<1>13. g[T] = q + (p + u) BY <1>6, <1>9, <1>11
<1>14. g[T \ {x}] = q + u BY <1>10
<1>15. p \in Int /\ q \in Int /\ u \in Int BY <1>12
<1>16. g[T] # p + g[T \ {x}] BY <1>4
<1> HIDE DEF u, p, q
<1>17. q + (p + u) = p + (q + u) BY <1>15
<1> QED BY <1>13, <1>14, <1>16, <1>17

\* The total of a set of results, and what one more adds to it.
LEMMA TotalAdd ==
  ASSUME NEW S, Scored(S)
  PROVE  /\ Total(S) \in Int
         /\ S = {} => Total(S) = 0
         /\ \A x : x \notin S /\ x.score \in Int => Total(S \union {x}) = Total(S) + x.score
<1>1. Total(S) \in Int /\ (S = {} => Total(S) = 0)
  BY TotalDef, TotalFnStep DEF TotalStep
<1>2. ASSUME NEW x, x \notin S, x.score \in Int
      PROVE  Total(S \union {x}) = Total(S) + x.score
  <2> DEFINE R == S \union {x}
  <2>1. Scored(R) BY <1>2, FS_AddElement DEF Scored
  <2>2. TotalFn(R)[R] = x.score + TotalFn(R)[R \ {x}] BY <2>1, TotalRemove
  <2>3. R \ {x} = S BY <1>2
  <2>4. TotalFn(R)[S] = TotalFn(S)[S]
    <3>1. \A T \in SUBSET S : TotalStep(TotalFn(R), T) BY <2>1, TotalFnStep
    <3>2. \A T \in SUBSET S : TotalStep(TotalFn(S), T) BY TotalFnStep
    <3>3. IsFiniteSet(S) BY DEF Scored
    <3> DEFINE f == TotalFn(R)  g == TotalFn(S)
    <3>4. \A T \in SUBSET S : TotalStep(f, T) /\ TotalStep(g, T) BY <3>1, <3>2
    <3> HIDE DEF f, g
    <3>5. \A T \in SUBSET S : f[T] = g[T] BY <3>3, <3>4, TotalUnique
    <3> QED BY <3>5 DEF f, g
  <2> HIDE DEF R
  <2>5. Total(R) = x.score + Total(S) BY <2>2, <2>3, <2>4, TotalDef
  <2> QED BY <1>1, <1>2, <2>5 DEF R
<1> QED BY <1>1, <1>2

-----------------------------------------------------------------------------
(* The scores of the three kinds.                                            *)

\* Min of some natural numbers is one of them.
LEMMA SmallestNumber ==
  ASSUME NEW S \in SUBSET Nat, S # {}
  PROVE  Min(S) \in S
<1>1. IsWellFoundedOn(OpToRel(<, Nat), Nat) BY NatLessThanWellFounded
<1>2. PICK i \in S : \A j \in S : <<j, i>> \notin OpToRel(<, Nat) BY <1>1, WFMin
<1>3. \A j \in S : ~(j < i) BY <1>2 DEF OpToRel
<1>4. \A j \in S : i =< j BY <1>3
<1> QED BY <1>4 DEF Min

\* The counts of a suite and what its scores are counted in are natural numbers.
LEMMA Params ==
  /\ Draws \in Nat /\ Samples \in Nat
  /\ \A e \in Evals : Full(kind[e]) \in Nat /\ MaxScore(e) \in Nat
<1>1. Draws \in Nat /\ Samples \in Nat BY EvalAssumption DEF Draws, Samples
<1>2. Falling(Samples, Draws) \in Nat BY <1>1, FallingNat
<1> QED BY <1>1, <1>2 DEF Full, MaxScore

\* A judge's score is one of its five, or 0.
LEMMA JudgeRange == \A reply \in Replies : judgeScore(reply) \in 0..5
<1> SUFFICES ASSUME NEW reply \in Replies PROVE judgeScore(reply) \in 0..5 OBVIOUS
<1> DEFINE digits == {i \in DOMAIN reply : reply[i] \in 1..5}
<1>1. reply \in Seq(Nat)
  <2>1. <<>> \in Seq(Nat) /\ <<0>> \in Seq(Nat) /\ <<4>> \in Seq(Nat) OBVIOUS
  <2>2. <<1, 0>> \in Seq(Nat) /\ <<7, 5>> \in Seq(Nat) OBVIOUS
  <2> QED BY <2>1, <2>2 DEF Replies
<1>2. digits \in SUBSET Nat BY <1>1
<1>3. CASE digits = {} BY <1>3 DEF judgeScore
<1>4. CASE digits # {}
  <2>1. Min(digits) \in digits
    <3> HIDE DEF digits
    <3> QED BY <1>2, <1>4, SmallestNumber
  <2> QED BY <1>4, <2>1 DEF judgeScore
<1> QED BY <1>3, <1>4

\* Only the sample loop counts samples.
Counters == \A e \in Evals : kind[e] # "code_passk" => sample[e] = 0

\* The steps that end a case.
Scores(e) == \/ ScoreSamples(e)
             \/ \E out \in Outs, own \in CheckSets : Check(e, out, own)
             \/ \E reply \in Replies : Judge(e, reply)

\* Whatever the kind, a case ends with one score in its range and fresh counters.
LEMMA Scoring ==
  ASSUME EvalTypeOK, Counters, NEW e \in Evals, Scores(e)
  PROVE  /\ \E v \in 0..MaxScore(e) : Score(e, v)
         /\ phase[e] = "case" /\ at[e] \in 1..NCases
         /\ correct' = [correct EXCEPT ![e] = 0]
<1>0. /\ at[e] \in 1..(NCases + 1) /\ sample[e] \in 0..Samples /\ correct[e] \in 0..Samples
      /\ correct[e] <= sample[e] /\ correct \in [Evals -> 0..Samples]
  BY DEF EvalTypeOK
<1>1. CASE ScoreSamples(e)
  <2>1. kind[e] = "code_passk" /\ MaxScore(e) = Falling(Samples, Draws)
    BY <1>1 DEF ScoreSamples, AtCase, MaxScore, Full
  <2>2. passAtK(Samples, correct[e], Draws) \in 0..MaxScore(e) BY <1>0, <2>1, Params, PassAtKRange
  <2> QED BY <1>0, <1>1, <2>2, EvalAssumption DEF ScoreSamples, AtCase
<1>2. CASE \E out \in Outs, own \in CheckSets : Check(e, out, own)
  <2>1. PICK out \in Outs, own \in CheckSets : Check(e, out, own) BY <1>2
  <2>2. kind[e] = "deterministic" /\ MaxScore(e) = 1
    BY <2>1 DEF Check, AtCase, MaxScore, Full
  <2>3. correct[e] = 0 BY <1>0, <2>2 DEF Counters
  <2>4. \E v \in 0..1 : Score(e, v) BY <2>1 DEF Check
  <2> QED BY <1>0, <2>1, <2>2, <2>3, <2>4, EvalAssumption DEF Check, AtCase
<1>3. CASE \E reply \in Replies : Judge(e, reply)
  <2>1. PICK reply \in Replies : Judge(e, reply) BY <1>3
  <2>2. kind[e] = "judge" /\ MaxScore(e) = 5
    BY <2>1 DEF Judge, AtCase, MaxScore
  <2>3. correct[e] = 0 BY <1>0, <2>2 DEF Counters
  <2>4. judgeScore(reply) \in 0..5 BY JudgeRange
  <2> QED BY <1>0, <2>1, <2>2, <2>3, <2>4, EvalAssumption DEF Judge, AtCase
<1> QED BY <1>1, <1>2, <1>3 DEF Scores

\* A bound of so much per case still holds with one case more.
LEMMA SumGrows ==
  ASSUME NEW a \in Nat, NEW m \in Nat, NEW s \in 0..(a * m), NEW v \in 0..m
  PROVE  s + v \in 0..((a + 1) * m)
<1>1. a * m \in Nat /\ (a + 1) * m = a * m + m OBVIOUS
<1> QED BY <1>1

-----------------------------------------------------------------------------
(* The variables of an eval run keep their types.                            *)

\* A row of eval_results and one of eval_runs.
RowType  == [eval : Evals, case : 1..NCases, score : Nat]
RunType  == [eval : Evals, sum : Nat, passed : BOOLEAN]

\* The places a case score changes.
LEMMA ScoreTyped ==
  ASSUME EvalTypeOK, Counters, NEW e \in Evals, Scores(e)
  PROVE  (EvalTypeOK /\ Counters)'
<1>1. PICK v \in 0..MaxScore(e) : Score(e, v) BY Scoring
<1>2. phase[e] = "case" /\ at[e] \in 1..NCases /\ correct' = [correct EXCEPT ![e] = 0] BY Scoring
<1>3. /\ at' = [at EXCEPT ![e] = @ + 1] /\ sample' = [sample EXCEPT ![e] = 0]
      /\ sum' = [sum EXCEPT ![e] = @ + v]
      /\ UNCHANGED <<ids, kind, mins, phase, runs, gate>>
  BY <1>1 DEF Score
<1>4. /\ ids \in [1..NCases -> 1..NCases] /\ at \in [Evals -> 1..(NCases + 1)]
      /\ sample \in [Evals -> 0..Samples] /\ correct \in [Evals -> 0..Samples]
      /\ \A d \in Evals : correct[d] <= sample[d] /\ sum[d] \in 0..((at[d] - 1) * MaxScore(d))
      /\ rows \in SUBSET RowType /\ NCases \in Nat /\ sum \in [Evals -> Nat]
      /\ unstored \in SUBSET Evals
  BY EvalAssumption DEF EvalTypeOK, RowType
<1>5. \A d \in Evals : MaxScore(d)' = MaxScore(d) /\ MaxScore(d) \in Nat
  BY <1>3, Params DEF MaxScore, Full
<1>6. at' \in [Evals -> 1..(NCases + 1)]
  <2>1. at[e] + 1 \in 1..(NCases + 1) BY <1>2, <1>4
  <2>2. at' = [at EXCEPT ![e] = at[e] + 1] /\ at \in [Evals -> 1..(NCases + 1)] BY <1>3, <1>4
  <2> QED BY <2>1, <2>2
<1>7. sample' \in [Evals -> 0..Samples] /\ correct' \in [Evals -> 0..Samples]
  <2>1. 0 \in 0..Samples BY Params
  <2>2. sample' = [sample EXCEPT ![e] = 0] /\ sample \in [Evals -> 0..Samples] BY <1>3, <1>4
  <2>3. correct' = [correct EXCEPT ![e] = 0] /\ correct \in [Evals -> 0..Samples] BY <1>2, <1>4
  <2> QED BY <2>1, <2>2, <2>3
<1>8. \A d \in Evals : correct'[d] <= sample'[d] BY <1>2, <1>3, <1>4
<1>9. \A d \in Evals : sum'[d] \in 0..((at'[d] - 1) * MaxScore(d)')
  <2>0. /\ at' = [at EXCEPT ![e] = at[e] + 1] /\ DOMAIN at = Evals
        /\ sum' = [sum EXCEPT ![e] = sum[e] + v] /\ DOMAIN sum = Evals
    BY <1>3, <1>4
  <2>1. \A d \in Evals : d # e => sum'[d] = sum[d] /\ at'[d] = at[d] BY <2>0
  <2>2. sum'[e] = sum[e] + v /\ at'[e] = at[e] + 1 BY <2>0
  <2>3. at[e] - 1 \in Nat /\ at'[e] - 1 = (at[e] - 1) + 1 BY <1>2, <2>2
  <2>4. sum'[e] \in 0..((at'[e] - 1) * MaxScore(e)) BY <1>4, <1>5, <2>2, <2>3, SumGrows
  <2> QED BY <1>4, <1>5, <2>1, <2>4
<1>10. rows' \in SUBSET RowType
       /\ \A r \in rows' : r.score <= MaxScore(r.eval)' /\ \E c \in 1..(at'[r.eval] - 1) : r.case = ids'[c]
  <2> DEFINE new == [eval |-> e, case |-> ids[at[e]], score |-> v]
  <2>1. rows' \subseteq rows \union {new}
    BY <1>1 DEF Score, InsertEvalResult
  <2>2. new \in RowType /\ new.score <= MaxScore(new.eval)
    <3>1. v \in Nat /\ v <= MaxScore(e) BY <1>5
    <3>2. ids[at[e]] \in 1..NCases BY <1>2, <1>4
    <3> QED BY <3>1, <3>2 DEF RowType
  <2>3. new.case = ids[at[e]] /\ new.eval = e /\ at[e] \in 1..(at'[e] - 1) BY <1>2, <1>3, <1>4
  <2>4. ASSUME NEW r \in rows
        PROVE  r.eval \in Evals /\ r.score <= MaxScore(r.eval) /\ \E c \in 1..(at'[r.eval] - 1) : r.case = ids[c]
    <3>1. r \in RowType BY <1>4
    <3>2. PICK c \in 1..(at[r.eval] - 1) : r.case = ids[c] BY DEF EvalTypeOK
    <3>3. r.eval \in Evals BY <3>1 DEF RowType
    <3>4. at'[r.eval] \in Int /\ at'[r.eval] >= at[r.eval]
      <4>1. at' = [at EXCEPT ![e] = at[e] + 1] /\ at \in [Evals -> 1..(NCases + 1)] BY <1>3, <1>4
      <4>2. at'[r.eval] = IF r.eval = e THEN at[e] + 1 ELSE at[r.eval] BY <3>3, <4>1
      <4>3. at[r.eval] \in Int /\ at[e] \in Int BY <3>3, <4>1
      <4> QED BY <4>2, <4>3
    <3>5. c \in 1..(at'[r.eval] - 1) BY <1>4, <3>3, <3>4
    <3> QED BY <3>2, <3>3, <3>5 DEF EvalTypeOK
  <2> HIDE DEF new
  <2>5. \A r \in rows' : r.score <= MaxScore(r.eval) /\ r.eval \in Evals
                         /\ \E c \in 1..(at'[r.eval] - 1) : r.case = ids[c]
    BY <2>1, <2>2, <2>3, <2>4
  <2> QED BY <1>3, <1>4, <1>5, <2>1, <2>2, <2>5
<1>14. sum' \in [Evals -> Nat]
  <2>1. sum' = [sum EXCEPT ![e] = sum[e] + v] BY <1>3
  <2>2. sum[e] + v \in Nat BY <1>4, <1>5
  <2> QED BY <1>4, <2>1, <2>2
<1>11. unstored' \in SUBSET Evals BY <1>1, <1>4 DEF Score
<1>12. Counters' BY <1>3, <1>4 DEF Counters
<1>13. EvalTypeOK'
  BY <1>3, <1>6, <1>7, <1>8, <1>9, <1>10, <1>11, <1>14 DEF EvalTypeOK, RowType
<1> QED BY <1>12, <1>13

\* Every step keeps the types, and the sample counters at 0 where nothing is sampled.
LEMMA EvalTyped ==
  ASSUME EvalTypeOK, Counters, [EvalNext]_evalVars
  PROVE  (EvalTypeOK /\ Counters)'
<1> USE DEF EvalTypeOK, Counters, MaxScore, Full, Ran
<1>1. ASSUME NEW e \in Evals, Unsupported(e) \/ NoDataset(e) \/ GeneratorFails(e)
      PROVE  (EvalTypeOK /\ Counters)'
  BY <1>1 DEF Unsupported, NoDataset, GeneratorFails, Error
<1>2. ASSUME NEW e \in Evals, Start(e) PROVE (EvalTypeOK /\ Counters)'
  BY <1>2 DEF Start
<1>3. ASSUME NEW e \in Evals, Scores(e) PROVE (EvalTypeOK /\ Counters)'
  BY <1>3, ScoreTyped
<1>4. ASSUME NEW e \in Evals, NEW ok \in BOOLEAN, Sample(e, ok) PROVE (EvalTypeOK /\ Counters)'
  <2>1. /\ kind[e] = "code_passk" /\ sample[e] < Samples
        /\ sample' = [sample EXCEPT ![e] = sample[e] + 1]
        /\ correct' = [correct EXCEPT ![e] = IF ok THEN correct[e] + 1 ELSE correct[e]]
        /\ UNCHANGED <<ids, kind, mins, phase, at, sum, rows, runs, gate, unstored>>
    BY <1>4 DEF Sample, AtCase
  <2>2. sample[e] + 1 \in 0..Samples /\ (IF ok THEN correct[e] + 1 ELSE correct[e]) \in 0..Samples
    BY <2>1, Params
  <2>3. sample' \in [Evals -> 0..Samples] /\ correct' \in [Evals -> 0..Samples] BY <2>1, <2>2
  <2>4. \A d \in Evals : correct'[d] <= sample'[d] BY <2>1
  <2>5. Counters' BY <2>1
  <2> QED BY <2>1, <2>3, <2>4, <2>5
<1>5. ASSUME NEW e \in Evals, Finish(e) PROVE (EvalTypeOK /\ Counters)'
  <2>1. /\ phase' = [phase EXCEPT ![e] = "done"]
        /\ gate' = [gate EXCEPT ![e] = "threshold" \in FailOn /\ ~Passed(e)]
        /\ UNCHANGED <<ids, kind, mins, at, sample, correct, sum, rows>>
    BY <1>5 DEF Finish
  <2>2. unstored' \in SUBSET Evals BY <1>5 DEF Finish
  <2>3. runs' \in Seq(RunType)
    <3>1. [eval |-> e, sum |-> sum[e], passed |-> Passed(e)] \in RunType BY DEF RunType, Passed
    <3>2. runs \in Seq(RunType) BY DEF RunType
    <3> HIDE DEF EvalTypeOK
    <3> QED BY <1>5, <3>1, <3>2 DEF Finish
  <2>4. gate' \in [Evals -> BOOLEAN] BY <2>1
  <2>5. phase' \in [Evals -> {"idle", "case", "error", "lost"} \union Ran] BY <2>1
  <2> QED BY <2>1, <2>2, <2>3, <2>4, <2>5 DEF RunType
<1>6. CASE Crash BY <1>6 DEF Crash
<1>7. CASE UNCHANGED evalVars BY <1>7 DEF evalVars
<1>8. ASSUME NEW e \in Evals, Answer(e) \/ AnswerLost(e) PROVE (EvalTypeOK /\ Counters)'
  BY <1>8 DEF Answer, AnswerLost
<1> QED BY <1>1, <1>2, <1>3, <1>4, <1>5, <1>6, <1>7, <1>8 DEF EvalNext, Scores

\* They hold when the daemon has just started.
LEMMA EvalTypeInit == EvalInit => EvalTypeOK /\ Counters
<1> SUFFICES ASSUME EvalInit PROVE EvalTypeOK /\ Counters OBVIOUS
<1>1. /\ ids \in [1..NCases -> 1..NCases]
      /\ kind \in [Evals -> Kinds] /\ mins \in [Evals -> SUBSET Thresholds]
  <2>1. PICK suite \in [Evals -> Suites] :
          /\ kind = [e \in Evals |-> suite[e].kind] /\ mins = [e \in Evals |-> suite[e].mins]
    BY DEF EvalInit
  <2>2. \A e \in Evals : suite[e].kind \in Kinds /\ suite[e].mins \in SUBSET Thresholds
    BY EvalAssumption
  <2> QED BY <2>1, <2>2 DEF EvalInit
<1>2. 1 \in 1..(NCases + 1) /\ 0 \in 0..Samples BY EvalAssumption, Params
<1>3. \A e \in Evals : 0 \in 0..((1 - 1) * MaxScore(e)) BY Params
<1>4. runs \in Seq([eval : Evals, sum : Nat, passed : BOOLEAN])
  <2>1. <<>> \in Seq([eval : Evals, sum : Nat, passed : BOOLEAN]) OBVIOUS
  <2> QED BY <2>1 DEF EvalInit
<1> QED BY <1>1, <1>2, <1>3, <1>4 DEF EvalInit, EvalTypeOK, Counters

\* Every variable of an eval run keeps its type, a score stays within what its case can
\* give and the metric within what the cases so far can.
THEOREM EvalTypeCorrect == EvalSpec => []EvalTypeOK
<1>1. EvalTypeOK /\ Counters /\ [EvalNext]_evalVars => (EvalTypeOK /\ Counters)' BY EvalTyped
<1> QED BY <1>1, EvalTypeInit, PTL DEF EvalSpec

\* passAtK is the unbiased estimator: for every number of samples and of correct ones,
\* the share of the k-subsets that hold a correct one.
THEOREM EvalPassAtKIsEstimator == EvalSpec => []PassAtKIsEstimator
<1>1. EvalTypeOK => PassAtKIsEstimator
  <2> SUFFICES ASSUME EvalTypeOK, NEW e \in Evals, NEW kk \in 1..sample[e]
               PROVE  LET nn == sample[e]  c == correct[e]
                          subsets == kSubset(kk, 1..nn)
                          hits    == {S \in subsets : S \intersect (1..c) # {}}
                      IN  passAtK(nn, c, kk) * Cardinality(subsets)
                            = Falling(nn, kk) * Cardinality(hits)
    BY DEF PassAtKIsEstimator
  <2>1. sample[e] \in Nat /\ correct[e] \in 0..sample[e] /\ kk \in Nat BY Params DEF EvalTypeOK
  <2> QED BY <2>1, PassAtKEstimates
<1> QED BY <1>1, EvalTypeCorrect, PTL

-----------------------------------------------------------------------------
(* The rows of a run, and what they tell of its metric.                      *)

\* The ids of the cases a run has scored.
Seen(e) == {ids[c] : c \in 1..(at[e] - 1)}

\* The key of eval_results.
Keyed == \A r, s \in rows : r.eval = s.eval /\ r.case = s.case => r = s

\* While no statement has failed there is a row for every id scored, and what the rows do
\* not tell of the metric is at most a full score for every case that shares its id.
Kept(e) ==
  e \notin unstored =>
    /\ \A x \in Seen(e) : \E r \in RowsOf(e) : r.case = x
    /\ sum[e] - Stored(e) \in 0..((at[e] - 1 - Cardinality(Seen(e))) * MaxScore(e))

\* A run that is done has scored every case, and its gate is that of its metric.
Ended ==
  \A e \in Evals : phase[e] \in Ran =>
    /\ at[e] = NCases + 1
    /\ gate[e] <=> "threshold" \in FailOn /\ ~Passed(e)

\* A row of eval_runs is the one of a run that is done.
Recorded ==
  /\ \A i, j \in 1..Len(runs) : runs[i].eval = runs[j].eval => i = j
  /\ \A i \in 1..Len(runs) : phase[runs[i].eval] \in Ran /\ runs[i].sum = sum[runs[i].eval]

\* The inductive invariant.
EvalInv == EvalTypeOK /\ Counters /\ Keyed /\ (\A e \in Evals : Kept(e)) /\ Ended /\ Recorded

\* No more ids than cases have been seen.
LEMMA SeenSize ==
  ASSUME EvalTypeOK, NEW e \in Evals
  PROVE  /\ IsFiniteSet(Seen(e)) /\ Cardinality(Seen(e)) \in 0..(at[e] - 1)
         /\ Seen(e) \subseteq 1..NCases
<1>1. Seen(e) \in SUBSET (1..NCases)
  <2>1. at[e] \in 1..(NCases + 1) /\ ids \in [1..NCases -> 1..NCases] /\ NCases \in Nat
    BY EvalAssumption DEF EvalTypeOK
  <2>2. \A c \in 1..(at[e] - 1) : c \in 1..NCases BY <2>1
  <2> QED BY <2>1, <2>2 DEF Seen
<1>2. IsFiniteSet(1..NCases) BY EvalAssumption, FS_Interval
<1>3. Cardinality(Seen(e)) <= at[e] - 1
  <2> DEFINE f == [c \in 1..(at[e] - 1) |-> ids[c]]
  <2>1. f \in Surjection(1..(at[e] - 1), Seen(e)) BY DEF Surjection, Seen
  <2>2. at[e] - 1 \in Nat BY DEF EvalTypeOK
  <2> HIDE DEF f
  <2> QED BY <2>1, <2>2, FS_SurjCardinalityBound DEF ExistsSurjection
<1>4. at[e] - 1 \in Int BY DEF EvalTypeOK
<1>5. IsFiniteSet(Seen(e)) BY <1>1, <1>2, FS_Subset
<1>6. Cardinality(Seen(e)) \in Nat BY <1>5, FS_CardinalityType
<1> QED BY <1>1, <1>3, <1>4, <1>5, <1>6

\* The rows of a run, one per id at most.
LEMMA RowsSize ==
  ASSUME EvalTypeOK, Keyed, NEW e \in Evals
  PROVE  /\ Scored(RowsOf(e))
         /\ (\A x \in Seen(e) : \E r \in RowsOf(e) : r.case = x)
              => Cardinality(RowsOf(e)) = Cardinality(Seen(e))
<1> DEFINE R == RowsOf(e)  S == Seen(e)  f == [r \in R |-> r.case]
<1>1. IsFiniteSet(S) BY SeenSize
<1>2. f \in Injection(R, S)
  <2>1. \A r \in R : r.case \in S BY DEF EvalTypeOK, RowsOf, Seen
  <2>2. \A r, s \in R : r.case = s.case => r = s BY DEF Keyed, RowsOf
  <2> HIDE DEF R, S
  <2> QED BY <2>1, <2>2 DEF Injection, IsInjective
<1>3. IsFiniteSet(R) /\ (Cardinality(R) = Cardinality(S) <=> f \in Surjection(R, S))
  <2> HIDE DEF R, S, f
  <2> QED BY <1>1, <1>2, FS_Injection
<1>4. \A r \in R : r.score \in Int BY DEF EvalTypeOK, RowsOf
<1>5. (\A x \in S : \E r \in R : r.case = x) => f \in Surjection(R, S)
  <2> HIDE DEF R, S
  <2> QED BY <1>2 DEF Surjection, Injection
<1> QED BY <1>3, <1>4, <1>5 DEF Scored

\* A step that leaves the table, the metric and the place of a run alone.
LEMMA KeptElsewhere ==
  ASSUME NEW e \in Evals, Kept(e), RowsOf(e)' = RowsOf(e), at'[e] = at[e], sum'[e] = sum[e],
         ids' = ids, kind' = kind, unstored \subseteq unstored'
  PROVE  Kept(e)'
<1>1. Seen(e)' = Seen(e) BY DEF Seen
<1>2. Stored(e)' = Stored(e) BY DEF Stored
<1>3. MaxScore(e)' = MaxScore(e) BY DEF MaxScore, Full
<1> QED BY <1>1, <1>2, <1>3 DEF Kept

\* The row of a score is inserted, or takes the place of the one of an earlier case of its id.
LEMMA KeptScore ==
  ASSUME EvalTypeOK, Keyed, NEW e \in Evals, Kept(e), at[e] \in 1..NCases,
         NEW v \in 0..MaxScore(e), Score(e, v), e \notin unstored'
  PROVE  Kept(e)'
<1> DEFINE x == ids[at[e]]
           new == [eval |-> e, case |-> x, score |-> v]
           R == RowsOf(e)  Q == {r \in R : r.case # x}
           M == MaxScore(e)  d == at[e] - 1 - Cardinality(Seen(e))
<1>1. rows' = {r \in rows : ~(r.eval = e /\ r.case = x)} \union {new}
  BY DEF Score, InsertEvalResult
<1>2. /\ at'[e] = at[e] + 1 /\ sum'[e] = sum[e] + v /\ ids' = ids /\ kind' = kind
      /\ e \notin unstored
  BY DEF Score, EvalTypeOK
<1>3. Seen(e)' = Seen(e) \union {x}
  <2>1. 1..(at[e] + 1 - 1) = 1..(at[e] - 1) \union {at[e]} OBVIOUS
  <2> QED BY <1>2, <2>1 DEF Seen
<1>4. RowsOf(e)' = Q \union {new} BY <1>1 DEF RowsOf
<1>5. new \notin Q /\ v \in Int /\ M \in Nat BY Params
<1>6. /\ Scored(R) /\ IsFiniteSet(Seen(e)) /\ Cardinality(Seen(e)) \in Nat
      /\ sum[e] \in Nat /\ Stored(e) = Total(R) /\ Total(R) \in Int
  <2>1. Scored(R) /\ IsFiniteSet(Seen(e)) BY RowsSize, SeenSize
  <2>2. Total(R) \in Int
    <3> HIDE DEF R
    <3> QED BY <2>1, TotalAdd
  <2>3. Cardinality(Seen(e)) \in Nat BY <2>1, FS_CardinalityType
  <2>4. sum[e] \in Nat /\ Stored(e) = Total(R) BY DEF EvalTypeOK, Stored
  <2> QED BY <2>1, <2>2, <2>3, <2>4
<1>7. Scored(Q) /\ Total(Q) \in Int
  <2>1. Q \in SUBSET R OBVIOUS
  <2> HIDE DEF Q, R
  <2>2. Scored(Q) BY <1>6, <2>1, FS_Subset DEF Scored
  <2> QED BY <2>2, TotalAdd
<1>8. Stored(e)' = Total(Q) + v
  <2>1. Stored(e)' = Total(Q \union {new}) BY <1>4 DEF Stored
  <2>2. new.score = v OBVIOUS
  <2> HIDE DEF new, Q
  <2> QED BY <1>5, <1>7, <2>1, <2>2, TotalAdd
<1>9. /\ \A y \in Seen(e) : \E r \in R : r.case = y
      /\ sum[e] - Total(R) \in 0..(d * M)
  BY <1>2, <1>6 DEF Kept
<1>10. \A y \in Seen(e)' : \E r \in RowsOf(e)' : r.case = y
  <2>1. new.case = x OBVIOUS
  <2> HIDE DEF new, R
  <2> QED BY <1>3, <1>4, <1>9, <2>1
<1>11. MaxScore(e)' = M BY <1>2 DEF MaxScore, Full
<1>12. CASE x \notin Seen(e)
  <2>1. Q = R BY <1>12 DEF EvalTypeOK, RowsOf, Seen
  <2>2. Cardinality(Seen(e)') = Cardinality(Seen(e)) + 1
    <3> HIDE DEF x
    <3> QED BY <1>3, <1>6, <1>12, FS_AddElement
  <2>3. sum'[e] - Stored(e)' = sum[e] - Total(R)
    <3>1. Stored(e)' = Total(R) + v BY <1>8, <2>1
    <3> HIDE DEF R
    <3> QED BY <1>2, <1>5, <1>6, <3>1
  <2>4. at'[e] - 1 - Cardinality(Seen(e)') = d BY <1>2, <1>6, <2>2 DEF EvalTypeOK
  <2> HIDE DEF d, M
  <2> QED BY <1>9, <1>10, <1>11, <2>3, <2>4 DEF Kept
<1>13. CASE x \in Seen(e)
  <2>1. PICK old \in R : old.case = x BY <1>9, <1>13
  <2>2. R = Q \union {old} /\ old \notin Q BY <2>1 DEF Keyed, RowsOf
  <2>3. old.score \in 0..M BY <2>1 DEF EvalTypeOK, RowsOf
  <2>4. Total(R) = Total(Q) + old.score
    <3> HIDE DEF Q, R
    <3>1. old.score \in Int BY <1>5, <2>3
    <3> QED BY <1>7, <2>2, <3>1, TotalAdd
  <2>5. Seen(e)' = Seen(e) BY <1>3, <1>13
  <2>6. sum'[e] - Stored(e)' = (sum[e] - Total(R)) + old.score
    <3> HIDE DEF Q, R
    <3> QED BY <1>2, <1>5, <1>6, <1>7, <1>8, <2>3, <2>4
  <2>7. at'[e] - 1 - Cardinality(Seen(e)') = d + 1 BY <1>2, <1>6, <2>5 DEF EvalTypeOK
  <2>8. d \in Nat BY SeenSize, <1>6
  <2> DEFINE s == sum[e] - Total(R)
  <2>9. s + old.score \in 0..((d + 1) * M)
    <3>1. s \in 0..(d * M) BY <1>9
    <3> HIDE DEF s, d, M
    <3> QED BY <1>5, <2>3, <2>8, <3>1, SumGrows
  <2> HIDE DEF d, M
  <2> QED BY <1>9, <1>10, <1>11, <2>6, <2>7, <2>9 DEF Kept
<1> QED BY <1>12, <1>13

\* No run has a row yet.
LEMMA EvalInvInit == EvalInit => EvalInv
<1> SUFFICES ASSUME EvalInit PROVE EvalInv OBVIOUS
<1>1. EvalTypeOK /\ Counters BY EvalTypeInit
<1>2. ASSUME NEW e \in Evals PROVE Kept(e)
  <2>1. Seen(e) = {} /\ RowsOf(e) = {} BY DEF EvalInit, Seen, RowsOf
  <2>2. Cardinality({}) = 0 /\ Total({}) = 0 BY FS_EmptySet, TotalAdd DEF Scored
  <2>3. at[e] = 1 /\ sum[e] = 0 /\ MaxScore(e) \in Nat BY Params DEF EvalInit
  <2> QED BY <2>1, <2>2, <2>3 DEF Kept, Stored
<1> QED BY <1>1, <1>2 DEF EvalInit, EvalInv, Keyed, Ended, Recorded, Ran

\* INSERT OR REPLACE leaves one row per key.
LEMMA KeyedNext ==
  ASSUME EvalTypeOK, Keyed, NEW e \in Evals, NEW v, Score(e, v)
  PROVE  Keyed'
BY DEF Score, InsertEvalResult, Keyed

\* The baselines, as a sequence of records.
LEMMA RunsTyped ==
  ASSUME EvalTypeOK
  PROVE  /\ runs \in Seq(RunType) /\ Len(runs) \in Nat
         /\ \A i \in 1..Len(runs) : runs[i] \in RunType /\ runs[i].eval \in Evals
<1>1. runs \in Seq(RunType) BY DEF EvalTypeOK, RunType
<1>2. \A i \in 1..Len(runs) : runs[i] \in RunType BY <1>1
<1>3. \A r \in RunType : r.eval \in Evals BY DEF RunType
<1> QED BY <1>1, <1>2, <1>3

\* A case is scored and its row inserted, or not.
LEMMA ScoreNext ==
  ASSUME EvalInv, NEW e \in Evals, Scores(e)
  PROVE  EvalInv'
<1>1. PICK v \in 0..MaxScore(e) : Score(e, v) BY Scoring DEF EvalInv
<1>2. phase[e] = "case" /\ at[e] \in 1..NCases BY Scoring DEF EvalInv
<1>3. /\ at' = [at EXCEPT ![e] = @ + 1] /\ sum' = [sum EXCEPT ![e] = @ + v]
      /\ UNCHANGED <<ids, kind, mins, phase, runs, gate>> /\ unstored \subseteq unstored'
  BY <1>1 DEF Score
<1>4. (EvalTypeOK /\ Counters)' /\ Keyed' BY <1>1, ScoreTyped, KeyedNext DEF EvalInv
<1>5. ASSUME NEW d \in Evals PROVE Kept(d)'
  <2>1. CASE d = e
    <3>1. CASE e \in unstored' BY <2>1, <3>1 DEF Kept
    <3>2. CASE e \notin unstored' BY <1>1, <1>2, <2>1, <3>2, KeptScore DEF EvalInv
    <3> QED BY <3>1, <3>2
  <2>2. CASE d # e
    <3>1. RowsOf(d)' = RowsOf(d) BY <1>1, <2>2 DEF Score, InsertEvalResult, RowsOf
    <3>2. at'[d] = at[d] /\ sum'[d] = sum[d] BY <1>3, <2>2 DEF EvalInv, EvalTypeOK
    <3> QED BY <1>3, <3>1, <3>2, KeptElsewhere DEF EvalInv
  <2> QED BY <2>1, <2>2
<1>6. \A d \in Evals : phase[d] \in Ran => d # e /\ at'[d] = at[d] /\ sum'[d] = sum[d]
  BY <1>2, <1>3 DEF EvalInv, EvalTypeOK, Ran
<1>7. Ended' BY <1>3, <1>6 DEF EvalInv, Ended, Passed, Full
<1>8. Recorded'
  <2>1. \A i \in 1..Len(runs) : runs[i].eval \in Evals BY RunsTyped DEF EvalInv
  <2> QED BY <1>3, <1>6, <2>1 DEF EvalInv, Recorded
<1> QED BY <1>4, <1>5, <1>7, <1>8 DEF EvalInv

\* A run ends: its row is appended, or not, and its gate set.
LEMMA FinishNext ==
  ASSUME EvalInv, EvalTypeOK', Counters', NEW e \in Evals, Finish(e)
  PROVE  EvalInv'
<1>1. /\ phase[e] = "case" /\ at[e] = NCases + 1
      /\ phase' = [phase EXCEPT ![e] = "done"]
      /\ gate' = [gate EXCEPT ![e] = "threshold" \in FailOn /\ ~Passed(e)]
      /\ UNCHANGED <<ids, kind, mins, at, sum, rows>> /\ unstored \subseteq unstored'
  <2>1. at[e] \in 1..(NCases + 1) BY DEF EvalInv, EvalTypeOK
  <2>2. phase[e] = "case" /\ at[e] > NCases /\ unstored \subseteq unstored' BY DEF Finish
  <2>3. at[e] = NCases + 1 BY <2>1, <2>2, EvalAssumption
  <2> QED BY <2>2, <2>3 DEF Finish
<1>2. Keyed' BY <1>1 DEF EvalInv, Keyed
<1>3. \A d \in Evals : Kept(d)'
  <2>1. \A d \in Evals : RowsOf(d)' = RowsOf(d) BY <1>1 DEF RowsOf
  <2> QED BY <1>1, <2>1, KeptElsewhere DEF EvalInv
<1>4. \A d \in Evals : Passed(d)' = Passed(d) BY <1>1 DEF Passed, Full
<1>5. Ended'
  <2>1. gate \in [Evals -> BOOLEAN] /\ phase \in [Evals -> {"idle", "case", "error", "lost"} \union Ran]
    BY DEF EvalInv, EvalTypeOK
  <2>2. \A d \in Evals : d # e => gate'[d] = gate[d] /\ phase'[d] = phase[d] BY <1>1, <2>1
  <2>3. gate'[e] = ("threshold" \in FailOn /\ ~Passed(e)) BY <1>1, <2>1
  <2> QED BY <1>1, <1>4, <2>2, <2>3 DEF EvalInv, Ended
<1>6. Recorded'
  <2>0. runs \in Seq(RunType) /\ Len(runs) \in Nat
        /\ phase \in [Evals -> {"idle", "case", "error", "lost"} \union Ran]
    BY RunsTyped DEF EvalInv, EvalTypeOK
  <2>1. \A i \in 1..Len(runs) : runs[i].eval \in Evals /\ runs[i].eval # e
    BY <1>1, RunsTyped DEF EvalInv, Recorded, Ran
  <2>2. CASE UNCHANGED runs BY <1>1, <2>0, <2>1, <2>2 DEF EvalInv, Recorded
  <2>3. CASE runs' = Append(runs, [eval |-> e, sum |-> sum[e], passed |-> Passed(e)])
    <3>1. /\ Len(runs') = Len(runs) + 1
          /\ \A i \in 1..Len(runs) : runs'[i] = runs[i]
          /\ runs'[Len(runs) + 1].eval = e /\ runs'[Len(runs) + 1].sum = sum[e]
      BY <2>0, <2>3
    <3>2. \A i \in 1..Len(runs') : i \in 1..Len(runs) \/ i = Len(runs) + 1 BY <2>0, <3>1
    <3>3. \A i \in 1..Len(runs) : phase'[runs[i].eval] = phase[runs[i].eval] BY <1>1, <2>0, <2>1
    <3>4. phase'[e] \in Ran BY <1>1, <2>0 DEF Ran
    <3> QED BY <1>1, <2>1, <3>1, <3>2, <3>3, <3>4 DEF EvalInv, Recorded
  <2> QED BY <2>2, <2>3 DEF Finish
<1> QED BY <1>2, <1>3, <1>5, <1>6 DEF EvalInv

\* A step that touches no table and no metric, and ends no run.
LEMMA QuietNext ==
  ASSUME EvalInv, EvalTypeOK', Counters', UNCHANGED <<ids, kind, mins, at, sum, rows, runs, gate, unstored>>,
         \A e \in Evals : phase'[e] \in Ran <=> phase[e] \in Ran
  PROVE  EvalInv'
<1>1. Keyed' BY DEF EvalInv, Keyed
<1>2. \A d \in Evals : Kept(d)'
  <2>1. \A d \in Evals : RowsOf(d)' = RowsOf(d) BY DEF RowsOf
  <2> QED BY <2>1, KeptElsewhere DEF EvalInv
<1>3. Ended' BY DEF EvalInv, Ended, Passed, Full
<1>4. Recorded'
  <2>1. \A i \in 1..Len(runs) : runs[i].eval \in Evals BY RunsTyped DEF EvalInv
  <2> QED BY <2>1 DEF EvalInv, Recorded
<1> QED BY <1>1, <1>2, <1>3, <1>4 DEF EvalInv

\* Every step keeps the invariant.
LEMMA EvalInvNext ==
  ASSUME EvalInv, [EvalNext]_evalVars
  PROVE  EvalInv'
<1>0. EvalTypeOK' /\ Counters' BY EvalTyped DEF EvalInv
<1>1. phase \in [Evals -> {"idle", "case", "error", "lost"} \union Ran] BY DEF EvalInv, EvalTypeOK
<1>2. ASSUME NEW e \in Evals, Unsupported(e) \/ NoDataset(e) \/ GeneratorFails(e) \/ Start(e)
      PROVE  EvalInv'
  <2>1. /\ phase[e] \notin Ran /\ \E p \in {"error", "case"} : phase' = [phase EXCEPT ![e] = p]
        /\ UNCHANGED <<ids, kind, mins, at, sum, rows, runs, gate, unstored>>
    BY <1>2 DEF Unsupported, NoDataset, GeneratorFails, Start, Error, AtCase, Ran
  <2>2. \A d \in Evals : phase'[d] \in Ran <=> phase[d] \in Ran BY <1>1, <2>1 DEF Ran
  <2> QED BY <1>0, <2>1, <2>2, QuietNext
<1>3. ASSUME NEW e \in Evals, Scores(e) PROVE EvalInv' BY <1>3, ScoreNext
<1>4. ASSUME NEW e \in Evals, NEW ok \in BOOLEAN, Sample(e, ok) PROVE EvalInv'
  BY <1>0, <1>4, QuietNext DEF Sample
<1>5. ASSUME NEW e \in Evals, Finish(e) PROVE EvalInv' BY <1>0, <1>5, FinishNext
<1>6. CASE Crash
  <2>1. UNCHANGED <<ids, kind, mins, at, sum, rows, runs, gate, unstored>> BY <1>6 DEF Crash
  <2>2. \A d \in Evals : phase'[d] \in Ran <=> phase[d] \in Ran BY <1>6 DEF Crash, Ran
  <2> QED BY <1>0, <2>1, <2>2, QuietNext
<1>7. CASE UNCHANGED evalVars BY <1>0, <1>7, QuietNext DEF evalVars
<1>8. ASSUME NEW e \in Evals, Answer(e) \/ AnswerLost(e) PROVE EvalInv'
  <2>1. /\ phase[e] \in Ran /\ \E p \in Ran : phase' = [phase EXCEPT ![e] = p]
        /\ UNCHANGED <<ids, kind, mins, at, sum, rows, runs, gate, unstored>>
    BY <1>8 DEF Answer, AnswerLost, Ran
  <2>2. \A d \in Evals : phase'[d] \in Ran <=> phase[d] \in Ran BY <1>1, <2>1
  <2> QED BY <1>0, <2>1, <2>2, QuietNext
<1> QED BY <1>2, <1>3, <1>4, <1>5, <1>6, <1>7, <1>8 DEF EvalNext, Scores

\* So it holds throughout.
LEMMA EvalInvariant == EvalSpec => []EvalInv
BY EvalInvInit, EvalInvNext, PTL DEF EvalSpec

\* All the ids have been seen at the end.
LEMMA SeenAll ==
  ASSUME EvalTypeOK, NEW e \in Evals, at[e] = NCases + 1
  PROVE  Seen(e) = Range(ids)
<1>1. at[e] - 1 = NCases /\ DOMAIN ids = 1..NCases BY EvalAssumption DEF EvalTypeOK
<1> QED BY <1>1 DEF Seen, Range

\* A baseline is a run that is done, recorded once, and its metric follows from its rows but
\* for what the cases that share an id have overwritten.
THEOREM EvalRowsExplainRun == EvalSpec => []RowsExplainRun
<1>1. EvalInv => RowsExplainRun
  <2> SUFFICES ASSUME EvalInv PROVE RowsExplainRun OBVIOUS
  <2>1. ASSUME NEW i \in 1..Len(runs), runs[i].eval \notin unstored
        PROVE  LET e == runs[i].eval IN
               /\ Cardinality(RowsOf(e)) = Cardinality(Range(ids))
               /\ runs[i].sum - Stored(e)
                    \in 0..((NCases - Cardinality(Range(ids))) * MaxScore(e))
    <3> DEFINE e == runs[i].eval
    <3>1. e \in Evals BY RunsTyped DEF EvalInv
    <3>2. phase[e] \in Ran /\ runs[i].sum = sum[e] BY DEF EvalInv, Recorded
    <3>3. at[e] = NCases + 1 /\ at[e] - 1 = NCases BY <3>1, <3>2, EvalAssumption DEF EvalInv, Ended
    <3>4. Seen(e) = Range(ids) BY <3>1, <3>3, SeenAll DEF EvalInv
    <3>5. Kept(e) BY <3>1 DEF EvalInv
    <3>6. Cardinality(RowsOf(e)) = Cardinality(Seen(e))
      BY <2>1, <3>1, <3>5, RowsSize DEF EvalInv, Kept
    <3> QED BY <2>1, <3>2, <3>3, <3>4, <3>5, <3>6 DEF Kept
  <2> QED BY <2>1 DEF EvalInv, Recorded, RowsExplainRun
<1> QED BY <1>1, EvalInvariant, PTL

\* Distinct ids are as many as the cases.
LEMMA DistinctSize ==
  ASSUME EvalTypeOK, DistinctIds
  PROVE  Cardinality(Range(ids)) = NCases
<1>1. ids \in Bijection(1..NCases, Range(ids))
  <2>1. DOMAIN ids = 1..NCases /\ ids = [c \in 1..NCases |-> ids[c]] BY DEF EvalTypeOK
  <2>2. \A c \in 1..NCases : ids[c] \in Range(ids) BY <2>1 DEF Range
  <2>3. ids \in [1..NCases -> Range(ids)] BY <2>1, <2>2
  <2>4. \A c, d \in 1..NCases : ids[c] = ids[d] => c = d BY <2>1 DEF DistinctIds, IsInjective
  <2>5. \A v \in Range(ids) : \E c \in 1..NCases : ids[c] = v BY <2>1 DEF Range
  <2> QED BY <2>3, <2>4, <2>5 DEF Bijection, Injection, Surjection, IsInjective
<1>2. IsFiniteSet(1..NCases) /\ Cardinality(1..NCases) = NCases BY EvalAssumption, FS_Interval
<1> QED BY <1>1, <1>2, FS_Bijection DEF ExistsBijection

\* Then the rows of a finished run are one per case, and add up to its metric.
LEMMA DistinctRows ==
  ASSUME EvalInv, DistinctIds, NEW e \in Evals, e \notin unstored, phase[e] \in Ran
  PROVE  Cardinality(RowsOf(e)) = NCases /\ IsFiniteSet(RowsOf(e)) /\ sum[e] = Stored(e)
<1>1. at[e] = NCases + 1 BY DEF EvalInv, Ended
<1>2. Seen(e) = Range(ids) /\ at[e] - 1 = NCases BY <1>1, SeenAll, EvalAssumption DEF EvalInv
<1>3. Cardinality(Range(ids)) = NCases BY DistinctSize DEF EvalInv
<1>4. Kept(e) BY DEF EvalInv
<1>5. sum[e] = Stored(e)
  <2>1. sum[e] - Stored(e) \in 0..(0 * MaxScore(e)) BY <1>2, <1>3, <1>4, EvalAssumption DEF Kept
  <2>2. sum[e] \in Nat BY DEF EvalInv, EvalTypeOK
  <2>3. Stored(e) \in Int BY RowsSize, TotalAdd DEF EvalInv, Stored
  <2>4. MaxScore(e) \in Nat BY Params
  <2> QED BY <2>1, <2>2, <2>3, <2>4
<1> QED BY <1>2, <1>3, <1>4, <1>5, RowsSize DEF EvalInv, Kept, Scored

\* With distinct ids a recorded run has a row for every case ("per-case results"), and its
\* metric is exactly their total: what RowPerCase and RowsExplainRun miss is due to
\* repeated ids only.
THEOREM EvalDistinctIdsExact ==
  EvalSpec => [](DistinctIds => \A i \in 1..Len(runs) :
                   LET e == runs[i].eval IN
                   e \notin unstored =>
                     Cardinality(RowsOf(e)) = NCases /\ runs[i].sum = Stored(e))
<1>1. ASSUME EvalInv, DistinctIds, NEW i \in 1..Len(runs), runs[i].eval \notin unstored
      PROVE  Cardinality(RowsOf(runs[i].eval)) = NCases /\ runs[i].sum = Stored(runs[i].eval)
  <2>1. runs[i].eval \in Evals BY <1>1, RunsTyped DEF EvalInv
  <2>2. phase[runs[i].eval] \in Ran /\ runs[i].sum = sum[runs[i].eval]
    BY <1>1 DEF EvalInv, Recorded
  <2> QED BY <1>1, <2>1, <2>2, DistinctRows
<1>2. EvalInv => (DistinctIds => \A i \in 1..Len(runs) :
                   LET e == runs[i].eval IN
                   e \notin unstored =>
                     Cardinality(RowsOf(e)) = NCases /\ runs[i].sum = Stored(e))
  BY <1>1
<1> QED BY <1>2, EvalInvariant, PTL

\* faraday eval run exits with 0 exactly when its client got the answer of a run whose
\* stored results reach every threshold of its suite.
THEOREM EvalGateFollowsRows == EvalSpec => []GateFollowsRows
<1>1. EvalInv => GateFollowsRows
  <2> SUFFICES ASSUME EvalInv, DistinctIds, NEW e \in Evals, e \notin unstored,
                      phase[e] \in {"told", "unheard", "error", "lost"}
               PROVE  ExitCode(e) = 0 <=>
                        /\ phase[e] = "told"
                        /\ "threshold" \in FailOn =>
                             \A t \in mins[e] :
                               /\ t.metric = "score" /\ RowsOf(e) # {}
                               /\ Stored(e) * t.den >= t.num * NCases * Full(kind[e])
    BY DEF GateFollowsRows
  <2>1. CASE phase[e] # "told" BY <2>1 DEF ExitCode
  <2>2. CASE phase[e] = "told"
    <3>1. gate[e] <=> "threshold" \in FailOn /\ ~Passed(e) BY <2>2 DEF EvalInv, Ended, Ran
    <3>2. Cardinality(RowsOf(e)) = NCases /\ IsFiniteSet(RowsOf(e)) /\ sum[e] = Stored(e)
      BY <2>2, DistinctRows DEF Ran
    <3>3. RowsOf(e) # {} <=> NCases > 0 BY <3>2, FS_EmptySet, EvalAssumption
    <3> QED BY <2>2, <3>1, <3>2, <3>3 DEF ExitCode, Passed
  <2> QED BY <2>1, <2>2
<1> QED BY <1>1, EvalInvariant, PTL

=============================================================================
