-------------------------------- MODULE EvalRun --------------------------------
(***************************************************************************)
(* Eval runs: RunSuite of internal/eval/runner.go with the three kinds of  *)
(* suite, the tables eval_results and eval_runs of internal/store, and the *)
(* CI gate of EvalRun in internal/core/engine.go, for concurrent requests. *)
(*                                                                         *)
(* Scores are exact: a case of a code_passk suite scores a number of       *)
(* Full-ths, Full = n(n-1)...(n-k+1), where the code has a float.          *)
(***************************************************************************)
EXTENDS Integers, Sequences, FiniteSetsExt, Functions

CONSTANTS Evals,       \* requests POST /api/eval/run
          NCases,      \* cases in the dataset
          SuiteChecks, \* checks of a deterministic suite, for cases without their own
          K, NSamples, \* k and n_samples of a suite
          Suites,      \* the suites configured: [kind, mins]; they share all of the above
          FailOn       \* ci.fail_on

\* Config.Validate takes these kinds.
Kinds == {"code_passk", "deterministic", "judge", "regression"}

\* A threshold num / den per case, on the metric its kind of suite gives or on one that
\* it does not give (a misspelt name, pass@5 where k is 2): Validate takes both.
Thresholds == [metric : {"score", "absent"}, num : Nat, den : Nat \ {0}]

ASSUME EvalAssumption ==
  /\ NCases \in Nat /\ K \in Int /\ NSamples \in Int
  /\ Suites \subseteq [kind : Kinds, mins : SUBSET Thresholds]
  /\ FailOn \subseteq {"threshold", "regression"}

\* The counts k and n of a code_passk suite, after their defaults.
Draws == IF K <= 0 THEN 1 ELSE K
Samples == IF NSamples < Draws THEN Draws ELSE NSamples

-----------------------------------------------------------------------------
(* passAtK, times Falling(nn, kk).                                          *)

\* nn (nn - 1) ... (nn - kk + 1)
Falling(nn, kk) ==
  LET f[i \in 0..kk] == IF i = 0 THEN 1 ELSE f[i - 1] * (nn - i + 1) IN f[kk]

\* Deliberate error used as a mutant: the early return is off by one.
passAtK_OffByOne(nn, c, kk) ==
  IF nn - c <= kk THEN Falling(nn, kk) ELSE Falling(nn, kk) - Falling(nn - c, kk)

passAtK(nn, c, kk) ==
  IF nn - c < kk THEN Falling(nn, kk) ELSE Falling(nn, kk) - Falling(nn - c, kk)

\* What scores of a suite are counted in.
Full(q) == IF q = "code_passk" THEN Falling(Samples, Draws) ELSE 1

-----------------------------------------------------------------------------
(* The scores of the other two kinds.                                       *)

\* What code_exec gives: an error of the tool, or a result.
Outs == [err : BOOLEAN, exit : {0, 1}, stderr : {"blank", "text"},
         stdout : {"expected", "other"}]

\* evalChecks; a check of no known form falls through the switch and passes.
evalChecks(out, checks) ==
  /\ ~out.err
  /\ "exit_zero" \in checks => out.exit = 0
  /\ "no_stderr" \in checks => out.stderr = "blank"
  /\ {"contains:", "regex:"} \intersect checks # {} => out.stdout = "expected"
  /\ "regex:(" \notin checks  \* does not compile

\* Sets of checks in a dataset and a configuration.
CheckSets == {{}, {"exit_zero"}, {"no_stderr", "contains:"}, {"regex:"}, {"regex:("},
              {"exit_code"}}

\* The digits of the judge's answer, none if its model failed.
Replies == {<<>>, <<0>>, <<4>>, <<1, 0>>, <<7, 5>>}

\* judgeScore: the first digit from 1 to 5.
judgeScore(reply) ==
  LET digits == {i \in DOMAIN reply : reply[i] \in 1..5}
  IN  IF digits = {} THEN 0 ELSE reply[Min(digits)]

-----------------------------------------------------------------------------

VARIABLES
  ids,       \* the id of each case of the dataset; nothing makes them different
  kind, mins,  \* per request: the kind and the thresholds of the suite it asks for
  phase,     \* per request: "idle", "case", "error", "lost" (the daemon died), "done",
             \* then "told" or "unheard", as its client gets the answer or does not
  at,        \* per request: the case it is at
  sample, correct,  \* per request: the counters of the sample loop
  sum,       \* per request: score so far
  rows,      \* table eval_results, keyed by request and case id: [eval, case, score]
  runs,      \* table eval_runs in the order of its INSERTs: [eval, sum, passed]
  gate,      \* per request: GateFailed of the answer
  unstored   \* history: requests for which an INSERT failed (the error is dropped)

evalVars ==
  <<ids, kind, mins, phase, at, sample, correct, sum, rows, runs, gate, unstored>>

EvalInit ==
  /\ ids \in {f \in [1..NCases -> 1..NCases] : \A c \in 1..NCases : f[c] <= c}
  /\ \E suite \in [Evals -> Suites] :
       /\ kind = [e \in Evals |-> suite[e].kind]
       /\ mins = [e \in Evals |-> suite[e].mins]
  /\ phase = [e \in Evals |-> "idle"]
  /\ at = [e \in Evals |-> 1]
  /\ sample = [e \in Evals |-> 0] /\ correct = [e \in Evals |-> 0]
  /\ sum = [e \in Evals |-> 0]
  /\ rows = {} /\ runs = <<>>
  /\ gate = [e \in Evals |-> FALSE]
  /\ unstored = {}

\* RunSuite returns an error, which ends the request.
Error(e) ==
  /\ phase' = [phase EXCEPT ![e] = "error"]
  /\ UNCHANGED <<ids, kind, mins, at, sample, correct, sum, rows, runs, gate, unstored>>

\* RunSuite switches on the kind; "regression" is not among its cases.
Unsupported(e) ==
  /\ phase[e] = "idle" /\ kind[e] \notin {"code_passk", "deterministic", "judge"}
  /\ Error(e)

\* No suite has the name asked for, or LoadDataset fails.
NoDataset(e) ==
  /\ phase[e] = "idle"
  /\ Error(e)

Start(e) ==
  /\ phase[e] = "idle" /\ kind[e] \in {"code_passk", "deterministic", "judge"}
  /\ phase' = [phase EXCEPT ![e] = "case"]
  /\ UNCHANGED <<ids, kind, mins, at, sample, correct, sum, rows, runs, gate, unstored>>

AtCase(e, q) == phase[e] = "case" /\ at[e] <= NCases /\ kind[e] = q

\* The generator fails: the whole run is given up.
GeneratorFails(e) ==
  /\ \/ AtCase(e, "code_passk") /\ sample[e] < Samples
     \/ AtCase(e, "judge")
  /\ Error(e)

\* One sample is generated and tested; an error of the tool counts as a failure.
Sample(e, passed) ==
  /\ AtCase(e, "code_passk") /\ sample[e] < Samples
  /\ sample' = [sample EXCEPT ![e] = @ + 1]
  /\ correct' = [correct EXCEPT ![e] = IF passed THEN @ + 1 ELSE @]
  /\ UNCHANGED <<ids, kind, mins, phase, at, sum, rows, runs, gate, unstored>>

\* Deliberate error used as a mutant: a score that is not positive leaves no row.
InsertEvalResult_SkipZero(e, v) ==
  rows' = IF v = 0 THEN rows ELSE rows \union {[eval |-> e, case |-> ids[at[e]], score |-> v]}

\* INSERT OR REPLACE INTO eval_results.
InsertEvalResult(e, v) ==
  rows' = {r \in rows : ~(r.eval = e /\ r.case = ids[at[e]])}
            \union {[eval |-> e, case |-> ids[at[e]], score |-> v]}

\* The score is added, the result row inserted (or not, if the statement fails),
\* and the loop goes on with fresh counters.
Score(e, v) ==
  /\ sum' = [sum EXCEPT ![e] = @ + v]
  /\ \/ InsertEvalResult(e, v) /\ UNCHANGED unstored
     \/ unstored' = unstored \union {e} /\ UNCHANGED rows
  /\ at' = [at EXCEPT ![e] = @ + 1]
  /\ sample' = [sample EXCEPT ![e] = 0]
  /\ UNCHANGED <<ids, kind, mins, phase, runs, gate>>

ScoreSamples(e) ==
  /\ AtCase(e, "code_passk") /\ sample[e] = Samples
  /\ Score(e, passAtK(Samples, correct[e], Draws))
  /\ correct' = [correct EXCEPT ![e] = 0]

\* The checks of the case, or those of the suite if it has none, on one run of its code.
Check(e, out, own) ==
  /\ AtCase(e, "deterministic")
  /\ Score(e, IF evalChecks(out, IF own = {} THEN SuiteChecks ELSE own) THEN 1 ELSE 0)
  /\ UNCHANGED correct

\* A failing judge scores 0, where a failing generator ends the run.
Judge(e, reply) ==
  /\ AtCase(e, "judge")
  /\ Score(e, judgeScore(reply))
  /\ UNCHANGED correct

\* Deliberate error used as a mutant: a score equal to the threshold fails.
Passed_Strict(e) ==
  \A t \in mins[e] :
    t.metric = "score" /\ NCases > 0 /\ sum[e] * t.den > t.num * NCases * Full(kind[e])

\* Every threshold of the suite: one on a metric that the run does not give fails, and
\* a run without cases gives none; a suite without thresholds passes.
Passed(e) ==
  \A t \in mins[e] :
    t.metric = "score" /\ NCases > 0 /\ sum[e] * t.den >= t.num * NCases * Full(kind[e])

\* The run row is inserted (its error is dropped too), then EvalRun sets the gate.
Finish(e) ==
  /\ phase[e] = "case" /\ at[e] > NCases
  /\ \/ runs' = Append(runs, [eval |-> e, sum |-> sum[e], passed |-> Passed(e)])
        /\ UNCHANGED unstored
     \/ unstored' = unstored \union {e} /\ UNCHANGED runs
  /\ gate' = [gate EXCEPT ![e] = "threshold" \in FailOn /\ ~Passed(e)]
  /\ phase' = [phase EXCEPT ![e] = "done"]
  /\ UNCHANGED <<ids, kind, mins, at, sample, correct, sum, rows>>

\* The client reads the answer.
Answer(e) ==
  /\ phase[e] = "done"
  /\ phase' = [phase EXCEPT ![e] = "told"]
  /\ UNCHANGED <<ids, kind, mins, at, sample, correct, sum, rows, runs, gate, unstored>>

\* The run is done, but its answer does not reach the client, which has timed out since
\* the request began or loses its connection.
AnswerLost(e) ==
  /\ phase[e] = "done"
  /\ phase' = [phase EXCEPT ![e] = "unheard"]
  /\ UNCHANGED <<ids, kind, mins, at, sample, correct, sum, rows, runs, gate, unstored>>

\* The daemon dies and is started again; the tables stay.
Crash ==
  /\ \E e \in Evals : phase[e] \in {"case", "done"}
  /\ phase' = [e \in Evals |-> IF phase[e] = "case" THEN "lost"
                              ELSE IF phase[e] = "done" THEN "unheard" ELSE phase[e]]
  /\ UNCHANGED <<ids, kind, mins, at, sample, correct, sum, rows, runs, gate, unstored>>

EvalNext ==
  \/ \E e \in Evals :
       \/ Unsupported(e) \/ NoDataset(e) \/ Start(e)
       \/ GeneratorFails(e) \/ ScoreSamples(e) \/ Finish(e)
       \/ Answer(e) \/ AnswerLost(e)
       \/ \E ok \in BOOLEAN : Sample(e, ok)
       \/ \E out \in Outs, own \in CheckSets : Check(e, out, own)
       \/ \E reply \in Replies : Judge(e, reply)
  \/ Crash

EvalSpec == EvalInit /\ [][EvalNext]_evalVars

-----------------------------------------------------------------------------
(* Properties.                                                              *)

\* RunSuite has returned without an error.
Ran == {"done", "told", "unheard"}

MaxScore(e) == IF kind[e] = "judge" THEN 5 ELSE Full(kind[e])

\* The variables hold values of their types; a score stays within what its case can give.
EvalTypeOK ==
  /\ ids \in [1..NCases -> 1..NCases]
  /\ kind \in [Evals -> Kinds] /\ mins \in [Evals -> SUBSET Thresholds]
  /\ phase \in [Evals -> {"idle", "case", "error", "lost"} \union Ran]
  /\ at \in [Evals -> 1..(NCases + 1)]
  /\ sample \in [Evals -> 0..Samples] /\ correct \in [Evals -> 0..Samples]
  /\ sum \in [Evals -> Nat]
  /\ \A e \in Evals : correct[e] <= sample[e] /\ sum[e] \in 0..((at[e] - 1) * MaxScore(e))
  /\ rows \in SUBSET [eval : Evals, case : 1..NCases, score : Nat]
  /\ \A r \in rows : r.score <= MaxScore(r.eval) /\ \E c \in 1..(at[r.eval] - 1) : r.case = ids[c]
  /\ runs \in Seq([eval : Evals, sum : Nat, passed : BOOLEAN])
  /\ gate \in [Evals -> BOOLEAN]
  /\ unstored \in SUBSET Evals

\* passAtK is the unbiased estimator, for whatever a sample loop has counted: the share
\* of the kk-subsets of the samples so far that hold a correct one ("1 - C(n-c,k)/C(n,k)").
PassAtKIsEstimator ==
  \A e \in Evals : \A kk \in 1..sample[e] :
    LET nn == sample[e]  c == correct[e]
        subsets == kSubset(kk, 1..nn)
        hits    == {S \in subsets : S \intersect (1..c) # {}}
    IN  passAtK(nn, c, kk) * Cardinality(subsets) = Falling(nn, kk) * Cardinality(hits)

RowsOf(e) == {r \in rows : r.eval = e}
Total(results) == MapThenSumSet(LAMBDA r : r.score, results)
Stored(e) == Total(RowsOf(e))

DistinctIds == IsInjective(ids)

\* A run recorded as a baseline is a completed one, recorded once (a request that
\* failed or died half-way leaves result rows, never a run row), and its metric can be
\* derived again from its rows: one per case, adding up to the metric ("reproducible,
\* recorded eval runs").  Cases that share an id leave one row for all of them, which
\* stands for no more than their part of the metric.
RowsExplainRun ==
  /\ \A i, j \in 1..Len(runs) : runs[i].eval = runs[j].eval => i = j
  /\ \A i \in 1..Len(runs) :
       LET e == runs[i].eval IN
       /\ phase[e] \in Ran
       /\ e \notin unstored =>
            /\ Cardinality(RowsOf(e)) = Cardinality(Range(ids))
            /\ runs[i].sum - Stored(e)
                 \in 0..((NCases - Cardinality(Range(ids))) * MaxScore(e))

\* What faraday eval run exits with: 0 only with an answer, and one whose gate is open.
ExitCode(e) == IF phase[e] = "told" /\ ~gate[e] THEN 0 ELSE 1

\* faraday eval run exits with 0 exactly when its client got the answer of a run that
\* ended and, with the threshold gate on, the stored results of a dataset with distinct
\* ids reach every threshold of the suite, none of which is on a metric it does not give.
GateFollowsRows ==
  \A e \in Evals :
    phase[e] \in {"told", "unheard", "error", "lost"} /\ e \notin unstored /\ DistinctIds =>
    (ExitCode(e) = 0 <=>
       /\ phase[e] = "told"
       /\ "threshold" \in FailOn =>
            \A t \in mins[e] :
              /\ t.metric = "score" /\ RowsOf(e) # {}
              /\ Stored(e) * t.den >= t.num * NCases * Full(kind[e]))

-----------------------------------------------------------------------------
(* Statements of the documentation that the code does not keep (README,     *)
(* "Divergences").  They are no part of what the runs check.                *)

\* LastEvalRun of the suite of kind q, before run i: 0 if there is none.
LastEvalRun(q, i) ==
  Max({j \in 1..(i - 1) : kind[runs[j].eval] = q} \union {0})

\* CheckRegression, which nothing calls: below the run before it by more than 0.001.
CheckRegression(i) ==
  LET j == LastEvalRun(kind[runs[i].eval], i) IN
  /\ j # 0
  /\ 1000 * (runs[j].sum - runs[i].sum) > NCases * Full(kind[runs[i].eval])

\* eval spec:55 "the run exits non-zero and reports the regression versus the
\* baseline" (contradicted with FailOn = {"regression"}: EvalRun never calls
\* CheckRegression, so a run below the one before it passes the gate).
RegressionGated ==
  "regression" \in FailOn =>
    \A i \in 1..Len(runs) : CheckRegression(i) => gate[runs[i].eval]

\* runner.go:54 "per-case results" (contradicted: cases of one id leave one row).
RowPerCase ==
  \A i \in 1..Len(runs) : runs[i].eval \notin unstored =>
    Cardinality(RowsOf(runs[i].eval)) = NCases

\* config.go:134 "code_passk | deterministic | judge | regression" (contradicted:
\* RunSuite refuses the last kind, which Validate accepts).
AcceptedKindRuns == \A e \in Evals : kind[e] = "regression" => phase[e] # "error"

=============================================================================
