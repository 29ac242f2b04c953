---------------------------- MODULE EvidenceBundle ----------------------------
(***************************************************************************)
(* Evidence bundles built while the daemon works: Build and Verify of      *)
(* internal/evidence, behind BuildEvidence of internal/core/engine.go, and *)
(* the eval runs (EvalRun) whose records a bundle collects.                *)
(*                                                                         *)
(* A bundle file is two parts written one after the other, each marked     *)
(* with the build it is of; it verifies when all of it is of one build.    *)
(***************************************************************************)
EXTENDS Integers, FiniteSets

CONSTANTS Builds,     \* requests POST /api/evidence/bundle
          Outs,       \* paths of bundles, in one directory: one evidence.key
          Evals,      \* eval runs
          NCases,     \* cases of each of them, of distinct ids: result rows it inserts
          Times,      \* readings of the wall clock, which may be set back; a bound
          MaxFlaws,   \* errors that are dropped, in all; a bound
          ListLimit,  \* what ListEvalRuns(0) returns at most; 100 in the code
          None

ASSUME EvidenceAssumption ==
  /\ {None, "empty"} \intersect Builds = {} /\ None # "empty" /\ None \notin Outs
  /\ Evals \intersect Builds = {}
  /\ NCases \in Nat /\ Times \subseteq Nat /\ MaxFlaws \in Nat
  /\ ListLimit \in Nat \ {0}

Parts == 1..2

VARIABLES
  ev,      \* per eval: "idle", "rows", "insert", "audit", "done", "dead"
  at,      \* per eval: cases it has scored
  rows,    \* per eval: its rows in eval_results
  started, \* per eval: its started_unix_nano
  runs,    \* table eval_runs: the evals with a row
  audited, \* evals and builds with an entry in audit_log
  pc,      \* per build: its next step
  out,     \* per build: the path it was asked to write
  list,    \* per build: the runs it listed
  got,     \* per build: the result rows it read, per run; -1 before
  audit,   \* per build: whose entries are in the audit log it read
  key,     \* per build: the key it signs with, named for the build that made it
  keyFile, \* evidence.key: None, "empty" or a key
  file,    \* per path: the two parts
  last,    \* history, per path: the last build that created it
  before,  \* history, per build: evals and builds answered when it was requested
  flaws,   \* history: builds an error of which was dropped, evals without their audit entry
  lostRows, lostRun, \* history: evals an INSERT of which failed, of a result or of the run
  rekeyed, \* history: a build made a key while another had one it had not saved, or
           \* over a key file that it could not read
  clashed  \* history: builds that had one path open at the same time

tables    == <<at, rows, started, runs, lostRows, lostRun>>
evalVars  == <<ev, tables, audited>>
buildVars == <<out, list, got, audit, key>>
fileVars  == <<keyFile, file, last, clashed>>
vars == <<evalVars, pc, buildVars, fileVars, before, flaws, rekeyed>>

Init ==
  /\ ev = [e \in Evals |-> "idle"] /\ at = [e \in Evals |-> 0]
  /\ rows = [e \in Evals |-> 0] /\ started = [e \in Evals |-> 0]
  /\ runs = {} /\ audited = {} /\ lostRows = {} /\ lostRun = {}
  /\ pc = [b \in Builds |-> "idle"] /\ out = [b \in Builds |-> None]
  /\ list = [b \in Builds |-> {}] /\ got = [b \in Builds |-> [e \in Evals |-> -1]]
  /\ audit = [b \in Builds |-> {}]
  /\ key = [b \in Builds |-> None] /\ keyFile = None
  /\ file = [o \in Outs |-> [i \in Parts |-> None]] /\ last = [o \in Outs |-> None]
  /\ before = [b \in Builds |-> {}] /\ flaws = {} /\ rekeyed = FALSE /\ clashed = {}

Goto(b, l) == pc' = [pc EXCEPT ![b] = l]

\* An error that the code drops may still happen.
MayFail == Cardinality(flaws) + Cardinality(lostRows) + Cardinality(lostRun) < MaxFlaws

-----------------------------------------------------------------------------
(* An eval run, as far as the store sees it; EvalRun has it in full.        *)

EvalGoto(e, l) ==
  /\ ev' = [ev EXCEPT ![e] = l]
  /\ UNCHANGED <<pc, buildVars, fileVars, before, rekeyed>>

\* A case is scored; the error of its INSERT is dropped.
InsertEvalResult(e) ==
  /\ ev[e] \in {"idle", "rows"} /\ at[e] < NCases /\ EvalGoto(e, "rows")
  /\ at' = [at EXCEPT ![e] = @ + 1]
  /\ \/ rows' = [rows EXCEPT ![e] = @ + 1] /\ UNCHANGED lostRows
     \/ MayFail /\ lostRows' = lostRows \union {e} /\ UNCHANGED rows
  /\ UNCHANGED <<started, runs, audited, flaws, lostRun>>

\* The time of the run is read before its row is inserted, so rows may be inserted in
\* another order than that of their times.
Stamp(e) ==
  /\ ev[e] \in {"idle", "rows"} /\ at[e] = NCases /\ EvalGoto(e, "insert")
  /\ \E t \in Times : started' = [started EXCEPT ![e] = t]
  /\ UNCHANGED <<at, rows, runs, audited, flaws, lostRows, lostRun>>

\* Deliberate error used as a mutant: the run row is inserted before its results.
InsertEvalRun_First(e) ==
  /\ ev[e] \in {"idle", "rows"} /\ e \notin runs /\ EvalGoto(e, "rows")
  /\ runs' = runs \union {e}
  /\ UNCHANGED <<at, rows, started, audited, flaws, lostRows, lostRun>>

\* Its error is dropped too: the eval is answered all the same.
InsertEvalRun(e) ==
  /\ ev[e] = "insert" /\ EvalGoto(e, "audit")
  /\ \/ runs' = runs \union {e} /\ UNCHANGED lostRun
     \/ MayFail /\ lostRun' = lostRun \union {e} /\ UNCHANGED runs
  /\ UNCHANGED <<at, rows, started, audited, flaws, lostRows>>

\* AppendAudit, whose error the engine drops.
AppendAudit(x) ==
  \/ audited' = audited \union {x} /\ UNCHANGED flaws
  \/ MayFail /\ flaws' = flaws \union {x} /\ UNCHANGED audited

\* The entry "eval.run", and the answer.
EvalAudit(e) ==
  ev[e] = "audit" /\ EvalGoto(e, "done") /\ AppendAudit(e) /\ UNCHANGED tables

-----------------------------------------------------------------------------
(* Build: collect.                                                          *)

Request(b, o) ==
  /\ pc[b] = "idle" /\ Goto(b, "list")
  /\ out' = [out EXCEPT ![b] = o]
  /\ before' = [before EXCEPT ![b] = {e \in Evals : ev[e] = "done"}
                                     \union {k \in Builds : pc[k] = "done"}]
  /\ UNCHANGED <<evalVars, list, got, audit, key, fileVars, flaws, rekeyed>>

\* Deliberate error used as a mutant: oldest first.
ListEvalRuns_Oldest(table) ==
  {l \in SUBSET table :
     /\ Cardinality(l) <= ListLimit /\ (l = table \/ Cardinality(l) = ListLimit)
     /\ \A e \in l, d \in table \ l : started[e] <= started[d]}

\* The newest ones by their times, ListLimit at most; those of one time in any order.
ListEvalRuns(table) ==
  {l \in SUBSET table :
     /\ Cardinality(l) <= ListLimit /\ (l = table \/ Cardinality(l) = ListLimit)
     /\ \A e \in l, d \in table \ l : started[e] >= started[d]}

\* The enterprise tier's Summary over a licensed store: the runs it counts.
Summary == {Cardinality(l) : l \in ListEvalRuns(runs)}

ListRuns(b) ==
  /\ pc[b] = "list" /\ Goto(b, "results")
  /\ \E l \in ListEvalRuns(runs) : list' = [list EXCEPT ![b] = l]
  /\ UNCHANGED <<evalVars, out, got, audit, key, fileVars, before, flaws, rekeyed>>

\* EvalResults of one run; an error leaves the run with no results.
ReadResults(b, e) ==
  /\ pc[b] = "results" /\ e \in list[b] /\ got[b][e] = -1
  /\ \/ got' = [got EXCEPT ![b][e] = rows[e]] /\ UNCHANGED flaws
     \/ MayFail /\ got' = [got EXCEPT ![b][e] = 0] /\ flaws' = flaws \union {b}
  /\ UNCHANGED <<evalVars, pc, out, list, audit, key, fileVars, before, rekeyed>>

\* AuditEntries, and VerifyAuditChain over the same table (AuditChain).
ReadAudit(b) ==
  /\ pc[b] = "results" /\ \A e \in list[b] : got[b][e] # -1
  /\ Goto(b, "key")
  /\ audit' = [audit EXCEPT ![b] = audited]
  /\ UNCHANGED <<evalVars, out, list, got, key, fileVars, before, flaws, rekeyed>>

-----------------------------------------------------------------------------
(* Build: loadOrCreateKey and the signature.                                *)

LoadKey(b) ==
  /\ pc[b] = "key" /\ keyFile \in Builds /\ Goto(b, "write")
  /\ key' = [key EXCEPT ![b] = keyFile]
  /\ UNCHANGED <<evalVars, out, list, got, audit, fileVars, before, flaws, rekeyed>>

\* A key of its own.
NewKey(b) ==
  /\ pc[b] = "key" /\ Goto(b, "save")
  /\ key' = [key EXCEPT ![b] = b]
  /\ UNCHANGED <<evalVars, out, list, got, audit, fileVars, before, flaws>>

SomeUnsaved == \E k \in Builds : pc[k] = "save"

\* Deliberate error used as a mutant: the file is not looked for.
GenerateKey_Always(b) == NewKey(b) /\ rekeyed' = (rekeyed \/ SomeUnsaved)

GenerateKey(b) == keyFile = None /\ NewKey(b) /\ rekeyed' = (rekeyed \/ SomeUnsaved)

\* Any other error of ReadFile is taken for a missing file, and a key that is there but
\* cannot be read will be replaced.
MisreadKey(b) == keyFile # None /\ NewKey(b) /\ rekeyed' = TRUE

\* os.WriteFile truncates the file, then writes it; its error is dropped.
SaveKey(b) ==
  /\ pc[b] = "save"
  /\ \/ keyFile' = "empty" /\ Goto(b, "saving") /\ UNCHANGED flaws
     \/ MayFail /\ Goto(b, "write") /\ flaws' = flaws \union {b} /\ UNCHANGED keyFile
  /\ UNCHANGED <<evalVars, buildVars, file, last, clashed, before, rekeyed>>

SavedKey(b) ==
  /\ pc[b] = "saving" /\ Goto(b, "write")
  /\ \/ keyFile' = key[b] /\ UNCHANGED flaws
     \/ MayFail /\ flaws' = flaws \union {b} /\ UNCHANGED keyFile
  /\ UNCHANGED <<evalVars, buildVars, file, last, clashed, before, rekeyed>>

-----------------------------------------------------------------------------
(* Build: writeTarZst, then the audit entry.                                *)

\* os.Create
CreateOut(b) ==
  /\ pc[b] = "write" /\ Goto(b, "part1")
  /\ file' = [file EXCEPT ![out[b]] = [i \in Parts |-> None]]
  /\ last' = [last EXCEPT ![out[b]] = b]
  /\ LET others == {k \in Builds : out[k] = out[b] /\ pc[k] \in {"part1", "part2"}}
     IN  clashed' = clashed \union others \union {x \in {b} : others # {}}
  /\ UNCHANGED <<evalVars, buildVars, keyFile, before, flaws, rekeyed>>

WritePart1(b) ==
  /\ pc[b] = "part1" /\ Goto(b, "part2")
  /\ file' = [file EXCEPT ![out[b]][1] = b]
  /\ UNCHANGED <<evalVars, buildVars, keyFile, last, clashed, before, flaws, rekeyed>>

\* Deliberate error used as a mutant: the end of the archive is never flushed.
WritePart2_Early(b) ==
  /\ pc[b] = "part2" /\ Goto(b, "audit")
  /\ UNCHANGED <<evalVars, buildVars, fileVars, before, flaws, rekeyed>>

\* The rest is written by the deferred Close calls, whose errors are dropped.
WritePart2(b) ==
  /\ pc[b] = "part2" /\ Goto(b, "audit")
  /\ \/ file' = [file EXCEPT ![out[b]][2] = b] /\ UNCHANGED flaws
     \/ MayFail /\ flaws' = flaws \union {b} /\ UNCHANGED file
  /\ UNCHANGED <<evalVars, buildVars, keyFile, last, clashed, before, rekeyed>>

\* The entry "evidence.bundle", and the answer.
BuildEvidence(b) ==
  /\ pc[b] = "audit" /\ Goto(b, "done") /\ AppendAudit(b)
  /\ UNCHANGED <<ev, tables, buildVars, fileVars, before, rekeyed>>

\* The locals of builds that end without a bundle.
Gone(S) ==
  /\ list' = [b \in Builds |-> IF b \in S THEN {} ELSE list[b]]
  /\ got' = [b \in Builds |-> IF b \in S THEN [e \in Evals |-> -1] ELSE got[b]]
  /\ audit' = [b \in Builds |-> IF b \in S THEN {} ELSE audit[b]]
  /\ key' = [b \in Builds |-> IF b \in S THEN None ELSE key[b]]
  /\ before' = [b \in Builds |-> IF b \in S THEN {} ELSE before[b]]

\* A query fails, the key file is there and is no key ("invalid evidence key"), or the
\* path cannot be created or written.
Error(b) ==
  /\ \/ pc[b] \in {"list", "results", "write", "part1"}
     \/ pc[b] = "key" /\ keyFile = "empty"
  /\ Goto(b, "error") /\ Gone({b})
  /\ UNCHANGED <<evalVars, out, fileVars, flaws, rekeyed>>

Alive == {b \in Builds : pc[b] \notin {"idle", "done", "error", "dead"}}
Evaluating == {e \in Evals : ev[e] \notin {"idle", "done", "dead"}}

\* The daemon dies and is started again.
Crash ==
  /\ Alive # {} \/ Evaluating # {}
  /\ pc' = [b \in Builds |-> IF b \in Alive THEN "dead" ELSE pc[b]]
  /\ ev' = [e \in Evals |-> IF e \in Evaluating THEN "dead" ELSE ev[e]]
  /\ Gone(Alive)
  /\ UNCHANGED <<tables, audited, out, fileVars, flaws, rekeyed>>

Next ==
  \/ \E e \in Evals : InsertEvalResult(e) \/ Stamp(e) \/ InsertEvalRun(e) \/ EvalAudit(e)
  \/ \E b \in Builds :
       \/ \E o \in Outs : Request(b, o)
       \/ \E e \in Evals : ReadResults(b, e)
       \/ ListRuns(b) \/ ReadAudit(b) \/ Error(b)
       \/ LoadKey(b) \/ GenerateKey(b) \/ MisreadKey(b) \/ SaveKey(b) \/ SavedKey(b)
       \/ CreateOut(b) \/ WritePart1(b) \/ WritePart2(b) \/ BuildEvidence(b)
  \/ Crash

Spec == Init /\ [][Next]_vars

-----------------------------------------------------------------------------
(* Properties.                                                              *)

Steps == {"idle", "list", "results", "key", "save", "saving", "write", "part1", "part2", "audit",
          "done", "error", "dead"}

TypeOK ==
  /\ ev \in [Evals -> {"idle", "rows", "insert", "audit", "done", "dead"}]
  /\ at \in [Evals -> 0..NCases] /\ rows \in [Evals -> 0..NCases]
  /\ \A e \in Evals : rows[e] <= at[e]
  /\ started \in [Evals -> Nat] /\ runs \subseteq Evals
  /\ lostRows \subseteq Evals /\ lostRun \subseteq Evals
  /\ audited \subseteq Evals \union Builds
  /\ pc \in [Builds -> Steps] /\ out \in [Builds -> Outs \union {None}]
  /\ list \in [Builds -> SUBSET Evals] /\ got \in [Builds -> [Evals -> -1..NCases]]
  /\ audit \in [Builds -> SUBSET (Evals \union Builds)]
  /\ key \in [Builds -> Builds \union {None}] /\ keyFile \in Builds \union {None, "empty"}
  /\ file \in [Outs -> [Parts -> Builds \union {None}]] /\ last \in [Outs -> Builds \union {None}]
  /\ before \in [Builds -> SUBSET (Evals \union Builds)]
  /\ flaws \subseteq Evals \union Builds /\ rekeyed \in BOOLEAN /\ clashed \subseteq Builds

Built(b) == pc[b] = "done" /\ b \notin flaws

\* Every run in a bundle's report has all its result rows, but those whose own INSERT
\* failed, though the tables are read one after the other while runs are recorded:
\* EvalRun inserts the results first.
ReportIsComplete ==
  \A b \in Builds : Built(b) => \A e \in list[b] \ lostRows : got[b][e] = NCases

\* Run e is listed, or the list is full of runs that are no older by their times.
ListedOrOld(e, l) ==
  \/ e \in l
  \/ Cardinality(l) = ListLimit /\ \A d \in l : started[d] >= started[e]

\* What was answered before a bundle was asked for is in it: bundles and eval runs in its
\* audit log unless their entry failed, and eval runs in its report unless their row
\* failed or ListEvalRuns (100 runs) has filled it with others that are no older.
BundleCoversHistory ==
  \A b \in Builds : Built(b) =>
    /\ before[b] \ flaws \subseteq audit[b]
    /\ \A e \in (before[b] \intersect Evals) \ lostRun : ListedOrOld(e, list[b])

\* Verify: the archive can be read, and every digest, the root digest and the
\* signature by the public key it carries agree.
Verify(o) == \E b \in Builds : \A i \in Parts : file[o][i] = b

\* A bundle whose build was answered, and that nobody began to replace, verifies
\* ("WHEN a freshly signed bundle is verified ... THEN verification succeeds"), unless
\* another build had the same path open at the same time (writeTarZst takes no lock).
FreshVerifies ==
  \A b \in Builds : Built(b) /\ last[out[b]] = b /\ b \notin clashed => Verify(out[b])

\* Whatever builds follow or overlap each other, fail or die: what an answered bundle
\* was signed with is the key on disk (loadOrCreateKey), unless two builds both found
\* no key or one could not read the key that was there.
OneKey == \A b \in Builds : Built(b) /\ ~rekeyed => key[b] = keyFile

-----------------------------------------------------------------------------
(* Statements of the documentation that the code does not keep (README,     *)
(* "Divergences").  They are no part of what the runs check.                *)

\* evidence spec:11-14 "WHEN eval runs and agent activity have been recorded ... a bundle
\* file is produced containing the eval report" (contradicted: the list of the report
\* stops at 100 runs).
ReportHasAllRuns ==
  \A b \in Builds : Built(b) => (before[b] \intersect Evals) \ lostRun \subseteq list[b]

\* teamobs.go:24 "aggregates eval runs across the whole store" (contradicted by the same
\* limit: ListEvalRuns(0) lists 100 runs).
SummaryIsWhole == Summary = {Cardinality(runs)}

\* evidence.go:49 "otherwise a key is generated and persisted next to the output"
\* (contradicted: of two builds that find no key, each generates one, and the second
\* to write replaces the key the first signed with; and a build that cannot read the
\* key that is there replaces it).
SignedWithPersisted == \A b \in Builds : Built(b) => key[b] = keyFile

\* evidence spec:36-38 (contradicted for a build that was answered: the deferred Close
\* calls that write the end of the archive fail unseen, and two builds to one path,
\* which is the default, write one file).
AnsweredVerifies == \A b \in Builds : pc[b] = "done" /\ last[out[b]] = b => Verify(out[b])

=============================================================================
