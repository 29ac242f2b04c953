---------------------------- MODULE EvidenceProofs ----------------------------
(***************************************************************************)
(* EvidenceBundle proved for any number of builds, paths and eval runs and *)
(* any limit of the report.                                                *)
(*                                                                         *)
(* Four invariants, one per property: who may be between looking for the   *)
(* key and saving it (KeyInv); who has a path open (FileInv); the results  *)
(* of a recorded run are complete, so of a listed one too (ReportInv); the *)
(* table of runs only grows, and by runs whose time is set (RunsInv), so   *)
(* what is answered before a request is in what it reads (CoverInv).       *)
(***************************************************************************)
EXTENDS EvidenceBundle, TLAPS

-----------------------------------------------------------------------------

\* No bundle has been built.
LEMMA TypeInit == Init => TypeOK
<1> SUFFICES ASSUME Init PROVE TypeOK OBVIOUS
<1>1. 0 \in 0..NCases /\ -1 \in -1..NCases BY EvidenceAssumption
<1>2. /\ at = [e \in Evals |-> 0] /\ rows = [e \in Evals |-> 0] /\ started = [e \in Evals |-> 0]
      /\ at \in [Evals -> 0..NCases] /\ rows \in [Evals -> 0..NCases]
      /\ got \in [Builds -> [Evals -> -1..NCases]]
  BY <1>1 DEF Init
<1>3. started \in [Evals -> Nat] /\ \A e \in Evals : rows[e] <= at[e] BY <1>2
<1> QED BY <1>2, <1>3 DEF Init, TypeOK, Steps

\* A file of a bundle is one some build wrote.
LEMMA PartType ==
  ASSUME NEW f \in [Outs -> [Parts -> Builds \union {None}]],
         NEW o, NEW i \in Parts, NEW b \in Builds
  PROVE  [f EXCEPT ![o][i] = b] \in [Outs -> [Parts -> Builds \union {None}]]
<1> DEFINE g == [f EXCEPT ![o][i] = b]
<1>1. ASSUME NEW p \in Outs PROVE g[p] \in [Parts -> Builds \union {None}]
  <2>1. CASE p = o
    <3>1. g[p] = [f[o] EXCEPT ![i] = b] BY <2>1
    <3>2. f[o] \in [Parts -> Builds \union {None}] BY <2>1
    <3> QED BY <3>1, <3>2
  <2>2. CASE p # o
    <3>1. g[p] = f[p] BY <2>2
    <3> QED BY <3>1
  <2> QED BY <2>1, <2>2
<1>2. DOMAIN g = Outs /\ g = [p \in Outs |-> g[p]] OBVIOUS
<1> QED BY <1>1, <1>2

\* Every step keeps the types.
LEMMA TypeNext == TypeOK /\ [Next]_vars => TypeOK'
<1> SUFFICES ASSUME TypeOK, [Next]_vars PROVE TypeOK' OBVIOUS
<1> USE EvidenceAssumption DEF TypeOK, Goto, EvalGoto, tables, evalVars, buildVars, fileVars,
        Parts, Steps
<1>1. ASSUME NEW e \in Evals, InsertEvalResult(e) PROVE TypeOK'
  <2>1. at' = [at EXCEPT ![e] = at[e] + 1] /\ at[e] + 1 \in 0..NCases
    BY <1>1 DEF InsertEvalResult
  <2>2. /\ at' \in [Evals -> 0..NCases]
        /\ ev' \in [Evals -> {"idle", "rows", "insert", "audit", "done", "dead"}]
    BY <1>1, <2>1 DEF InsertEvalResult
  <2>3. /\ rows' \in [Evals -> 0..NCases] /\ lostRows' \subseteq Evals
        /\ \A d \in Evals : rows'[d] <= at'[d]
    <3>1. CASE rows' = [rows EXCEPT ![e] = @ + 1] /\ UNCHANGED lostRows BY <2>1, <3>1
    <3>2. CASE lostRows' = lostRows \union {e} /\ UNCHANGED rows BY <2>1, <3>2
    <3> QED BY <1>1, <3>1, <3>2 DEF InsertEvalResult
  <2> QED BY <1>1, <2>2, <2>3 DEF InsertEvalResult
<1>2. ASSUME NEW e \in Evals, InsertEvalRun(e) PROVE TypeOK' BY <1>2 DEF InsertEvalRun
<1>19. ASSUME NEW e \in Evals, Stamp(e) PROVE TypeOK'
  <2>1. PICK t \in Times : started' = [started EXCEPT ![e] = t] BY <1>19 DEF Stamp
  <2>2. t \in Nat OBVIOUS
  <2> QED BY <1>19, <2>1, <2>2 DEF Stamp
<1>3. ASSUME NEW e \in Evals, EvalAudit(e) PROVE TypeOK' BY <1>3 DEF EvalAudit, AppendAudit
<1>4. ASSUME NEW b \in Builds, NEW o \in Outs, Request(b, o) PROVE TypeOK' BY <1>4 DEF Request
<1>5. ASSUME NEW b \in Builds, NEW e \in Evals, ReadResults(b, e) PROVE TypeOK'
  <2>1. got[b] \in [Evals -> -1..NCases] /\ rows[e] \in -1..NCases /\ 0 \in -1..NCases OBVIOUS
  <2>2. PICK v \in -1..NCases : got' = [got EXCEPT ![b][e] = v] BY <1>5, <2>1 DEF ReadResults
  <2>3. got' = [got EXCEPT ![b] = [got[b] EXCEPT ![e] = v]] BY <2>2
  <2>4. got' \in [Builds -> [Evals -> -1..NCases]] BY <2>1, <2>3
  <2> QED BY <1>5, <2>4 DEF ReadResults
<1>6. ASSUME NEW b \in Builds, ListRuns(b) PROVE TypeOK'
  <2>1. ListEvalRuns(runs) \subseteq SUBSET Evals BY DEF ListEvalRuns
  <2>2. PICK l \in SUBSET Evals : list' = [list EXCEPT ![b] = l] BY <1>6, <2>1 DEF ListRuns
  <2> QED BY <1>6, <2>2 DEF ListRuns
<1>7. ASSUME NEW b \in Builds, ReadAudit(b) PROVE TypeOK' BY <1>7 DEF ReadAudit
<1>8. ASSUME NEW b \in Builds, LoadKey(b) PROVE TypeOK' BY <1>8 DEF LoadKey
<1>9. ASSUME NEW b \in Builds, GenerateKey(b) PROVE TypeOK'
  BY <1>9 DEF GenerateKey, NewKey, SomeUnsaved
<1>20. ASSUME NEW b \in Builds, MisreadKey(b) PROVE TypeOK' BY <1>20 DEF MisreadKey, NewKey
<1>10. ASSUME NEW b \in Builds, SaveKey(b) PROVE TypeOK' BY <1>10 DEF SaveKey
<1>11. ASSUME NEW b \in Builds, SavedKey(b) PROVE TypeOK' BY <1>11 DEF SavedKey
<1>12. ASSUME NEW b \in Builds, CreateOut(b) PROVE TypeOK' BY <1>12 DEF CreateOut
<1>13. ASSUME NEW b \in Builds, WritePart1(b) PROVE TypeOK'
  BY <1>13, PartType DEF WritePart1
<1>14. ASSUME NEW b \in Builds, WritePart2(b) PROVE TypeOK'
  <2>1. file \in [Outs -> [Parts -> Builds \union {None}]] /\ 2 \in Parts OBVIOUS
  <2>2. [file EXCEPT ![out[b]][2] = b] \in [Outs -> [Parts -> Builds \union {None}]]
    BY <2>1, PartType
  <2>3. file' \in [Outs -> [Parts -> Builds \union {None}]] BY <1>14, <2>1, <2>2 DEF WritePart2
  <2> QED BY <1>14, <2>3 DEF WritePart2
<1>15. ASSUME NEW b \in Builds, BuildEvidence(b) PROVE TypeOK'
  BY <1>15 DEF BuildEvidence, AppendAudit
<1>16. ASSUME NEW b \in Builds, Error(b) PROVE TypeOK' BY <1>16 DEF Error, Gone
<1>17. CASE Crash BY <1>17 DEF Crash, Gone, Alive, Evaluating
<1>18. CASE UNCHANGED vars BY <1>18 DEF vars
<1> QED BY <1>1, <1>2, <1>3, <1>4, <1>5, <1>6, <1>7, <1>8, <1>9, <1>10, <1>11, <1>12, <1>13,
           <1>14, <1>15, <1>16, <1>17, <1>18, <1>19, <1>20 DEF Next

\* The variables keep their types.
THEOREM EvidenceTypeCorrect == Spec => []TypeOK
<1> QED BY TypeInit, TypeNext, PTL DEF Spec

-----------------------------------------------------------------------------
(* OneKey: without a race one build at most is between key and file, and it *)
(* found no file; afterwards the file holds the key of everybody.           *)

Saving  == {"save", "saving"}
Signing == {"write", "part1", "part2", "audit", "done"}

KeyInv ==
  /\ \A b \in Builds : pc[b] \in Saving => key[b] = b
  /\ ~rekeyed =>
       /\ \A b, k \in Builds : pc[b] \in Saving /\ pc[k] \in Saving => b = k
       /\ \A b \in Builds : pc[b] = "save" => keyFile = None
       /\ \A b \in Builds : pc[b] = "saving" => keyFile = "empty"
       /\ \A b \in Builds : pc[b] \in Signing /\ b \notin flaws =>
            key[b] \in Builds /\ key[b] = keyFile

\* Every step keeps the key of a build that of the key file, until two of them race for it
\* or one replaces a key it could not read.
LEMMA KeyNext == TypeOK /\ KeyInv /\ [Next]_vars => KeyInv'
<1> SUFFICES ASSUME TypeOK, KeyInv, [Next]_vars PROVE KeyInv' OBVIOUS
<1>0. None \notin Builds /\ "empty" \notin Builds /\ None # "empty" BY EvidenceAssumption
<1>t. /\ pc \in [Builds -> Steps] /\ key \in [Builds -> Builds \union {None}]
      /\ keyFile \in Builds \union {None, "empty"} /\ rekeyed \in BOOLEAN
  BY DEF TypeOK
<1> USE <1>0, <1>t DEF KeyInv, Saving, Signing, Goto, tables, evalVars, buildVars, fileVars, Steps
<1>1. ASSUME NEW e \in Evals, InsertEvalResult(e) \/ Stamp(e) \/ InsertEvalRun(e) \/ EvalAudit(e)
      PROVE  KeyInv'
  BY <1>1 DEF InsertEvalResult, Stamp, InsertEvalRun, EvalAudit, AppendAudit, EvalGoto
<1>2. ASSUME NEW b \in Builds, NEW o \in Outs, Request(b, o) PROVE KeyInv' BY <1>2 DEF Request
<1>3. ASSUME NEW b \in Builds, NEW e \in Evals, ReadResults(b, e) PROVE KeyInv'
  BY <1>3 DEF ReadResults
<1>4. ASSUME NEW b \in Builds, ListRuns(b) \/ ReadAudit(b) PROVE KeyInv'
  BY <1>4 DEF ListRuns, ReadAudit
<1>5. ASSUME NEW b \in Builds, LoadKey(b) PROVE KeyInv' BY <1>5 DEF LoadKey
<1>6. ASSUME NEW b \in Builds, GenerateKey(b) PROVE KeyInv'
  <2>1. ~rekeyed' => ~rekeyed /\ \A k \in Builds : pc[k] \notin Saving
    BY <1>6 DEF GenerateKey, NewKey, SomeUnsaved
  <2> QED BY <1>6, <2>1 DEF GenerateKey, NewKey, SomeUnsaved
<1>7. ASSUME NEW b \in Builds, SaveKey(b) PROVE KeyInv' BY <1>7 DEF SaveKey
<1>8. ASSUME NEW b \in Builds, SavedKey(b) PROVE KeyInv' BY <1>8 DEF SavedKey
<1>9. ASSUME NEW b \in Builds, CreateOut(b) \/ WritePart1(b) \/ WritePart2(b) PROVE KeyInv'
  BY <1>9 DEF CreateOut, WritePart1, WritePart2
<1>10. ASSUME NEW b \in Builds, BuildEvidence(b) PROVE KeyInv'
  BY <1>10 DEF BuildEvidence, AppendAudit
<1>11. ASSUME NEW b \in Builds, Error(b) PROVE KeyInv' BY <1>11 DEF Error, Gone
<1>12. CASE Crash BY <1>12 DEF Crash, Gone, Alive, Evaluating
<1>13. CASE UNCHANGED vars BY <1>13 DEF vars
<1>14. ASSUME NEW b \in Builds, MisreadKey(b) PROVE KeyInv' BY <1>14 DEF MisreadKey, NewKey
<1> QED BY <1>1, <1>2, <1>3, <1>4, <1>5, <1>6, <1>7, <1>8, <1>9, <1>10, <1>11, <1>12, <1>13, <1>14
        DEF Next

\* Unless two builds both found no key, or one could not read the key that was there, the
\* key on disk is the one that signed.
THEOREM EvidenceOneKey == Spec => []OneKey
<1>1. Init => KeyInv BY DEF Init, KeyInv, Saving, Signing
<1>2. KeyInv => OneKey BY DEF KeyInv, OneKey, Built, Signing
<1> QED BY <1>1, <1>2, TypeInit, TypeNext, KeyNext, PTL DEF Spec

-----------------------------------------------------------------------------
(* FreshVerifies: who has a path open created it last, or has been           *)
(* overlapped by who did.                                                    *)

FileInv ==
  /\ \A b \in Builds : pc[b] # "idle" => out[b] \in Outs
  /\ \A b \in Builds : pc[b] \in {"part1", "part2"} =>
       last[out[b]] = b \/ last[out[b]] \in clashed
  /\ \A b \in Builds : pc[b] # "idle" /\ last[out[b]] = b /\ b \notin clashed =>
       /\ pc[b] = "part2" => file[out[b]][1] = b
       /\ pc[b] \in {"audit", "done"} /\ b \notin flaws => \A i \in Parts : file[out[b]][i] = b

\* Every step leaves a path to the build that created it last.
LEMMA FileNext == TypeOK /\ FileInv /\ [Next]_vars => FileInv'
<1> SUFFICES ASSUME TypeOK, FileInv, [Next]_vars PROVE FileInv' OBVIOUS
<1>t. /\ pc \in [Builds -> Steps] /\ out \in [Builds -> Outs \union {None}]
      /\ file \in [Outs -> [Parts -> Builds \union {None}]]
      /\ last \in [Outs -> Builds \union {None}]
  BY DEF TypeOK
<1> USE <1>t DEF FileInv, Goto, tables, evalVars, buildVars, fileVars, Steps, Parts
<1>1. ASSUME NEW e \in Evals, InsertEvalResult(e) \/ Stamp(e) \/ InsertEvalRun(e) \/ EvalAudit(e)
      PROVE  FileInv'
  BY <1>1 DEF InsertEvalResult, Stamp, InsertEvalRun, EvalAudit, AppendAudit, EvalGoto
<1>2. ASSUME NEW b \in Builds, NEW o \in Outs, Request(b, o) PROVE FileInv' BY <1>2 DEF Request
<1>3. ASSUME NEW b \in Builds, NEW e \in Evals, ReadResults(b, e) PROVE FileInv'
  BY <1>3 DEF ReadResults
<1>4. ASSUME NEW b \in Builds, ListRuns(b) \/ ReadAudit(b) PROVE FileInv'
  BY <1>4 DEF ListRuns, ReadAudit
<1>5. ASSUME NEW b \in Builds, LoadKey(b) \/ GenerateKey(b) \/ MisreadKey(b) PROVE FileInv'
  BY <1>5 DEF LoadKey, GenerateKey, MisreadKey, NewKey
<1>6. ASSUME NEW b \in Builds, SaveKey(b) \/ SavedKey(b) PROVE FileInv'
  BY <1>6 DEF SaveKey, SavedKey
<1>7. ASSUME NEW b \in Builds, CreateOut(b) PROVE FileInv' BY <1>7 DEF CreateOut
<1>8. ASSUME NEW b \in Builds, WritePart1(b) PROVE FileInv' BY <1>8 DEF WritePart1
<1>9. ASSUME NEW b \in Builds, WritePart2(b) PROVE FileInv' BY <1>9 DEF WritePart2
<1>10. ASSUME NEW b \in Builds, BuildEvidence(b) PROVE FileInv'
  BY <1>10 DEF BuildEvidence, AppendAudit
<1>11. ASSUME NEW b \in Builds, Error(b) PROVE FileInv' BY <1>11 DEF Error, Gone
<1>12. CASE Crash BY <1>12 DEF Crash, Gone, Alive, Evaluating
<1>13. CASE UNCHANGED vars BY <1>13 DEF vars
<1> QED BY <1>1, <1>2, <1>3, <1>4, <1>5, <1>6, <1>7, <1>8, <1>9, <1>10, <1>11, <1>12, <1>13 DEF Next

\* A fresh bundle verifies, unless another build had its path open at the same time.
THEOREM EvidenceFreshVerifies == Spec => []FreshVerifies
<1>1. Init => FileInv BY EvidenceAssumption DEF Init, FileInv
<1>2. FileInv => FreshVerifies BY DEF FileInv, FreshVerifies, Verify, Built
<1> QED BY <1>1, <1>2, TypeInit, TypeNext, FileNext, PTL DEF Spec

-----------------------------------------------------------------------------
(* ReportIsComplete and BundleCoversHistory.                                 *)

Collected == {"key"} \union Saving \union Signing
Listed    == {"results"} \union Collected

ReportInv ==
  /\ \A e \in Evals \ lostRows : rows[e] = at[e]
  /\ \A e \in Evals : ev[e] = "insert" \/ e \in runs => at[e] = NCases
  /\ \A b \in Builds : list[b] \subseteq runs
  /\ \A b \in Builds : b \notin flaws => \A e \in Evals \ lostRows : got[b][e] \in {-1, NCases}
  /\ \A b \in Builds : pc[b] \in Collected => \A e \in list[b] : got[b][e] # -1

RunsInv ==
  /\ \A e \in Evals : ev[e] \in {"audit", "done"} => e \in runs \union lostRun
  /\ \A e \in Evals : ev[e] \in {"idle", "rows", "insert"} => e \notin runs
  /\ \A e \in Evals : ev[e] = "done" => e \in audited \union flaws
  /\ \A b \in Builds : pc[b] = "done" => b \in audited \union flaws

CoverInv ==
  /\ \A b \in Builds : before[b] \subseteq audited \union flaws
  /\ \A b \in Builds : before[b] \intersect Evals \subseteq runs \union lostRun
  /\ \A b \in Builds : pc[b] \in Collected => before[b] \subseteq audit[b] \union flaws
  /\ \A b \in Builds : pc[b] \in Listed =>
       \A e \in (before[b] \intersect Evals) \ lostRun : ListedOrOld(e, list[b])

\* Every step keeps the results of the runs a build has listed in its report.
LEMMA ReportNext == TypeOK /\ ReportInv /\ [Next]_vars => ReportInv'
<1> SUFFICES ASSUME TypeOK, ReportInv, [Next]_vars PROVE ReportInv' OBVIOUS
<1>t. /\ at \in [Evals -> 0..NCases] /\ rows \in [Evals -> 0..NCases] /\ runs \subseteq Evals
      /\ ev \in [Evals -> {"idle", "rows", "insert", "audit", "done", "dead"}]
      /\ pc \in [Builds -> Steps] /\ list \in [Builds -> SUBSET Evals]
      /\ got \in [Builds -> [Evals -> -1..NCases]] /\ NCases \in Nat
  BY EvidenceAssumption DEF TypeOK
<1> USE <1>t DEF ReportInv, Collected, Saving, Signing, Goto, tables, evalVars, buildVars,
                 fileVars, Steps
<1>1. ASSUME NEW e \in Evals, InsertEvalResult(e) PROVE ReportInv'
  BY <1>1 DEF InsertEvalResult, EvalGoto
<1>2. ASSUME NEW e \in Evals, Stamp(e) \/ InsertEvalRun(e) PROVE ReportInv'
  BY <1>2 DEF Stamp, InsertEvalRun, EvalGoto
<1>3. ASSUME NEW e \in Evals, EvalAudit(e) PROVE ReportInv'
  BY <1>3 DEF EvalAudit, AppendAudit, EvalGoto
<1>4. ASSUME NEW b \in Builds, NEW o \in Outs, Request(b, o) PROVE ReportInv' BY <1>4 DEF Request
<1>5. ASSUME NEW b \in Builds, NEW e \in Evals, ReadResults(b, e) PROVE ReportInv'
  <2>1. e \in runs /\ (e \notin lostRows => rows[e] = NCases) BY <1>5 DEF ReadResults
  <2>2. UNCHANGED <<ev, tables, pc, list>> BY <1>5 DEF ReadResults
  <2>3. \A k \in Builds : pc'[k] \in Collected => got'[k] = got[k] BY <1>5 DEF ReadResults
  <2>4. ASSUME NEW k \in Builds, k \notin flaws', NEW x \in Evals \ lostRows
        PROVE  got'[k][x] \in {-1, NCases}
    <3>1. got[b] \in [Evals -> -1..NCases] OBVIOUS
    <3>2. CASE k # b
      <4>1. got'[k] = got[k] BY <1>5, <3>2 DEF ReadResults
      <4>2. k \notin flaws BY <1>5, <2>4, <3>2 DEF ReadResults
      <4> QED BY <4>1, <4>2
    <3>3. CASE k = b
      <4>1. b \notin flaws /\ got' = [got EXCEPT ![b][e] = rows[e]]
        BY <1>5, <2>4, <3>3 DEF ReadResults
      <4>2. got'[b] = [got[b] EXCEPT ![e] = rows[e]] BY <4>1
      <4> QED BY <2>1, <3>1, <3>3, <4>1, <4>2
    <3> QED BY <3>2, <3>3
  <2> QED BY <2>2, <2>3, <2>4
<1>6. ASSUME NEW b \in Builds, ListRuns(b) PROVE ReportInv'
  <2>1. ListEvalRuns(runs) \subseteq SUBSET runs BY DEF ListEvalRuns
  <2>2. PICK l \in SUBSET runs : list' = [list EXCEPT ![b] = l] BY <1>6, <2>1 DEF ListRuns
  <2> QED BY <1>6, <2>2 DEF ListRuns
<1>7. ASSUME NEW b \in Builds, ReadAudit(b) PROVE ReportInv' BY <1>7 DEF ReadAudit
<1>8. ASSUME NEW b \in Builds, LoadKey(b) \/ GenerateKey(b) \/ MisreadKey(b) PROVE ReportInv'
  BY <1>8 DEF LoadKey, GenerateKey, MisreadKey, NewKey
<1>9. ASSUME NEW b \in Builds, SaveKey(b) \/ SavedKey(b) PROVE ReportInv'
  BY <1>9 DEF SaveKey, SavedKey
<1>10. ASSUME NEW b \in Builds, CreateOut(b) \/ WritePart1(b) PROVE ReportInv'
  BY <1>10 DEF CreateOut, WritePart1
<1>16. ASSUME NEW b \in Builds, WritePart2(b) PROVE ReportInv' BY <1>16 DEF WritePart2
<1>11. ASSUME NEW b \in Builds, BuildEvidence(b) PROVE ReportInv'
  BY <1>11 DEF BuildEvidence, AppendAudit
<1>12. ASSUME NEW S \in SUBSET Builds, Gone(S), \A b \in S : pc'[b] \in {"error", "dead"},
              \A b \in Builds \ S : pc'[b] = pc[b], UNCHANGED <<tables, flaws>>,
              \A e \in Evals : ev'[e] = "insert" => ev[e] = "insert"
       PROVE ReportInv'
  <2>1. \A b \in Builds \ S : list'[b] = list[b] /\ got'[b] = got[b] BY <1>12 DEF Gone
  <2>2. \A b \in S : list'[b] = {} BY <1>12 DEF Gone
  <2>4. \A b \in Builds : list'[b] \subseteq runs BY <2>1, <2>2
  <2>5. \A b \in S, e \in Evals : got'[b][e] = -1 BY <1>12 DEF Gone
  <2>6. \A b \in Builds : pc'[b] \in Collected => b \in Builds \ S /\ pc'[b] = pc[b] BY <1>12
  <2>7. \A b \in Builds : b \notin flaws' =>
          \A e \in Evals \ lostRows : got'[b][e] \in {-1, NCases}
    BY <1>12, <2>1, <2>5
  <2>8. \A b \in Builds : pc'[b] \in Collected => \A e \in list'[b] : got'[b][e] # -1
    BY <2>1, <2>6
  <2> QED BY <1>12, <2>4, <2>7, <2>8
<1>13. ASSUME NEW b \in Builds, Error(b) PROVE ReportInv' BY <1>12, <1>13 DEF Error
<1>14. CASE Crash
  <2>1. Alive \in SUBSET Builds BY DEF Alive
  <2>2. \A e \in Evals : ev'[e] = "insert" => ev[e] = "insert" BY <1>14 DEF Crash
  <2>3. \A b \in Alive : pc'[b] = "dead" BY <1>14, <2>1 DEF Crash
  <2>4. \A b \in Builds \ Alive : pc'[b] = pc[b] BY <1>14 DEF Crash
  <2>5. Gone(Alive) /\ UNCHANGED <<tables, flaws>> BY <1>14 DEF Crash
  <2> QED BY <1>12, <2>1, <2>2, <2>3, <2>4, <2>5
<1>15. CASE UNCHANGED vars BY <1>15 DEF vars
<1> QED BY <1>1, <1>2, <1>3, <1>4, <1>5, <1>6, <1>7, <1>8, <1>9, <1>10, <1>11, <1>13, <1>14, <1>15,
           <1>16 DEF Next

\* Every run in the report of a bundle has all its result rows, but those whose own
\* INSERT failed.
THEOREM EvidenceReportIsComplete == Spec => []ReportIsComplete
<1>1. Init => ReportInv BY DEF Init, ReportInv, Collected, Saving, Signing
<1>2. TypeOK /\ ReportInv => ReportIsComplete
  BY DEF TypeOK, ReportInv, ReportIsComplete, Built, Collected, Saving, Signing
<1> QED BY <1>1, <1>2, TypeInit, TypeNext, ReportNext, PTL DEF Spec

\* Every step keeps the order in which a run is recorded, then audited.
LEMMA RunsNext == TypeOK /\ RunsInv /\ [Next]_vars => RunsInv'
<1> SUFFICES ASSUME TypeOK, RunsInv, [Next]_vars PROVE RunsInv' OBVIOUS
<1>t. /\ ev \in [Evals -> {"idle", "rows", "insert", "audit", "done", "dead"}]
      /\ runs \subseteq Evals /\ pc \in [Builds -> Steps] /\ Evals \intersect Builds = {}
  BY EvidenceAssumption DEF TypeOK
<1> USE <1>t DEF RunsInv, Goto, tables, evalVars, buildVars, fileVars, Steps
<1>1. ASSUME NEW e \in Evals, InsertEvalResult(e) PROVE RunsInv'
  BY <1>1 DEF InsertEvalResult, EvalGoto
<1>2. ASSUME NEW e \in Evals, Stamp(e) \/ InsertEvalRun(e) PROVE RunsInv'
  BY <1>2 DEF Stamp, InsertEvalRun, EvalGoto
<1>3. ASSUME NEW e \in Evals, EvalAudit(e) PROVE RunsInv'
  BY <1>3 DEF EvalAudit, AppendAudit, EvalGoto
<1>4. ASSUME NEW b \in Builds, NEW o \in Outs, Request(b, o) PROVE RunsInv' BY <1>4 DEF Request
<1>5. ASSUME NEW b \in Builds, NEW e \in Evals, ReadResults(b, e) PROVE RunsInv'
  BY <1>5 DEF ReadResults
<1>6. ASSUME NEW b \in Builds, ListRuns(b) \/ ReadAudit(b) PROVE RunsInv'
  BY <1>6 DEF ListRuns, ReadAudit
<1>7. ASSUME NEW b \in Builds, LoadKey(b) \/ GenerateKey(b) \/ MisreadKey(b) PROVE RunsInv'
  BY <1>7 DEF LoadKey, GenerateKey, MisreadKey, NewKey
<1>8. ASSUME NEW b \in Builds, SaveKey(b) \/ SavedKey(b) PROVE RunsInv'
  BY <1>8 DEF SaveKey, SavedKey
<1>9. ASSUME NEW b \in Builds, CreateOut(b) \/ WritePart1(b) \/ WritePart2(b) PROVE RunsInv'
  BY <1>9 DEF CreateOut, WritePart1, WritePart2
<1>10. ASSUME NEW b \in Builds, BuildEvidence(b) PROVE RunsInv'
  BY <1>10 DEF BuildEvidence, AppendAudit
<1>11. ASSUME NEW b \in Builds, Error(b) PROVE RunsInv' BY <1>11 DEF Error
<1>12. CASE Crash BY <1>12 DEF Crash
<1>13. CASE UNCHANGED vars BY <1>13 DEF vars
<1> QED BY <1>1, <1>2, <1>3, <1>4, <1>5, <1>6, <1>7, <1>8, <1>9, <1>10, <1>11, <1>12, <1>13 DEF Next

\* A run that is in the table is listed, or the list is full of runs that are no older.
LEMMA ListCovers ==
  ASSUME NEW e \in runs, NEW l \in ListEvalRuns(runs)
  PROVE  ListedOrOld(e, l)
BY DEF ListEvalRuns, ListedOrOld

\* Every step keeps what was over before a build in what it collects.
LEMMA CoverNext == TypeOK /\ ReportInv /\ RunsInv /\ CoverInv /\ [Next]_vars => CoverInv'
<1> SUFFICES ASSUME TypeOK, ReportInv, RunsInv, CoverInv, [Next]_vars PROVE CoverInv' OBVIOUS
<1>t. /\ ev \in [Evals -> {"idle", "rows", "insert", "audit", "done", "dead"}]
      /\ runs \subseteq Evals /\ started \in [Evals -> Nat]
      /\ pc \in [Builds -> Steps] /\ list \in [Builds -> SUBSET Evals]
      /\ before \in [Builds -> SUBSET (Evals \union Builds)]
      /\ audit \in [Builds -> SUBSET (Evals \union Builds)]
      /\ Evals \intersect Builds = {}
  BY EvidenceAssumption DEF TypeOK
<1> USE <1>t DEF CoverInv, Collected, Listed, Saving, Signing, Goto, tables, evalVars, buildVars,
                 fileVars,
                 Steps
<1>l. ASSUME UNCHANGED started PROVE \A x, l : ListedOrOld(x, l) => ListedOrOld(x, l)'
  BY <1>l DEF ListedOrOld
<1>1. ASSUME NEW e \in Evals, InsertEvalResult(e) PROVE CoverInv'
  BY <1>1, <1>l DEF InsertEvalResult, EvalGoto
<1>2. ASSUME NEW e \in Evals, InsertEvalRun(e) PROVE CoverInv'
  BY <1>2, <1>l DEF InsertEvalRun, EvalGoto
<1>15. ASSUME NEW e \in Evals, Stamp(e) PROVE CoverInv'
  <2>1. e \notin runs /\ \A d \in Evals : d # e => started'[d] = started[d]
    BY <1>15 DEF Stamp, RunsInv
  <2>2. ASSUME NEW b \in Builds, pc[b] \in Listed, NEW x \in (before[b] \intersect Evals) \ lostRun
        PROVE  ListedOrOld(x, list[b])'
    <3>1. x \in runs /\ ListedOrOld(x, list[b]) /\ list[b] \subseteq runs BY <2>2 DEF ReportInv
    <3>2. started'[x] = started[x] /\ \A d \in list[b] : started'[d] = started[d] BY <2>1, <3>1
    <3> QED BY <1>15, <3>1, <3>2 DEF ListedOrOld, Stamp, EvalGoto
  <2>3. UNCHANGED <<pc, before, audited, flaws, runs, lostRun, audit>>
    BY <1>15 DEF Stamp, EvalGoto
  <2> QED BY <2>2, <2>3
<1>3. ASSUME NEW e \in Evals, EvalAudit(e) PROVE CoverInv'
  BY <1>3, <1>l DEF EvalAudit, AppendAudit, EvalGoto
<1>4. ASSUME NEW b \in Builds, NEW o \in Outs, Request(b, o) PROVE CoverInv'
  BY <1>4, <1>l DEF Request, RunsInv
<1>5. ASSUME NEW b \in Builds, NEW e \in Evals, ReadResults(b, e) PROVE CoverInv'
  BY <1>5, <1>l DEF ReadResults
<1>6. ASSUME NEW b \in Builds, ListRuns(b) PROVE CoverInv'
  <2>1. PICK l \in ListEvalRuns(runs) : list' = [list EXCEPT ![b] = l] BY <1>6 DEF ListRuns
  <2>2. \A x \in runs : ListedOrOld(x, l) BY ListCovers
  <2>3. list'[b] = l /\ \A k \in Builds : k # b => list'[k] = list[k] BY <2>1
  <2> QED BY <1>6, <1>l, <2>2, <2>3 DEF ListRuns
<1>7. ASSUME NEW b \in Builds, ReadAudit(b) PROVE CoverInv' BY <1>7, <1>l DEF ReadAudit
<1>8. ASSUME NEW b \in Builds, LoadKey(b) \/ GenerateKey(b) \/ MisreadKey(b) PROVE CoverInv'
  BY <1>8, <1>l DEF LoadKey, GenerateKey, MisreadKey, NewKey
<1>9. ASSUME NEW b \in Builds, SaveKey(b) \/ SavedKey(b) PROVE CoverInv'
  BY <1>9, <1>l DEF SaveKey, SavedKey
<1>10. ASSUME NEW b \in Builds, CreateOut(b) \/ WritePart1(b) \/ WritePart2(b) PROVE CoverInv'
  BY <1>10, <1>l DEF CreateOut, WritePart1, WritePart2
<1>11. ASSUME NEW b \in Builds, BuildEvidence(b) PROVE CoverInv'
  BY <1>11, <1>l DEF BuildEvidence, AppendAudit
<1>12. ASSUME NEW b \in Builds, Error(b) PROVE CoverInv' BY <1>12, <1>l DEF Error, Gone
<1>13. CASE Crash BY <1>13, <1>l DEF Crash, Gone, Alive, Evaluating
<1>14. CASE UNCHANGED vars BY <1>14, <1>l DEF vars
<1> QED BY <1>1, <1>2, <1>3, <1>4, <1>5, <1>6, <1>7, <1>8, <1>9, <1>10, <1>11, <1>12, <1>13, <1>14,
           <1>15 DEF Next

\* What was answered before a bundle was asked for is in its audit log and in its report,
\* but for entries and rows whose INSERT failed, unless the report is full of runs that
\* are no older.
THEOREM EvidenceCoversHistory == Spec => []BundleCoversHistory
<1>1. Init => ReportInv /\ RunsInv /\ CoverInv
  BY DEF Init, ReportInv, RunsInv, CoverInv, Collected, Listed, Saving, Signing
<1>2. TypeOK /\ CoverInv => BundleCoversHistory
  BY DEF TypeOK, CoverInv, BundleCoversHistory, Built, Collected, Listed, Saving, Signing
<1> QED BY <1>1, <1>2, TypeInit, TypeNext, ReportNext, RunsNext, CoverNext, PTL DEF Spec

=============================================================================
