--------------------------- MODULE TraceStoreProofs ---------------------------
(***************************************************************************)
(* Proofs about TraceStore for any set of spans and traces, any order of   *)
(* arrival, any failed statement and any crash.  The inductive invariant   *)
(* adds to the properties where each span stands in InsertSpan (Progress): *)
(* a span past the first statement is stored, and it is marked cut exactly *)
(* when it left between the two.                                           *)
(***************************************************************************)
EXTENDS TraceStore, TLAPS

USE TraceAssumption

\* The parent of a local span is local, or it has none.
LEMMA LocalParent == \A s \in Local : ParentOf[s] \in Local \union {None}
BY ParentAssumption DEF Local

\* Every step keeps the types.
LEMMA TypeInductive == TypeOK /\ [Next]_vars => TypeOK'
<1> SUFFICES ASSUME TypeOK, [Next]_vars PROVE TypeOK'
  OBVIOUS
<1> USE DEF TypeOK, Goto
<1>1. ASSUME NEW s \in Spans, Start(s) PROVE TypeOK'
  <2>1. clock' \in Nat /\ clock <= clock' BY <1>1 DEF Start
  <2>2. start' \in [Spans -> 0..clock'] BY <1>1, <2>1 DEF Start
  <2>3. summary' \in [Traces -> [listed : BOOLEAN, root : Spans \union {None},
                                 start : 0..clock']]
    <3>1. \A t \in Traces : summary[t] \in [listed : BOOLEAN, root : Spans \union {None},
                                            start : 0..clock]
      OBVIOUS
    <3>2. \A n \in 0..clock : n \in 0..clock' BY <2>1
    <3> QED BY <1>1, <3>1, <3>2 DEF Start
  <2> QED BY <1>1, <2>1, <2>2, <2>3 DEF Start
<1>2. ASSUME NEW s \in Spans, End(s) PROVE TypeOK' BY <1>2 DEF End
<1>3. ASSUME NEW s \in Spans, Undelivered(s) PROVE TypeOK' BY <1>3 DEF Undelivered
<1>4. ASSUME NEW s \in Spans, WriteRow(s) PROVE TypeOK' BY <1>4 DEF WriteRow
<1>5. ASSUME NEW s \in Spans, RowFails(s) PROVE TypeOK' BY <1>5 DEF RowFails, AfterError
<1>6. ASSUME NEW s \in Spans, WriteSummary(s) PROVE TypeOK'
  <2>1. TraceOf[s] \in Traces /\ start[s] \in 0..clock OBVIOUS
  <2>2. Upserted(s, summary[TraceOf[s]])
          \in [listed : BOOLEAN, root : Spans \union {None}, start : 0..clock]
    BY <2>1 DEF Upserted, Listing
  <2> QED BY <1>6, <2>1, <2>2 DEF WriteSummary
<1>7. ASSUME NEW s \in Spans, SummaryFails(s) PROVE TypeOK'
  BY <1>7 DEF SummaryFails, AfterError
<1>8. ASSUME NEW s \in Spans, WriteFile(s) PROVE TypeOK' BY <1>8 DEF WriteFile
<1>9. CASE Crash BY <1>9 DEF Crash, Inside
<1>10. CASE UNCHANGED vars BY <1>10 DEF vars
<1> QED BY <1>1, <1>2, <1>3, <1>4, <1>5, <1>6, <1>7, <1>8, <1>9, <1>10 DEF Next

\* Every step takes a span on through InsertSpan.
LEMMA ProgressInductive == TypeOK /\ Progress /\ [Next]_vars => Progress'
<1> SUFFICES ASSUME TypeOK, Progress, [Next]_vars PROVE Progress'
  OBVIOUS
<1> USE DEF TypeOK, Progress, Goto, Local
<1>1. ASSUME NEW s \in Spans, Start(s) PROVE Progress' BY <1>1 DEF Start
<1>2. ASSUME NEW s \in Spans, End(s) PROVE Progress' BY <1>2 DEF End
<1>3. ASSUME NEW s \in Spans, Undelivered(s) PROVE Progress' BY <1>3 DEF Undelivered
<1>4. ASSUME NEW s \in Spans, WriteRow(s) PROVE Progress' BY <1>4 DEF WriteRow
<1>5. ASSUME NEW s \in Spans, RowFails(s) PROVE Progress' BY <1>5 DEF RowFails, AfterError
<1>6. ASSUME NEW s \in Spans, WriteSummary(s) PROVE Progress' BY <1>6 DEF WriteSummary
<1>7. ASSUME NEW s \in Spans, SummaryFails(s) PROVE Progress'
  BY <1>7 DEF SummaryFails, AfterError
<1>8. ASSUME NEW s \in Spans, WriteFile(s) PROVE Progress' BY <1>8 DEF WriteFile
<1>9. CASE Crash BY <1>9 DEF Crash, Inside
<1>10. CASE UNCHANGED vars BY <1>10 DEF vars
<1> QED BY <1>1, <1>2, <1>3, <1>4, <1>5, <1>6, <1>7, <1>8, <1>9, <1>10 DEF Next

\* What an upsert does to the trace list.
LEMMA UpsertLists ==
  ASSUME TypeOK, NEW s \in Spans, WriteSummary(s)
  PROVE  /\ summary'[TraceOf[s]] = Upserted(s, summary[TraceOf[s]])
         /\ summary'[TraceOf[s]].listed
         /\ \A t \in Traces : t # TraceOf[s] => summary'[t] = summary[t]
<1>1. TraceOf[s] \in Traces OBVIOUS
<1>2. summary' = [summary EXCEPT ![TraceOf[s]] = Upserted(s, summary[TraceOf[s]])]
  BY DEF WriteSummary
<1>3. summary'[TraceOf[s]] = Upserted(s, summary[TraceOf[s]])
  BY <1>1, <1>2 DEF TypeOK
<1>4. Upserted(s, summary[TraceOf[s]]).listed
  BY <1>1 DEF Upserted, Listing, TypeOK
<1> QED BY <1>1, <1>2, <1>3, <1>4 DEF TypeOK

\* Every step keeps the list in step with the stored spans.
LEMMA ListedInductive ==
  TypeOK /\ Progress /\ ListedIffStored /\ [Next]_vars => ListedIffStored'
<1> SUFFICES ASSUME TypeOK, Progress, ListedIffStored, [Next]_vars
             PROVE  ListedIffStored'
  OBVIOUS
<1> USE DEF TypeOK, Progress, ListedIffStored, GetTrace, Goto
<1>1. ASSUME NEW s \in Spans, Start(s) PROVE ListedIffStored' BY <1>1 DEF Start
<1>2. ASSUME NEW s \in Spans, End(s) PROVE ListedIffStored' BY <1>2 DEF End
<1>3. ASSUME NEW s \in Spans, Undelivered(s) PROVE ListedIffStored'
  BY <1>3 DEF Undelivered
<1>4. ASSUME NEW s \in Spans, WriteRow(s) PROVE ListedIffStored' BY <1>4 DEF WriteRow
<1>5. ASSUME NEW s \in Spans, RowFails(s) PROVE ListedIffStored'
  BY <1>5 DEF RowFails
<1>6. ASSUME NEW s \in Spans, WriteSummary(s) PROVE ListedIffStored'
  <2>1. \A t \in Traces : summary[t].listed => summary'[t].listed
    BY <1>6, UpsertLists
  <2>2. s \in GetTrace(spans', TraceOf[s]) BY <1>6 DEF WriteSummary
  <2>3. \A t \in Traces : summary'[t].listed => GetTrace(spans', t) # {}
    BY <1>6, <2>2, UpsertLists DEF WriteSummary
  <2>4. \A t \in Traces : \A q \in GetTrace(spans', t) :
          summary'[t].listed \/ pc'[q] = "summary" \/ q \in cut'
    BY <1>6, <2>1, UpsertLists DEF WriteSummary
  <2> QED BY <2>3, <2>4
<1>7. ASSUME NEW s \in Spans, SummaryFails(s) PROVE ListedIffStored'
  BY <1>7 DEF SummaryFails
<1>8. ASSUME NEW s \in Spans, WriteFile(s) PROVE ListedIffStored' BY <1>8 DEF WriteFile
<1>9. CASE Crash BY <1>9 DEF Crash, Inside
<1>10. CASE UNCHANGED vars BY <1>10 DEF vars
<1> QED BY <1>1, <1>2, <1>3, <1>4, <1>5, <1>6, <1>7, <1>8, <1>9, <1>10 DEF Next

\* RootsShown is kept because a later span of the trace is a child (OneRoot), and
\* the upsert of a child leaves a row that is there alone.
LEMMA RootInductive ==
  OneRoot /\ TypeOK /\ Progress /\ RootsShown /\ [Next]_vars => RootsShown'
<1> SUFFICES ASSUME OneRoot, TypeOK, Progress, RootsShown, [Next]_vars
             PROVE  RootsShown'
  OBVIOUS
<1> USE DEF TypeOK, Progress, RootsShown, Goto
<1>1. ASSUME NEW s \in Spans, Start(s) PROVE RootsShown' BY <1>1 DEF Start
<1>2. ASSUME NEW s \in Spans, End(s) PROVE RootsShown' BY <1>2 DEF End
<1>3. ASSUME NEW s \in Spans, Undelivered(s) PROVE RootsShown' BY <1>3 DEF Undelivered
<1>4. ASSUME NEW s \in Spans, WriteRow(s) PROVE RootsShown' BY <1>4 DEF WriteRow
<1>5. ASSUME NEW s \in Spans, RowFails(s) PROVE RootsShown' BY <1>5 DEF RowFails
<1>6. ASSUME NEW s \in Spans, WriteSummary(s) PROVE RootsShown'
  <2>1. SUFFICES ASSUME NEW r \in Spans, ParentOf[r] = None, r \in spans',
                        pc'[r] # "summary", r \notin cut'
                 PROVE  summary'[TraceOf[r]] = Listing(r, start'[r])
    BY DEF RootsShown
  <2>2. TraceOf[r] \in Traces /\ start' = start BY <1>6 DEF WriteSummary
  <2>3. CASE r = s
    BY <1>6, <2>1, <2>2, <2>3, UpsertLists DEF Upserted
  <2>4. CASE r # s
    <3>1. summary[TraceOf[r]] = Listing(r, start[r])
      BY <1>6, <2>1, <2>4 DEF WriteSummary
    <3>2. CASE TraceOf[s] # TraceOf[r] BY <1>6, <2>2, <3>1, <3>2, UpsertLists
    <3>3. CASE TraceOf[s] = TraceOf[r]
      <4>1. ParentOf[s] # None BY <2>1, <2>4, <3>3 DEF OneRoot
      <4>2. summary[TraceOf[s]].listed BY <3>1, <3>3 DEF Listing
      <4> QED BY <1>6, <2>2, <3>1, <3>3, <4>1, <4>2, UpsertLists DEF Upserted
    <3> QED BY <3>2, <3>3
  <2> QED BY <2>3, <2>4
<1>7. ASSUME NEW s \in Spans, SummaryFails(s) PROVE RootsShown'
  BY <1>7 DEF SummaryFails
<1>8. ASSUME NEW s \in Spans, WriteFile(s) PROVE RootsShown' BY <1>8 DEF WriteFile
<1>9. CASE Crash BY <1>9 DEF Crash, Inside
<1>10. CASE UNCHANGED vars BY <1>10 DEF vars
<1> QED BY <1>1, <1>2, <1>3, <1>4, <1>5, <1>6, <1>7, <1>8, <1>9, <1>10 DEF Next

\* A step keeps what is below a root: the only step that takes a root out of "open" by
\* itself is End, which waits for the children; were something deeper still in flight,
\* the set of what is in flight below the root would have a span whose parent is not in
\* it (ParentAssumption), and that parent is the root.
LEMMA BelowRootEnds ==
  ASSUME TypeOK, Ancestry, BelowRoot, OneLocalRoot, NEW r \in Local, ParentOf[r] = None, End(r),
         NEW s \in Local, TraceOf[s] = TraceOf[r], s # r
  PROVE  pc[s] \notin InFlight
<1> USE DEF Local
<1> DEFINE F == {q \in Local : TraceOf[q] = TraceOf[r] /\ q # r /\ pc[q] \in InFlight}
<1>1. SUFFICES ASSUME pc[s] \in InFlight PROVE FALSE OBVIOUS
<1>2. PICK c \in F : ParentOf[c] \notin F
  <2>1. s \in F BY <1>1
  <2>2. F \in SUBSET (Spans \ Remote) /\ F # {} BY <2>1
  <2> HIDE DEF F
  <2> QED BY <2>2, ParentAssumption
<1>3. ParentOf[c] # None BY <1>2 DEF OneLocalRoot
<1>4. ParentOf[c] \in Local /\ TraceOf[ParentOf[c]] = TraceOf[r] BY <1>2, <1>3, LocalParent
<1>5. pc[ParentOf[c]] = "open" BY <1>2, <1>3 DEF Ancestry
<1>6. ParentOf[c] = r BY <1>2, <1>4, <1>5 DEF InFlight
<1>7. pc[c] \in {"none", "done"} BY <1>2, <1>6 DEF End
<1> QED BY <1>2, <1>7 DEF InFlight

\* Every step keeps the ancestors of a span in flight open.
LEMMA AncestryInductive ==
  TypeOK /\ Ancestry /\ [Next]_vars => Ancestry'
<1> SUFFICES ASSUME TypeOK, Ancestry, [Next]_vars PROVE Ancestry'
  OBVIOUS
<1> USE LocalParent DEF TypeOK, Ancestry, Goto, Local, InFlight
<1>1. ASSUME NEW s \in Spans, Start(s) PROVE Ancestry' BY <1>1 DEF Start
<1>2. ASSUME NEW s \in Spans, End(s) PROVE Ancestry' BY <1>2 DEF End
<1>3. ASSUME NEW s \in Spans, Undelivered(s) PROVE Ancestry' BY <1>3 DEF Undelivered
<1>4. ASSUME NEW s \in Spans, WriteRow(s) PROVE Ancestry' BY <1>4 DEF WriteRow
<1>5. ASSUME NEW s \in Spans, RowFails(s) PROVE Ancestry' BY <1>5 DEF RowFails, AfterError
<1>6. ASSUME NEW s \in Spans, WriteSummary(s) PROVE Ancestry' BY <1>6 DEF WriteSummary
<1>7. ASSUME NEW s \in Spans, SummaryFails(s) PROVE Ancestry'
  BY <1>7 DEF SummaryFails, AfterError
<1>8. ASSUME NEW s \in Spans, WriteFile(s) PROVE Ancestry' BY <1>8 DEF WriteFile
<1>9. CASE Crash BY <1>9 DEF Crash, Inside
<1>10. CASE UNCHANGED vars BY <1>10 DEF vars
<1> QED BY <1>1, <1>2, <1>3, <1>4, <1>5, <1>6, <1>7, <1>8, <1>9, <1>10 DEF Next

\* Every step keeps the one root open above the spans in flight.
LEMMA BelowRootInductive ==
  OneLocalRoot /\ TypeOK /\ Progress /\ Ancestry /\ BelowRoot /\ [Next]_vars => BelowRoot'
<1> SUFFICES ASSUME OneLocalRoot, TypeOK, Progress, Ancestry, BelowRoot, [Next]_vars
             PROVE  BelowRoot'
  OBVIOUS
<1> USE LocalParent DEF TypeOK, BelowRoot, Goto, Local, InFlight
<1>1. ASSUME NEW s \in Spans, Start(s) PROVE BelowRoot'
  <2>1. s \in Local /\ ParentOf[s] # None => pc[ParentOf[s]] = "open"
    BY <1>1 DEF Start
  <2>2. ASSUME NEW r \in Local, ParentOf[r] = None, TraceOf[s] = TraceOf[r], s # r, s \in Local
        PROVE  pc[r] = "open"
    <3>1. ParentOf[s] # None BY <2>2 DEF OneLocalRoot
    <3>2. ParentOf[s] \in Local /\ TraceOf[ParentOf[s]] = TraceOf[r] BY <2>2, <3>1
    <3> QED BY <2>1, <2>2, <3>1, <3>2 DEF BelowRoot, InFlight
  <2> QED BY <1>1, <2>2 DEF Start
<1>2. ASSUME NEW s \in Spans, End(s) PROVE BelowRoot'
  <2>1. ASSUME NEW q \in Local, s \in Local, ParentOf[s] = None, TraceOf[q] = TraceOf[s], q # s
        PROVE  pc[q] \notin InFlight
    BY <1>2, <2>1, BelowRootEnds DEF Local
  <2> QED BY <1>2, <2>1 DEF End
<1>3. ASSUME NEW s \in Spans, Undelivered(s) PROVE BelowRoot' BY <1>3 DEF Undelivered
<1>4. ASSUME NEW s \in Spans, WriteRow(s) PROVE BelowRoot' BY <1>4 DEF WriteRow
<1>5. ASSUME NEW s \in Spans, RowFails(s) PROVE BelowRoot' BY <1>5 DEF RowFails, AfterError
<1>6. ASSUME NEW s \in Spans, WriteSummary(s) PROVE BelowRoot' BY <1>6 DEF WriteSummary
<1>7. ASSUME NEW s \in Spans, SummaryFails(s) PROVE BelowRoot'
  BY <1>7 DEF SummaryFails, AfterError
<1>8. ASSUME NEW s \in Spans, WriteFile(s) PROVE BelowRoot' BY <1>8 DEF WriteFile
<1>9. CASE Crash BY <1>9 DEF Crash, Inside, Progress
<1>10. CASE UNCHANGED vars BY <1>10 DEF vars
<1> QED BY <1>1, <1>2, <1>3, <1>4, <1>5, <1>6, <1>7, <1>8, <1>9, <1>10 DEF Next

\* No span has been started.
LEMMA InitHolds ==
  Init => TypeOK /\ Progress /\ ListedIffStored /\ RootsShown /\ Ancestry /\ BelowRoot
BY DEF Init, Unlisted, TypeOK, Progress, ListedIffStored, GetTrace, RootsShown, Ancestry, BelowRoot,
       InFlight, Local

-----------------------------------------------------------------------------
(* The theorems.                                                            *)

\* Every step of the telemetry path is type correct.
THEOREM TraceTypeCorrect == Spec => []TypeOK
<1>1. Init => TypeOK BY InitHolds
<1> QED BY <1>1, TypeInductive, PTL DEF Spec

\* A trace is listed exactly when one of its spans is stored, but for spans that
\* are, or were left, between the two statements of InsertSpan.
THEOREM TraceListedIffStored == Spec => []ListedIffStored
<1>1. Init => TypeOK /\ Progress /\ ListedIffStored BY InitHolds
<1> QED BY <1>1, TypeInductive, ProgressInductive, ListedInductive, PTL DEF Spec

\* With one span without a parent per trace, the list shows the span that opened
\* the trace once it went through InsertSpan, in whatever order spans arrive.
THEOREM TraceRootShown == ASSUME OneRoot PROVE Spec => []RootShown
<1>1. Init => TypeOK /\ Progress /\ RootsShown BY InitHolds
<1>2. RootsShown => RootShown BY DEF RootsShown, RootShown, Local
<1> QED BY <1>1, <1>2, TypeInductive, ProgressInductive, RootInductive, PTL DEF Spec

\* "The last trace" is the one whose root started last: the list has a root's own start
\* for every trace whose root is stored, so no child's earlier row orders two of them.
THEOREM TraceLastIsNewest == ASSUME OneRoot PROVE Spec => []LastIsNewest
<1>1. Init => TypeOK /\ Progress /\ RootsShown BY InitHolds
<1>2. RootsShown => LastIsNewest
  <2> SUFFICES ASSUME RootsShown, cut = {}, {s \in Spans : pc[s] = "done"} = spans,
                      NEW t \in LastTraceIDs, NEW r \in spans, NEW q \in spans,
                      ParentOf[r] = None, ParentOf[q] = None, TraceOf[r] = t
               PROVE  start[q] <= start[r]
    BY DEF LastIsNewest
  <2>1. r \in Spans /\ pc[r] = "done" /\ q \in Spans /\ pc[q] = "done" OBVIOUS
  <2>2. summary[t] = Listing(r, start[r]) /\ summary[TraceOf[q]] = Listing(q, start[q])
    BY <2>1 DEF RootsShown
  <2>3. TraceOf[q] \in Traces /\ summary[TraceOf[q]].listed BY <2>1, <2>2 DEF Listing
  <2> QED BY <2>2, <2>3 DEF LastTraceIDs, Listing
<1> QED BY <1>1, <1>2, TypeInductive, ProgressInductive, RootInductive, PTL DEF Spec

\* The tree of a trace whose root is stored has no holes but those of failed inserts: what
\* is stored below the daemon's spans hangs on stored spans up to the root.
THEOREM TraceTreeShown == ASSUME OneLocalRoot PROVE Spec => []TreeShown
<1>1. Init => TypeOK /\ Progress /\ Ancestry /\ BelowRoot BY InitHolds
<1>2. TypeOK /\ Progress /\ Ancestry /\ BelowRoot => TreeShown
  <2> SUFFICES ASSUME TypeOK, Progress, Ancestry, BelowRoot,
                      NEW r \in Local, r \in spans, ParentOf[r] = None,
                      \A q \in Local : TraceOf[q] = TraceOf[r] /\ pc[q] = "done" => q \in spans,
                      NEW s \in GetTrace(spans, TraceOf[r]), ParentOf[s] \in Local \union {None}
               PROVE  s \in Shown(spans)
    BY DEF TreeShown
  <2> DEFINE Kept == {q \in Local : q \in spans /\ TraceOf[q] = TraceOf[r]}
  <2>1. s \in Spans /\ s \in spans /\ TraceOf[s] = TraceOf[r] /\ spans \subseteq Spans
    BY DEF GetTrace, TypeOK
  <2>2. pc[r] # "open" BY DEF Progress, Local
  <2>3. ASSUME NEW q \in Spans, q \in spans, TraceOf[q] = TraceOf[r], ParentOf[q] \in Local
        PROVE  ParentOf[q] \in Kept
    <3>1. ParentOf[q] \in Spans /\ ParentOf[q] # None BY <2>3 DEF Local
    <3>2. TraceOf[ParentOf[q]] = TraceOf[r] BY <2>3, <3>1
    <3>3. pc[q] # "none" BY <2>3 DEF Progress
    <3>4. pc[ParentOf[q]] # "none" BY <3>1, <3>3 DEF Ancestry
    <3>5. CASE ParentOf[q] = r BY <2>3, <3>5
    <3>6. CASE ParentOf[q] # r
      <4>1. pc[ParentOf[q]] \notin InFlight \union {"lost"} BY <2>2, <2>3, <3>2, <3>6 DEF BelowRoot
      <4>2. pc[ParentOf[q]] = "done" BY <3>1, <3>4, <4>1 DEF TypeOK, InFlight
      <4> QED BY <2>3, <3>2, <4>2
    <3> QED BY <3>5, <3>6
  <2>4. ASSUME NEW T \in SUBSET spans, \A q \in spans : ParentOf[q] \in T \union {None} => q \in T
        PROVE  s \in T
    <3>1. Kept \subseteq T
      <4>1. SUFFICES ASSUME Kept \ T # {} PROVE FALSE OBVIOUS
      <4>2. Kept \ T \in SUBSET (Spans \ Remote) BY DEF Local
      <4>3. PICK q \in Kept \ T : ParentOf[q] \notin Kept \ T BY <4>1, <4>2, ParentAssumption
      <4>4. ParentOf[q] \in Local \union {None} BY LocalParent
      <4>5. ParentOf[q] \in T \union {None} BY <2>1, <2>3, <4>3, <4>4
      <4> QED BY <2>4, <4>3, <4>5
    <3>2. ParentOf[s] \in Kept \union {None} BY <2>1, <2>3
    <3> QED BY <2>1, <2>4, <3>1, <3>2
  <2> HIDE DEF Kept
  <2> QED BY <2>1, <2>4 DEF Shown
<1> QED BY <1>1, <1>2, TypeInductive, ProgressInductive, AncestryInductive, BelowRootInductive, PTL
        DEF Spec

\* No remote span is in the file sink that is not in the store.
THEOREM TraceRemoteFile == Spec => []RemoteFileIsStored
<1>1. Init => TypeOK /\ Progress BY InitHolds
<1>2. TypeOK /\ Progress => RemoteFileIsStored
  BY DEF TypeOK, Progress, RemoteFileIsStored
<1> QED BY <1>1, <1>2, TypeInductive, ProgressInductive, PTL DEF Spec

=============================================================================
