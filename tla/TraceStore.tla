------------------------------ MODULE TraceStore ------------------------------
(***************************************************************************)
(* Spans from Start to the sinks: internal/telemetry (Start, End,          *)
(* IngestRemote) over the tables spans and traces of internal/store        *)
(* (InsertSpan, ListTraces, LastTraceID, GetTrace).                        *)
(*                                                                         *)
(* A local span is made by the daemon; it ends after its local children,   *)
(* because every caller ends it by defer or before it returns.  A remote   *)
(* span is posted once to /api/spans by a Python service, which drops it   *)
(* on any error.  InsertSpan is two statements, not one transaction.       *)
(***************************************************************************)
EXTENDS Integers

CONSTANTS Spans,     \* spans of the run
          Remote,    \* those a Python service emits
          Traces,    \* trace ids
          TraceOf,   \* the trace of each span
          ParentOf,  \* its parent span, or None (parent_id is empty)
          None

ASSUME TraceAssumption ==
  /\ Remote \subseteq Spans
  /\ None \notin Spans
  /\ TraceOf \in [Spans -> Traces]
  /\ ParentOf \in [Spans -> Spans \union {None}]
  /\ \A s \in Spans : ParentOf[s] # None => TraceOf[ParentOf[s]] = TraceOf[s]

\* Start takes the parent from its context, where only the daemon puts spans, and gives the
\* span an id nothing refers to yet: no span of the daemon is below one of a service, and
\* none of them is its own ancestor.  A service may post any parent_id.
ASSUME ParentAssumption ==
  /\ \A s \in Spans \ Remote : ParentOf[s] \notin Remote
  /\ \A S \in SUBSET (Spans \ Remote) : S # {} => \E s \in S : ParentOf[s] \notin S

VARIABLES
  clock,    \* wall clock, in nanoseconds
  start,    \* per span: start_unix_nano
  pc,       \* per span: "none", "open", "row", "summary", "file", "done", "lost"
  spans,    \* table spans
  summary,  \* table traces, per trace: listed (there is a row), root, start
  file,     \* spans in the JSON-lines sink
  cut       \* history: spans whose InsertSpan ended after the first statement

vars == <<clock, start, pc, spans, summary, file, cut>>

Local == Spans \ Remote

Goto(s, l) == pc' = [pc EXCEPT ![s] = l]

\* The next step of a span whose statement failed: End goes on to the file,
\* IngestRemote returns the error and the service drops the span.
AfterError(s) == IF s \in Remote THEN "lost" ELSE "file"

Unlisted == [listed |-> FALSE, root |-> None, start |-> 0]

Init ==
  /\ clock = 0
  /\ start = [s \in Spans |-> 0]
  /\ pc = [s \in Spans |-> "none"]
  /\ spans = {} /\ file = {} /\ cut = {}
  /\ summary = [t \in Traces |-> Unlisted]

\* Start takes the time; two spans may get the same one.  A local child is
\* started with the context of a parent that is still open; a remote child is
\* given the id of a parent that was started.
Start(s) ==
  /\ pc[s] = "none"
  /\ ParentOf[s] # None => pc[ParentOf[s]] # "none"
  /\ ParentOf[s] # None /\ s \in Local => pc[ParentOf[s]] = "open"
  /\ clock' \in {clock, clock + 1}
  /\ start' = [start EXCEPT ![s] = clock']
  /\ Goto(s, "open")
  /\ UNCHANGED <<spans, summary, file, cut>>

\* Deliberate error used as a mutant: a span ends while its children are open.
End_Early(s) ==
  /\ pc[s] = "open" /\ Goto(s, "row")
  /\ UNCHANGED <<clock, start, spans, summary, file, cut>>

\* End, or the arrival of the POST.
End(s) ==
  /\ pc[s] = "open"
  /\ s \in Local => \A c \in Local : ParentOf[c] = s => pc[c] \in {"none", "done"}
  /\ Goto(s, "row")
  /\ UNCHANGED <<clock, start, spans, summary, file, cut>>

\* The POST never reaches a daemon.
Undelivered(s) ==
  /\ s \in Remote /\ pc[s] = "open"
  /\ Goto(s, "lost")
  /\ UNCHANGED <<clock, start, spans, summary, file, cut>>

\* INSERT OR REPLACE INTO spans
WriteRow(s) ==
  /\ pc[s] = "row"
  /\ spans' = spans \union {s}
  /\ Goto(s, "summary")
  /\ UNCHANGED <<clock, start, summary, file, cut>>

RowFails(s) ==
  /\ pc[s] = "row"
  /\ Goto(s, AfterError(s))
  /\ UNCHANGED <<clock, start, spans, summary, file, cut>>

Listing(r, n) == [listed |-> TRUE, root |-> r, start |-> n]

\* Deliberate errors used as mutants: a child overwrites the row; the upsert of
\* the root keeps the start of the child that came first; the upsert is an UPDATE.
Upserted_Child(s, row) == Listing(IF ParentOf[s] = None THEN s ELSE None, start[s])
Upserted_Start(s, row) ==
  IF ParentOf[s] = None
  THEN Listing(s, IF row.listed THEN row.start ELSE start[s])
  ELSE IF row.listed THEN row ELSE Listing(None, start[s])
Upserted_Update(s, row) ==
  IF ParentOf[s] = None
  THEN IF row.listed THEN Listing(s, start[s]) ELSE row
  ELSE IF row.listed THEN row ELSE Listing(None, start[s])

\* The row of s's trace after the upsert: DO UPDATE for a span with no parent,
\* an empty root name and DO NOTHING for a child.
Upserted(s, row) ==
  IF ParentOf[s] = None THEN Listing(s, start[s])
  ELSE IF row.listed THEN row ELSE Listing(None, start[s])

WriteSummary(s) ==
  /\ pc[s] = "summary"
  /\ summary' = [summary EXCEPT ![TraceOf[s]] = Upserted(s, summary[TraceOf[s]])]
  /\ Goto(s, "file")
  /\ UNCHANGED <<clock, start, spans, file, cut>>

SummaryFails(s) ==
  /\ pc[s] = "summary"
  /\ cut' = cut \union {s}
  /\ Goto(s, AfterError(s))
  /\ UNCHANGED <<clock, start, spans, summary, file>>

\* One line appended under Tracer.mu; a write error is dropped.
WriteFile(s) ==
  /\ pc[s] = "file"
  /\ file' \in {file, file \union {s}}
  /\ Goto(s, "done")
  /\ UNCHANGED <<clock, start, spans, summary, cut>>

Inside == {s \in Spans : pc[s] \in {"row", "summary", "file"}
                         \/ (s \in Local /\ pc[s] = "open")}

\* The daemon dies and is started again: what was in its memory is gone, what
\* the two tables and the file hold stays.
Crash ==
  /\ Inside # {}
  /\ cut' = cut \union {s \in Inside : pc[s] = "summary"}
  /\ pc' = [s \in Spans |-> IF s \in Inside THEN "lost" ELSE pc[s]]
  /\ UNCHANGED <<clock, start, spans, summary, file>>

Next ==
  \/ \E s \in Spans : \/ Start(s) \/ End(s) \/ Undelivered(s)
                      \/ WriteRow(s) \/ RowFails(s)
                      \/ WriteSummary(s) \/ SummaryFails(s) \/ WriteFile(s)
  \/ Crash

Spec == Init /\ [][Next]_vars

-----------------------------------------------------------------------------
(* The queries.                                                             *)

\* GetTrace: the stored spans of a trace (the parameter S is the table).
GetTrace(S, t) == {s \in S : TraceOf[s] = t}

\* LastTraceID: ORDER BY start_unix_nano DESC LIMIT 1; ties go either way.
LastTraceIDs ==
  {t \in Traces : summary[t].listed
     /\ \A u \in Traces : summary[u].listed => summary[u].start <= summary[t].start}

\* renderSpanTree prints what it reaches from a stored span with no parent: what is in every
\* set that has the roots and, with a span, its children.
Shown(S) ==
  {s \in S : \A T \in SUBSET S :
               (\A q \in S : ParentOf[q] \in T \union {None} => q \in T) => s \in T}

-----------------------------------------------------------------------------
(* Properties.                                                              *)

\* The variables hold values of their types, and a row has a start some span took.
TypeOK ==
  /\ clock \in Nat
  /\ start \in [Spans -> 0..clock]
  /\ pc \in [Spans -> {"none", "open", "row", "summary", "file", "done", "lost"}]
  /\ spans \in SUBSET Spans /\ file \in SUBSET Spans /\ cut \in SUBSET Spans
  /\ summary \in [Traces -> [listed : BOOLEAN, root : Spans \union {None}, start : 0..clock]]

\* One span per trace has no parent.
OneRoot == \A r, s \in Spans : /\ ParentOf[r] = None /\ ParentOf[s] = None
                               /\ TraceOf[r] = TraceOf[s]
                               => r = s

\* So has the daemon, whatever a service that is given no parent posts.
OneLocalRoot == \A r, s \in Local : /\ ParentOf[r] = None /\ ParentOf[s] = None
                                    /\ TraceOf[r] = TraceOf[s]
                                    => r = s

\* The trace list shows a trace exactly when one of its spans is stored, except
\* while InsertSpan is between its two statements or was cut there.
ListedIffStored ==
  \A t \in Traces :
    /\ summary[t].listed => GetTrace(spans, t) # {}
    /\ \A s \in GetTrace(spans, t) :
         summary[t].listed \/ pc[s] = "summary" \/ s \in cut

\* Whatever the order in which spans end, arrive or fail, once the span that
\* opened the trace went through InsertSpan the list shows its name and its start
\* ("root span is the one with no parent", store.go:148).
RootShown ==
  \A r \in Local :
    ParentOf[r] = None /\ r \in spans /\ pc[r] # "summary" /\ r \notin cut
    => summary[TraceOf[r]] = Listing(r, start[r])

Quiet == \A s \in Spans : pc[s] \in {"none", "done"}

\* When every span begun is stored and its trace upserted, LastTraceID gives the trace whose
\* root started last, however the children's earlier rows ordered the traces.
LastIsNewest ==
  Quiet /\ cut = {} /\ {s \in Spans : pc[s] = "done"} = spans =>
    \A t \in LastTraceIDs, r, q \in spans :
      ParentOf[r] = None /\ ParentOf[q] = None /\ TraceOf[r] = t => start[q] <= start[r]

\* Once the root of a trace is stored, renderSpanTree prints every stored span of it
\* below the daemon's own spans: neither a crash nor a late child makes a hole in the
\* tree, only a failed insert of a span, whose error End drops.
TreeShown ==
  \A r \in Local \intersect spans :
    /\ ParentOf[r] = None
    /\ \A q \in Local : TraceOf[q] = TraceOf[r] /\ pc[q] = "done" => q \in spans
    => \A s \in GetTrace(spans, TraceOf[r]) :
         ParentOf[s] \in Local \union {None} => s \in Shown(spans)

\* A remote span is in the file sink only if it is in the store: IngestRemote
\* returns before the file when InsertSpan fails.
RemoteFileIsStored == file \intersect Remote \subseteq spans \ cut

-----------------------------------------------------------------------------
(* Statements of the documentation that the code does not keep (README,     *)
(* "Divergences").  They are no part of what the runs check.                *)

\* spec telemetry:56 "showing the full span tree for a given trace" (contradicted:
\* after a crash in the middle of a run its ended spans are stored, and none is
\* printed because their root never ended).
FullTreeShown == Inside = {} => Shown(spans) = spans

-----------------------------------------------------------------------------
(* The inductive invariant behind ListedIffStored, RootShown and             *)
(* RemoteFileIsStored.                                                       *)

\* Where a span can be in its way through InsertSpan.
Progress ==
  /\ \A s \in Spans : pc[s] \in {"none", "open", "row"} => s \notin spans \union cut
  /\ \A s \in Spans : pc[s] = "summary" => s \in spans \ cut
  /\ file \subseteq {s \in Spans : pc[s] = "done"}
  /\ \A s \in Remote : pc[s] \in {"file", "done"} => s \in spans \ cut
  /\ cut \subseteq spans

TraceInv == TypeOK /\ Progress /\ ListedIffStored /\ RootShown

\* RootShown for every root, of the daemon or of a service.
RootsShown ==
  \A r \in Spans :
    ParentOf[r] = None /\ r \in spans /\ pc[r] # "summary" /\ r \notin cut
    => summary[TraceOf[r]] = Listing(r, start[r])

\* A span starts below one that was started; a local one is on its way only while its
\* parent is open.  So everything below a root is at rest when the root is no longer
\* open, and what a crash took from below it the crash took from the root as well.
InFlight == {"open", "row", "summary", "file"}

Ancestry ==
  /\ \A s \in Spans : pc[s] # "none" /\ ParentOf[s] # None => pc[ParentOf[s]] # "none"
  /\ \A s \in Local : pc[s] \in InFlight /\ ParentOf[s] # None => pc[ParentOf[s]] = "open"

BelowRoot ==
  \A r, s \in Local : ParentOf[r] = None /\ TraceOf[s] = TraceOf[r] /\ s # r =>
    /\ pc[s] \in InFlight => pc[r] = "open"
    /\ pc[s] = "lost" => pc[r] = "lost" /\ r \notin spans

=============================================================================
