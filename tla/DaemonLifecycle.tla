---------------------------- MODULE DaemonLifecycle ----------------------------
(***************************************************************************)
(* Daemons that come and go over one socket path and one data directory:   *)
(* "faraday daemon" (internal/cli/commands.go), Serve and the handlers of  *)
(* internal/daemon/daemon.go, Close of internal/core/engine.go, and the    *)
(* commands that call them through internal/api/client.go.                 *)
(*                                                                         *)
(* A request stands for what its handler does to the store, as two         *)
(* statements.  RunAgent and EvalRun drop the errors of theirs and go on,  *)
(* a span ingest (InsertSpan: the span, then its trace) reports them.      *)
(***************************************************************************)
CONSTANTS Daemons,    \* processes, each started once
          Requests,
          Ingests,    \* requests POST /api/spans; the others run an agent or a suite
          None

ASSUME DaemonAssumption == None \notin Daemons /\ Ingests \subseteq Requests

VARIABLES
  pc,      \* per daemon: its place in the command and in Serve
  path,    \* the daemon whose socket file is at the socket path, or None
  on,      \* per request: the daemon that accepted it, or None
  state,   \* per request: "new"; "run", "half", "recorded", "failed" in its handler; what
           \* the client is told in the end: "ok", "error" or "down" (ErrDaemonDown)
  stored,  \* per request: those of its statements whose rows are in the database
  hasty,   \* history: daemons that went on to Close before their handlers had ended
  faulty,  \* history: requests for which a statement failed on the open store
  overlap  \* history: a daemon was started before an earlier one had exited

vars == <<pc, path, on, state, stored, hasty, faulty, overlap>>

Init ==
  /\ pc = [d \in Daemons |-> "new"]
  /\ path = None
  /\ on = [q \in Requests |-> None]
  /\ state = [q \in Requests |-> "new"]
  /\ stored = [q \in Requests |-> {}]
  /\ hasty = {} /\ faulty = {} /\ overlap = FALSE

Goto(d, l) == pc' = [pc EXCEPT ![d] = l]

\* The requests whose handlers run in d.
Active(d) ==
  {q \in Requests : on[q] = d /\ state[q] \in {"run", "half", "recorded", "failed"}}

Gone(d) == pc[d] \in {"new", "exited"}

-----------------------------------------------------------------------------
(* The command.                                                             *)

\* The engine is built: store, telemetry, backends, pool.
Launch(d) ==
  /\ pc[d] = "new"
  /\ overlap' = (overlap \/ \E e \in Daemons : ~Gone(e))
  /\ Goto(d, "built")
  /\ UNCHANGED <<path, on, state, stored, hasty, faulty>>

\* Deliberate error used as a mutant: Serve leaves an old socket file alone.
RemoveSocket_Skip(d) ==
  /\ pc[d] = "built"
  /\ Goto(d, "removed")
  /\ UNCHANGED <<path, on, state, stored, hasty, faulty, overlap>>

\* os.Remove(d.socketPath), whoever made it.
RemoveSocket(d) ==
  /\ pc[d] = "built"
  /\ path' = None
  /\ Goto(d, "removed")
  /\ UNCHANGED <<on, state, stored, hasty, faulty, overlap>>

Listen(d) ==
  /\ pc[d] = "removed" /\ path = None
  /\ path' = d
  /\ Goto(d, "up")
  /\ UNCHANGED <<on, state, stored, hasty, faulty, overlap>>

\* The path is taken, and Serve returns the error.
ListenFails(d) ==
  /\ pc[d] = "removed" /\ path # None
  /\ Goto(d, "refused")
  /\ UNCHANGED <<path, on, state, stored, hasty, faulty, overlap>>

\* The optional TCP address is taken, or a listener fails: Serve returns without
\* Shutdown; the handlers that run go on, and the other listener accepts more.
ServeFails(d) ==
  /\ pc[d] = "up"
  /\ hasty' = hasty \union {d}
  /\ Goto(d, "returned")
  /\ UNCHANGED <<path, on, state, stored, faulty, overlap>>

\* The signal: Shutdown closes the listener, which unlinks the socket path.
Shutdown(d) ==
  /\ pc[d] = "up"
  /\ path' = None
  /\ Goto(d, "drain")
  /\ UNCHANGED <<on, state, stored, hasty, faulty, overlap>>

\* Deliberate error used as a mutant: the server is closed and not shut down.
Drained_NoWait(d) ==
  /\ pc[d] = "drain"
  /\ Goto(d, "drained")
  /\ UNCHANGED <<path, on, state, stored, hasty, faulty, overlap>>

\* Shutdown returns when no handler runs ...
Drained(d) ==
  /\ pc[d] = "drain" /\ Active(d) = {}
  /\ Goto(d, "drained")
  /\ UNCHANGED <<path, on, state, stored, hasty, faulty, overlap>>

\* Deliberate error used as a mutant: Shutdown is given a context with no deadline.
DrainTimeout_Never(d) ==
  /\ pc[d] = "drain" /\ Active(d) = {}
  /\ hasty' = hasty \union {d}
  /\ Goto(d, "drained")
  /\ UNCHANGED <<path, on, state, stored, faulty, overlap>>

\* ... or after 5 seconds.
DrainTimeout(d) ==
  /\ pc[d] = "drain" /\ Active(d) # {}
  /\ hasty' = hasty \union {d}
  /\ Goto(d, "drained")
  /\ UNCHANGED <<path, on, state, stored, faulty, overlap>>

\* os.Remove(d.socketPath) again, and Serve returns.
Unlink(d) ==
  /\ pc[d] = "drained"
  /\ path' = None
  /\ Goto(d, "returned")
  /\ UNCHANGED <<on, state, stored, hasty, faulty, overlap>>

\* The deferred eng.Close: pool, trace file and store.
CloseEngine(d) ==
  /\ pc[d] \in {"returned", "refused"}
  /\ Goto(d, "closed")
  /\ UNCHANGED <<path, on, state, stored, hasty, faulty, overlap>>

\* The process ends, and its handlers and connections with it.
Dies(d) ==
  /\ Goto(d, "exited")
  /\ state' = [q \in Requests |-> IF q \in Active(d) THEN "down" ELSE state[q]]
  /\ UNCHANGED <<path, on, stored, hasty, faulty, overlap>>

Exit(d) == pc[d] = "closed" /\ Dies(d)

\* A crash: the socket file stays.
Crash(d) == ~Gone(d) /\ pc[d] # "closed" /\ Dies(d)

-----------------------------------------------------------------------------
(* Requests.                                                                *)

\* eng.Close has not closed the database.
StoreOpen(d) == pc[d] \in {"up", "drain", "drained", "returned"}

\* A listener takes a request: until it is closed, even after Serve has returned on the
\* failure of the other one.
Listening == path # None /\ pc[path] \in {"up", "returned", "closed"}

Accept(q) ==
  /\ state[q] = "new" /\ Listening
  /\ on' = [on EXCEPT ![q] = path]
  /\ state' = [state EXCEPT ![q] = "run"]
  /\ UNCHANGED <<pc, path, stored, hasty, faulty, overlap>>

\* Nobody listens at the socket path.
Unreached(q) ==
  /\ state[q] = "new" /\ ~Listening
  /\ state' = [state EXCEPT ![q] = "down"]
  /\ UNCHANGED <<pc, path, on, stored, hasty, faulty, overlap>>

\* The first statement of the handler or, after it, the second.
Statement(q) == IF state[q] = "run" THEN 1 ELSE 2
Onward(q)    == IF state[q] = "run" THEN "half" ELSE "recorded"

\* A statement of the handler puts its rows into the database.
Insert(q) ==
  /\ state[q] \in {"run", "half"} /\ StoreOpen(on[q])
  /\ stored' = [stored EXCEPT ![q] = @ \union {Statement(q)}]
  /\ state' = [state EXCEPT ![q] = Onward(q)]
  /\ UNCHANGED <<pc, path, on, hasty, faulty, overlap>>

\* It fails, as it always does once the store is closed: InsertSpan returns the error to
\* the ingest, everyone else goes on.
InsertFails(q) ==
  /\ state[q] \in {"run", "half"}
  /\ faulty' = IF StoreOpen(on[q]) THEN faulty \union {q} ELSE faulty
  /\ state' = [state EXCEPT ![q] = IF q \in Ingests THEN "failed" ELSE Onward(q)]
  /\ UNCHANGED <<pc, path, on, stored, hasty, overlap>>

\* The answer: only an ingest tells that its write failed.
Answer(q) ==
  /\ state[q] \in {"recorded", "failed"}
  /\ state' = [state EXCEPT ![q] = IF @ = "failed" THEN "error" ELSE "ok"]
  /\ UNCHANGED <<pc, path, on, stored, hasty, faulty, overlap>>

\* The client has not waited: its 30 minutes were over while the handler ran, and do
\* returns ErrDaemonDown as well.
AnswerLate(q) ==
  /\ state[q] \in {"recorded", "failed"}
  /\ state' = [state EXCEPT ![q] = "down"]
  /\ UNCHANGED <<pc, path, on, stored, hasty, faulty, overlap>>

DaemonStep(d) ==
  \/ RemoveSocket(d) \/ Listen(d) \/ ListenFails(d)
  \/ Drained(d) \/ DrainTimeout(d) \/ Unlink(d) \/ CloseEngine(d) \/ Exit(d)

Next ==
  \/ \E d \in Daemons : DaemonStep(d) \/ Launch(d) \/ ServeFails(d) \/ Shutdown(d) \/ Crash(d)
  \/ \E q \in Requests : \/ Accept(q) \/ Unreached(q)
                         \/ Insert(q) \/ InsertFails(q) \/ Answer(q) \/ AnswerLate(q)

Spec == Init /\ [][Next]_vars

\* The main goroutine runs and the timer fires; no handler has to end.
FairSpec == Spec /\ \A d \in Daemons : WF_vars(DaemonStep(d))

-----------------------------------------------------------------------------
(* Properties.                                                              *)

TypeOK ==
  /\ pc \in [Daemons -> {"new", "built", "removed", "up", "drain", "drained", "returned",
                         "refused", "closed", "exited"}]
  /\ path \in Daemons \union {None} /\ on \in [Requests -> Daemons \union {None}]
  /\ state \in [Requests -> {"new", "run", "half", "recorded", "failed",
                            "ok", "error", "down"}]
  /\ stored \in [Requests -> SUBSET {1, 2}]
  /\ hasty \subseteq Daemons /\ faulty \subseteq Requests /\ overlap \in BOOLEAN

\* While no two daemons have overlapped they find the path free, whatever an earlier one that
\* crashed or failed left there, and the one that runs is the one clients reach.
Reachable ==
  ~overlap => \A d \in Daemons : pc[d] # "refused" /\ (pc[d] = "up" => path = d)

\* A statement of q may have failed: one did on the open store, or the daemon closed the
\* store with handlers running (Shutdown timed out, or a listener failed).
Excused(q) == q \in faulty \/ on[q] \in hasty

\* What a client is told is so, across every stop, crash and restart: "ok" of an ingest
\* means that the span and its trace are in the database, and "ok" of a run or a suite
\* that its records are unless a statement failed; an ingest is refused only if one did,
\* and then its span is not listed under its trace by this request.
AnsweredIsStored ==
  \A q \in Requests :
    /\ state[q] = "ok" => stored[q] = {1, 2} \/ (q \notin Ingests /\ Excused(q))
    /\ state[q] = "error" => q \in Ingests /\ Excused(q) /\ 2 \notin stored[q]

\* A daemon told to stop exits, handlers or not.
Stops == \A d \in Daemons : pc[d] = "drain" ~> pc[d] = "exited"

-----------------------------------------------------------------------------
(* Statements of the documentation that the code does not keep (README,     *)
(* "Divergences").  They are no part of what the runs check.                *)

\* engine-daemon spec:27-28 "WHEN the daemon is running and `faraday version` is invoked
\* THEN the CLI connects over the Unix socket" (contradicted when a daemon is started
\* while another drains: the second removal of the socket takes the new one's).
RunningIsReachable == \A d \in Daemons : pc[d] = "up" => path = d

\* engine-daemon spec:64 "SHALL persist all daemon state" (contradicted: a handler that
\* outlives Shutdown's 5 seconds, or has a statement fail, answers "ok" all the same).
AllPersisted == \A q \in Requests : state[q] = "ok" => stored[q] = {1, 2}

\* client.go:38 "ErrDaemonDown indicates the daemon socket is unreachable" (contradicted: the
\* client's timeout and a connection that ends are reported as it, though the run was made
\* and is in the database).
DownMeansUnreached == \A q \in Requests : state[q] = "down" => on[q] = None

=============================================================================
