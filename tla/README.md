# A TLA+ development of Faraday (open-stack-AI)

Faraday is a single Go daemon that runs AI agents on one host: it routes chat
completions to model backends, lets agents run generated code in sandboxes,
evaluates agents against datasets, records spans and a hash-chained audit log in
SQLite, and packs evidence and air-gap bundles. The modules in this directory
model its core in TLA+; TLC checks them on small instances, and TLAPS proves the
theorems of all of them for every value of the constants. Everything is
translated from the source under `src/`; paths below are relative to
`src/internal/` unless they begin with another directory.

`PROJECT.json` lists which definition stands for which lines, the runs, the
hazards with the properties that watch them, and for each checked property a
*mutant*: a plausible bug (an operator next to the one it replaces, marked
"Deliberate error used as a mutant") under which the property fails.

## 1. The system

### Components, state and interactions

| Component | State it keeps | Operations | Talks to |
|---|---|---|---|
| Sandbox pool, `runtime/pool/pool.go` | `all`, `closed` under `p.mu`; the buffered channel `ready` | New, Acquire, Release, replenish (a goroutine), Close | driver; called by the tool broker, closed by the engine |
| Sandbox drivers, `runtime/sandbox/` | a directory per sandbox; the processes in it | New, Exec, Reset, Destroy | the operating system |
| Tool broker, `mcp/` | the tool table (fixed after start), `callN` | Call with code_exec and run_tests | pool, tracer |
| Agent loop, `runtime/agent.go` | none between runs; lastFailure and the iteration in a run | Run, verify | router (generator), broker, tracer |
| Inference router, `inference/` | the backend table (fixed after start) | the two HTTP handlers, resolve, ChatCompletion, mock and proxy | backends, tracer |
| Telemetry, `telemetry/` | the file sink | Start, End, IngestRemote | store |
| Store, `store/store.go` | tables spans, traces, audit_log, eval_runs, eval_results, models, kv; `mu` for the audit chain | one method per statement or pair of statements | SQLite |
| Eval suites, `eval/` | none between runs | RunSuite, passAtK, CheckRegression | agent loop or router, store |
| Engine, `core/engine.go` | owns store, tracer, backends, pool | New, RunAgent, EvalRun, BuildEvidence, Close | everything above |
| Daemon, `daemon/daemon.go` | a Unix socket at a path, an HTTP server | Serve, one handler per route, Shutdown | engine |
| Evidence bundle, `evidence/` | `evidence.key`, the archive | Build, Verify | store |
| Air-gap bundle, `bundle/`, `cli/bundle.go` | `bundle.key`, the archive with lock and manifest, the destination | Create, Verify, Install | file system |
| Configuration, `config/` | none | Parse, ApplyDefaults, Validate | read by the engine and the provisioner |
| Provisioner, `provision/` | none | Select, Up, Down | configuration, sandbox drivers |
| API client, `api/` | none | one request per command | daemon |
| Python services, `src/pyservices/` | none | agent loop, judge, inference stub; post spans | daemon's API |
| CLI, license, enterprise hook, version | none | one request or one computation per command | API client |

A request goes daemon → engine → (agent loop → router, broker → pool → sandbox)
and leaves spans, audit entries and eval rows in the store. Every HTTP handler is
a goroutine, so all of this runs concurrently; refills of the pool are goroutines
of their own.

### What is hard here

* **Concurrency**: Acquire, Release, replenish and Close of the pool look at
  `closed` under a lock and touch the channel without it; audit appends are a read
  followed by an insert; the report of an evidence bundle reads three tables one
  after the other while eval runs fill them; two builds share the key file and
  perhaps the path; `callN++` has no lock; daemons that start and stop share one
  socket path, and two that run share one database.
* **Partial failure**: statements fail between two that belong together
  (InsertSpan, RunSuite), Reset, Destroy and driver.New fail, a start fails half-way, an
  install stops after some files, the end of an archive is written by a deferred
  Close whose error nobody sees. Many errors are dropped: those of Destroy, of every
  insert but a span ingest's, of writing a key, of Chmod.
* **Crash and restart**: a daemon dies with requests in it and leaves its socket
  file, spans without a root, results without a run, an empty key file.
* **Timeouts**: the sandbox's deadline races the command's own end, Shutdown
  gives up after five seconds, and a client gives up on a run that goes on. Times of
  eval runs are read before their rows are inserted, from a clock that may be set back.
* **Ordering**: children's spans are stored before their root's; the failover
  order sorts by weight; defaults depend on each other.
* **Boundaries**: the channel's capacity, the repair limit, k = n in pass@k, the
  100-row limit of the report.

`PROJECT.json`, "hazards", has each at its line with the properties aimed at it.

### What makes each part correct

Pool: a sandbox has one user at a time, is usable when handed out, is accounted
for, and is gone after Close. Audit log: what the daemon writes verifies, what
anybody else changes does not. Traces: the list matches the spans, with the name
and the start of the root. Router: every usable backend, in order, before an error.
Agent: the status says what happened and no exit keeps a sandbox or a span. Eval:
pass@k is the unbiased estimator, the recorded metric follows from the rows, the
gate from the metric. Sandbox: Exec tells the truth, ends, and Reset cleans.
Daemon: reachable while running, answered means stored, a stop stops. Evidence:
complete and verifiable. Air gap: what is installed is what was packed. Start: all
or nothing, and a started engine can serve its agents.

## 2. The modules

`X` is the model, `MCX` the TLC instance (constants that are functions), and
`XProofs` the theorems (section 4 says where those of `EvalRun`, `SandboxExec` and
`Startup` are; the specifications of these three carry a prefix, `EvalSpec`, `ExecSpec`,
`StartupSpec`, so that a module can extend two of them).

| Module | Models | State ↔ code |
|---|---|---|
| `SandboxPool` | pool.go with `runInSandbox` as client; a step lies between two points at which another goroutine may run | `ready` the channel's buffer, `all`/`closer` the fields `all`/`closed` and Close's progress, `pc`, `held` a goroutine's next step and its `sb`, `disk` the directories, `undeleted` (history) those a Destroy failed to remove |
| `PoolContract` | what the pool promises: it lends | `idle`, `lent`, `retired`; SandboxPool refines it |
| `AuditChain` | AppendAudit, VerifyAuditChain, auditHash, in one or several daemons | `log` the table, `mu` one mutex per daemon, `pc`, `event`, `prev` the call's locals; `overtaken`, `forks` (history) whose read another daemon's insert made stale |
| `TraceStore` | Start, End, InsertSpan's two statements, IngestRemote, ListTraces, LastTraceID, renderSpanTree | `spans`, `summary` the tables, `file` the sink, `pc` a span's way through |
| `Router` | the two HTTP handlers, resolve, ChatCompletion, the mock, proxies, callers that leave | `route` the configuration, `call` the request, `cand`, `depth` the loop, `gone` its context, `chat`, `span`, `reply` what is emitted |
| `AgentRun` | Run and verify over Call, codeExec, runTests, runInSandbox; the pool is PoolContract | `iter`, `failure`, `result` the locals, `open`, `edges` the spans, `callN`, `reg` the unlocked increment |
| `EvalRun` | RunSuite for its three kinds with checks and judge, thresholds, its two tables, the CI gate, the answer and the exit code | `ids` the dataset, `mins` the thresholds, `rows`, `runs` the tables, `sample`, `correct`, `sum` the counters |
| `SandboxExec` | Exec and Reset of the local driver, and the processes left behind | `ctx` the deadline, `pipes` who holds the output, `dir` whose files are there |
| `DaemonLifecycle` | the daemon command, Serve, Shutdown, Engine.Close, requests and the client's view of them; several daemons in time | `path` the socket file, `pc`, `state` daemons and requests, `stored` the database: which of a request's two statements; `faulty`, `hasty` (history) what failed, who closed the store early |
| `EvidenceBundle` | Build and Verify beside eval runs and other builds, to one path or several | `list`, `got`, `audit` what a build has read, `started` the times of the runs, `keyFile`, `file` the disk; `clashed`, `rekeyed` (history) who overlapped or misread the key, `flaws`, `lostRows`, `lostRun` (history) whose errors were dropped |
| `AirgapBundle` | `bundle create` from its arguments to the archive, verifyFiles, Install, damage, interrupted creates and installs | `keyFile` the key, `files`, `lock`, `manifest`, `archive` the bundle, `dest` the target; what a source holds is what a read of it gives; `unmoded` (history) what Chmod failed on |
| `Startup` | Parse, ApplyDefaults, Validate, `faraday up`, core.New and Close | `raw`, `cfg` the configuration, `host` what the host has, `open`, `boxes` what is held, `left` (history) sandboxes a Destroy failed on |

How they fit together: `AgentRun` instantiates `PoolContract`, so what it shows
rests on what `SandboxPool` implements (theorem `PoolRefines`). The generator in
`AgentRun` answers or fails, which is all `Router` gives. `SandboxExec` justifies
the step "Exec returns" of the other two. `TraceStore` takes local spans to end
inside their parents, which is `AgentRun`'s `SpansNested`. `EvidenceBundle`'s eval
runs insert rows first and the run last, as `EvalRun` has it, and its audit log is
that of `AuditChain`. `Startup` covers the configuration that all of them take for granted.

What is abstracted in all: texts (prompts, outputs, names of files) are reduced to
what decides a branch; SHA-256 is a function without collisions, represented by
what it commits to; ids are distinct; SQLite executes a statement atomically.
Variables marked "history" record what a property has to talk about and no guard
reads them.

## 3. The runs

Every run but `pool_close` must pass. States are distinct states.

| Run | Instance | States | What it asks |
|---|---|---|---|
| `pool` | 2 handlers, 3 sandbox ids, one of which cannot be removed, size 1 | 660 k | ExclusiveOwnership, LentIsAlive, OpenPoolAccounts, CloseReclaims, ImplementsContract, EventuallyWarm |
| `pool_close` | 1 handler, 3 ids, size 1 | – | CloseDestroysAll, **violated** (section 6) |
| `audit` | 2 daemons with 2 and 1 handlers, 3 rows, 2 events | 318 k | ChainIntact (only rows inserted over another daemon's append are accused), TamperingDetected (each alteration and removal at each place) |
| `trace` | a run with a child and a Python span, and a second trace | 516 k | ListedIffStored, RootShown, LastIsNewest, TreeShown |
| `router` | all routes of up to 3 entries over a mock and two proxies, weights -1, 0, 2; both endpoints and the runtime, three prompts | 300 k | FallbackOrder (ties included), ErrorMeansAllFailed, SpansTellStory, CallsReturn |
| `agent` | 2 runs, limits of 2 and 1 repairs, 2 sandboxes | 649 k | StatusTellsOutcome, FeedbackIsPrevious, SandboxOnlyInTool, SpansNested, CallIdsNumber, RunEnds |
| `eval` | 2 requests of any kind, 2 cases that may share an id, k = 2, n = 3, six suites: no threshold, one, two, one on a metric the run does not give, one of the kind nobody runs | 2.2 M | PassAtKIsEstimator, RowsExplainRun, GateFollowsRows |
| `exec` | 3 uses of one sandbox | 761 k | ResultIsHonest, StaleFilesHaveWriter, ExecReturns |
| `daemon` | 2 daemons, a run and an ingested span of two statements each, clients that give up | 178 k | Reachable, AnsweredIsStored, Stops |
| `evidence` | 2 builds, 2 paths, 2 evals of 1 case, 2 times, 1 dropped error, a report of 1 run | 5.3 M | ReportIsComplete, BundleCoversHistory, FreshVerifies, OneKey |
| `airgap` | 5 argument lists (two names of one path, the config's name twice, a reserved name), 2 contents, 3 modes (0 and 0644 among them), 2 keys | 3.5 M | InstalledIsPacked, IntactOnly |
| `startup` | some 3700 configurations around the empty one: who refers to whom, suites, one or two other sections set; every kind of host | 473 k | FailedStartIsClean, RunningResolves, DefaultsSettle |

Each property is stated in words above its definition. Every module but the contract
defines a `TypeOK` that can be added to its configuration and holds; it is left out of
the runs, and proved for all of them (section 4).

### Bounds, and why they are enough

* `pool`: two handlers and a refill are the smallest set in which one goroutine is
  overtaken by two others, and Close is the fourth. Size 1 lets one handler find the
  channel empty and come back with an on-demand sandbox to a channel that is full; the
  third id is for a refill. `Undeletable` holds the sandboxes whose Destroy may fail
  (pool.go drops its error in five places): one of three lets a failed and a successful
  one meet; the theorems are for any. (Size 2 with two handlers and three ids, 271 k
  states, passes as well but never meets the full channel.) The theorems remove the
  bounds for the safety properties.
* `audit`: two handlers of one daemon for its mutex, a third of another daemon that
  it does not stop; three rows have a first, a middle and a last. The theorems remove
  the bounds, that of the daemons included.
* `trace`: a local child, a remote child, a root and another trace are the four
  relations two spans can have.
* `router`: three entries give ties, a better entry behind a worse one, repeated
  models and a mock in any place. Requests share nothing, so one is enough; the
  theorems are for any number.
* `agent`: limits of 2 and 1 give a first attempt, a middle one and a last one; the
  theorems are for any runs and limits.
* `eval`: n = 3, k = 2 meets both branches of passAtK; `PassAtKIsEstimator` compares it
  for each k up to the number of samples at every point of a sample loop. Two cases, so
  that one can fail after one is stored and two can share an id.
  `Suites` are of every kind, with any number of thresholds; a threshold on a metric
  that the run does not give (a misspelt name, pass@5 where k is 2) passes Validate and
  fails every run.
* `exec`: three uses, so that a process left by the first can meet the third.
* `daemon`: two daemons, which overlap, or follow each other when the first has crashed
  or stopped (the theorems are for any number; with three TLC needs more than the five
  minutes a run may take). A request is two statements, InsertSpan's two or the first
  and the last of a run.
* `evidence`: two builds overlap in the key file, the tables and the path; two eval runs
  and a list of one (100 in the code), so that the list is full. `Times` are two readings of
  the clock, in any order; `MaxFlaws` bounds the dropped errors of an instance at one, so
  that each is met alone. The theorems are for any number of builds, runs, rows, times and
  dropped errors.
* `airgap`, `startup`: two of each value suffice, since values are only compared for
  equality (modes, sets of bits, also for being 0 and by what a umask takes away);
  failures can occur at every step. One thing is damaged on the way: an
  archive that was damaged once is refused whatever attempts follow.

`CHECK_DEADLOCK FALSE` is set in all of them: the calls, uses, daemons or builds
of an instance are finitely many, and when they are over the system rests.

### Fairness, and what in the code gives it

* `SandboxPool`: weak fairness of each goroutine's next step. Go's scheduler runs
  a goroutine that can run; a send into a channel with room, a lock and a driver
  call end. That a handler starts a call at all is not assumed; that Exec returns is.
* `AgentRun`: weak fairness of each run's steps: requests to backends have HTTP
  timeouts, Exec its deadline.
* `SandboxExec`: weak fairness of the deadline's timer, of starting the process, of
  the kill and of `cmd.Run` once it can return. Nothing is assumed of the processes.
  `ExecReturns` therefore has its second disjunct: a process the command left
  behind may keep the pipes for ever, and that is the only thing that can keep Exec.
  The two assumptions above hold where that does not happen.
* `DaemonLifecycle`: weak fairness of each daemon's own steps, the five-second timer
  of Shutdown included; nothing of handlers, which is why `Stops` says something.

* `Router`: weak fairness of each request's next step: a goroutine that can run does, a
  mock answers at once, and a proxy's call ends with its answer or with the client's
  timeout of 120 seconds (inference/backend.go:116). Callers may leave or stay.

The other modules check safety only.

## 4. What is proved

All proofs are checked by `tlapm` (Z3, Zenon, LS4), to the last leaf. What they assume
of the constants are the named ASSUMEs of the modules and nothing else, except where a
hypothesis is named below. Every invariant that a run checks is a theorem, and so is the
refinement of the pool's contract. Types are proved for every model (`TypeCorrect`,
`AuditTypeCorrect`, `TraceTypeCorrect`, `RouterTypeCorrect`, `AgentTypeCorrect`,
`EvalTypeCorrect`, `ExecTypeCorrect`, `DaemonTypeCorrect`, `EvidenceTypeCorrect`,
`AirgapTypeCorrect`, `StartupTypeCorrect`).

### The pool (`SandboxPoolProofs`)

For any set of handlers, any set of sandbox ids and any size (below 1 included),
`ExclusiveOwnership`, `LentIsAlive`, `OpenPoolAccounts` and `CloseReclaims` are
invariants, and the pool implements `PoolContract`.

The inductive invariant is `PoolInv`. The properties are not inductive by
themselves: that Release cannot put a sandbox into the channel twice needs that a
goroutine with a sandbox is at a step where it has one (`HandsFull`), that
goroutines in between have none and that a sandbox whose refill was spawned is
nowhere any more (`Origins`); `LentIsAlive` needs the step at which the directory
is gone (`Directories`); `CloseReclaims` needs who is responsible for a directory
that exists after Close took the map (`ClosingCovers`, `DoneIsDone`). One lemma per
part (`TypeInductive`, `OwnershipInductive`, `DirectoriesInductive`,
`AccountingInductive`, `ClosingInductive`) goes through the actions; `PoolRefines`
maps each action to a step of the contract or a stutter (`StepRefines`), with the
sandboxes "in making" invisible to clients until they are handed out.

### One sandbox over its uses (`SandboxPoolProofs`, second part)

For any number of uses: `ResultIsHonest` and `StaleFilesHaveWriter`, which are inductive
with two more parts. `OneMain`: the main process of a use is alive between its start and
the return of Exec only, and a child of it only if the command forked one. `Leftovers`:
while Reset works through its listing, a file outside of the listing is that of a
process left behind, or one whose removal failed.

### The audit log (`AuditChainProofs`)

For any number of daemons, handlers, rows and events: the verifier accuses no row but
one that a handler inserted after another daemon had inserted over its read
(`AuditChainIntact`); as long as there is none, every alteration of the contents of a
row, and every removal of one with a successor, is reported at or just after its place
(`AuditAlterationDetected`, `AuditRemovalDetected`, together `AuditTamperingDetected`).
With one daemon there never is one, so the chain always verifies
(`AuditAlwaysVerifies`, under `OneDaemon`, which is needed: section 6). The inductive
invariant is `AuditInv`: who is between its read and its insert has the mutex of its
daemon (`HolderInside`), it read the hash that is still the last unless it was
overtaken (`ReaderIsCurrent`), and only rows of overtaken handlers are broken
(`OnlyForksBroken`). The lemmas `DigestInjective` and `DigestGrows` are the collision
freedom of the hash. A removal of the last row is not detectable and is not claimed.

### Traces (`TraceStoreProofs`)

For any spans, traces and parents: `ListedIffStored`, and that a remote span in the
file is in the table (`TraceRemoteFile`). When a trace has one span without
a parent (`OneRoot`), the list shows that span's name and start as soon as it is
stored (`TraceRootShown`), and the last trace of a quiet store is the one whose root is
newest (`TraceLastIsNewest`). The invariant is `TraceInv`; `Progress` says which of the
tables a span has reached at each of its steps. `OneRoot` is needed: section 6.
That the printed tree has no holes (`TraceTreeShown`) needs one root among the daemon's own
spans (`OneLocalRoot`) and two more invariants: the parent of a span in flight is open, so
stored no earlier than its child (`Ancestry`), and what a crash took from below a root it took
from the root (`BelowRoot`). `ParentAssumption` says in first-order terms that the parents
of the daemon's spans form no cycle: every non-empty set of them has one whose parent is
outside of it. A span is printed if it is in every set that has the roots and the children
of its members; were a span of the daemon missing from such a set, one whose parent
is not missing would be.

### The router (`RouterProofs`)

For any requests, backends, routes and integer weights: `FallbackOrder`,
`ErrorMeansAllFailed` and `SpansTellStory`. The model gives each usable entry of the
route its place in a stable sort; that these places are 1 to the number of entries,
each taken once, is the lemmas `PlaceRange`, `PlaceInjective` and `PlaceOnto`, by
counting the entries before one. The inductive invariant `Inv` tells the chat spans
from the loop index: failures before it, then what the last candidate gave.

### Agent runs (`AgentProofs`)

For any number of concurrent runs and any limits: `StatusTellsOutcome`,
`FeedbackIsPrevious`, `SandboxOnlyInTool` and `SpansNested`. `LoopInv` says that before
the last verification all have failed, as many as the loop variable says, and that the
feedback is the output of the attempt just before, or none if that printed nothing;
`Lending` ties a run's sandbox to the contract of the pool, `SpansAt` the open spans to
the place in the code. `CallIdsNumber` follows from `Numbered`: until two calls overlap
one at most is between the load of the counter and the read of the id, and the counter
is the number of (run, attempt) pairs that took one; afterwards it is at most that. What
runs and pool do is a behaviour of the contract (`AgentIsPoolClient`), so no two runs
have one sandbox (`AgentSandboxesApart`).

### Eval runs (`AgentProofs`, second part)

For any number of requests, any dataset, k and n, and any suites with any thresholds:

* `EvalPassAtKIsEstimator`. `Falling(n, k)` counts the k-subsets of n samples up to a
  factor that depends on k only (`SubsetsCount`, from Pascal's rule for both,
  `SubsetsPascal` and `FallingPascal`), and the subsets without a correct sample are those
  of the others.
* `EvalRowsExplainRun` and `EvalGateFollowsRows`, from `EvalInv`. Its main part is `Kept`:
  while no insert has failed there is a row for every id scored, and the metric exceeds the
  total of the rows by at most a full score per case that repeats an id. What one more row
  adds to a total, and what INSERT OR REPLACE takes away from it, is `TotalAdd`: the sum
  over a set, a fold that takes the elements in an arbitrary order, is the same in any
  (`TotalRemove`). `Ended` and `Recorded` tie the gate and the rows of eval_runs to runs that
  are done, whether or not their clients have heard of it.
* `EvalDistinctIdsExact`: with distinct ids there is one row per case and the metric is
  exactly their total, so the divergence `RowPerCase` of section 6 has no other cause.

The library's induction theorems take an operator as a parameter, which none of the
provers can instantiate. The inductions here are over a set instead: `NatInd` (over the
set of numbers with a property) and `SetInduction` (over the set of subsets with one),
both from the existence of minimal elements (`WFMin`).

### Daemons (`DaemonProofs`)

For any number of daemons and requests: `AnsweredIsStored`, from the invariant `Inv`
(handlers outlive the drain only in a daemon that was hasty, which is `Draining`; and
what a handler has not stored is behind it, or was lost to a failing statement or such a
daemon, which is `Told`), and `Reachable`, from `Alone`: without overlap one daemon at a
time is there, and the path is its own once it has removed what it found.

### The start (`DaemonProofs`, second part)

For any configurations whose sections refer to each other in any way, and any host:
`FailedStartIsClean`, `DefaultsSettle` and `RunningResolves`. `StartupInv` says that
something is open only between the opening of the store and the end, and that once the
pool is closed the sandboxes are those whose Destroy failed (`Holds`), that who is past
Validate still has a configuration it accepts (`Passed`), and that only a file that was
not decoded has no defaults (`Refused`). `ConfigAssumption` (the pool's size is an integer)
is all that is assumed of a configuration.

### Evidence bundles (`EvidenceProofs`)

For any number of builds, paths and eval runs, any times, any limit of the report and any
number of dropped errors: `ReportIsComplete`, `BundleCoversHistory`, `FreshVerifies`,
`OneKey`. `ReportInv`: a run in the table, so a listed one, has all its rows but those
whose own insert failed. `RunsInv` and `CoverInv`: the time of a run is fixed before its
row is there, so a run that was answered is listed or the list is full of others that are
no older (`ListCovers`), and stays so while others are inserted (`ListStaysCovered`).
`FileInv`: who has a path open created it last, or the one who did overlapped it.
`KeyInv`: unless two builds made keys at once or one misread the key, at most one build is
between looking for the key and saving it.

### Air-gap bundles (`AirgapProofs`)

For any names, paths, contents, modes, keys and requests: `IntactOnly` and
`InstalledIsPacked`. `BundleInv`: untouched, the archive is what its lock says, and the
lock is what was signed; touched, it does not verify, whichever part was touched.
`CopyInv`: what an install has copied is in place with its mode, unless setting that
failed, and no other file of the archive goes there.

### Only model-checked

* Liveness: `EventuallyWarm`, `RunEnds`, `ExecReturns`, `Stops`, `CallsReturn`, out of
  the prover's reach.

## 5. What is not modelled

* The key-value table, the model registry, the version: single statements or constants
  without interplay. The license check, and the sums of the enterprise tier over the runs
  that `Summary` counts, are functions without state.
* The list of models and the health probe only read. Of an inference answer the model
  keeps whether it has a choice and what the mock chose, not its encoding.
* The network wrapper of the sandboxes, the command line of `runsc`.
* Scores are exact in `EvalRun`: the rounding of `float64` where a mean meets the
  threshold (eval/runner.go:89) is outside. The parsing of a dataset file is a list of
  cases or an error.
* The clock never goes back in `TraceStore`; with one that does, "last" may be older.
* The engine drops the errors of AppendAudit (core/engine.go:122): an action can
  happen without an audit entry. `AuditChain` has the failing insert and `EvidenceBundle`
  what a bundle then lacks (`flaws`); that nobody learns of it is one line of code.
* The Python repair loop repeats agent.go; only the spans of the services are modelled.

## 6. Divergences

Where the code and a statement of the repository part. The first is a run
(`pool_close`); the others can be reproduced by listing the named definition as an
INVARIANT in a configuration, with the constants given. The definitions stand in the
modules under "Statements of the documentation that the code does not keep".

| Statement | Definition, where | The code |
|---|---|---|
| pool.go:124 "Close destroys all sandboxes." | `CloseDestroysAll`, run `pool_close` | A refill looks at `closed`, then creates and tracks its sandbox (pool.go:99-113). A Close in between has taken `p.all`: nobody destroys the sandbox, and the send on the closed channel panics. (A directory that Destroy could not remove is not counted; pool.go drops that error too.) |
| pool.go:2 "keeping a configured number pre-baked" | `KeepsWarm`, MCSandboxPool_close.cfg | A refill or warm-up whose driver.New fails is not repeated before the next loss. |
| pool.go:54 "Acquire returns a ready sandbox" | `AcquireGivesSandbox`, MCSandboxPool_close.cfg | After Close the receive yields nil and Acquire returns it without an error. |
| sandbox.go:34 "Reset clears mutable state" | from the code; `StaleFilesHaveWriter` names the exception | The errors of RemoveAll are dropped (local.go:154-156). |
| store.go:360 "chaining its hash to the previous entry" | `AlwaysVerifies`, MCAuditChain.cfg | The mutex is of one process; two daemons on one database read the same last hash. |
| store.go:148 "root span is the one with no parent" | `RootShown`, Spans = {run, tool, chat}, TraceOf <- OneTrace, ParentOf <- Parentless | The Python loop's `_generate` emits its span without a parent_id and overwrites the summary. |
| spec telemetry:55 "the full span tree" | `FullTreeShown`, MCTraceStore.cfg | After a crash the ended children are stored without their root, and the tree is printed from roots only. |
| spec inference-serving:18 "applying cooldown" | from the code | The router remembers no failure. |
| config/load.go:78 "Agents must reference a known model." | `KnownNeverRefused`, MCRouter.cfg with Logical = absent | Validate takes the name of a route without backends, which resolve does not know. |
| inference/handler.go:28 "model is required" | `EmptyModelIsBad`, MCRouter.cfg | /v1/completions does not ask: the empty model goes to the router, and the answer is 502. |
| inference/backend.go:23 "returns deterministic responses" | `MockIsDeterministic`, MCRouter.cfg | Of two known names of one length the order of a map decides. |
| inference/router.go:14 "weighted failover" | `ServedHasChoice`, MCRouter.cfg | Any JSON with a status below 400 is a success, an answer without choices too. |
| spec telemetry:22 "records the tool call id" | from the code; `CallIdsNumber` holds until calls overlap | callN++ without a lock: two calls can have one id. |
| spec agent-runtime:56 "code whose generated tests pass" | from the code | The daemon's RunAgent sets no tests (core/engine.go:123); "solved" means the program exits with 0. |
| spec eval:55 "reports the regression" | `RegressionGated`, MCEvalRun.cfg with FailOn = {"regression"} | EvalRun never calls CheckRegression. |
| config.go:134 lists the kind "regression" | `AcceptedKindRuns`, MCEvalRun.cfg | RunSuite refuses it. |
| eval/runner.go:54 "per-case results" | `RowPerCase`, MCEvalRun.cfg | INSERT OR REPLACE on (run, case): cases of one id leave one row. |
| spec agent-runtime:18 "terminated ... rather than hanging" | second disjunct of `ExecReturns` | cmd.WaitDelay is not set: a process left behind that holds the pipes keeps Run. |
| procattr_unix.go:10 "a timeout kills the whole group" | `GroupIsKilled`, SandboxExec.cfg | The group is made; one process is killed. |
| spec engine-daemon:27 "connects over the Unix socket" | `RunningIsReachable`, MCDaemonLifecycle.cfg | A stopping daemon removes the path even when it is the next one's. |
| spec engine-daemon:64 "SHALL persist all daemon state" | `AllPersisted`, MCDaemonLifecycle.cfg | After 5 seconds the store is closed under the handlers, whose errors are dropped, as are those of a statement on an open store. |
| api/client.go:38 "the daemon socket is unreachable" | `DownMeansUnreached`, MCDaemonLifecycle.cfg | The client's timeout and a broken connection are reported as that, though the run was made and recorded. |
| spec evidence:11 "containing the eval report" | `ReportHasAllRuns`, MCEvidenceBundle.cfg | ListEvalRuns(0) stops at 100 runs. |
| src/enterprise/teamobs/teamobs.go:24 "across the whole store" | `SummaryIsWhole`, MCEvidenceBundle.cfg | The same limit. |
| evidence.go:49 "a key is generated and persisted" | `SignedWithPersisted`, MCEvidenceBundle.cfg | Two builds that find no key each make one; the second file replaces the first. Any error of reading the key is taken for a missing one (evidence.go:257), and the key that is there is replaced. |
| spec evidence:36 "verification succeeds" | `AnsweredVerifies`, MCEvidenceBundle.cfg | Two builds share the default path; the end of the archive is written by deferred Close calls whose errors are dropped. |
| bundle/bundle.go:24 "reserved entries inside the bundle" | `ReservedNames`, MCAirgapBundle.cfg | A source may be given such a name, and the bundle that is made of it does not verify. |
| bundle/bundle.go:3 "the identical file set" | `IdenticalFiles`, `NothingElse`, MCAirgapBundle.cfg | Of two names that clean to one path the one copied last stays; a file of mode 0 gets 0644 (bundle.go:195), and the error of Chmod is dropped (bundle.go:202); a file that the lock does not pin is installed with the others. |
| bundle/bundle.go:2 "signed" | `IdentityIsSigned`, MCAirgapBundle.cfg | The identity that verify prints is in the lock, but not in the digest that is signed. |
| cli/bundle.go:40 "wrote" | `WroteIsWhole`, MCAirgapBundle.cfg | The errors of the deferred Closes that write the end of the archive are dropped (bundle/bundle.go:254). |
| defaults.go:51 "an empty agent inherits the default model" | `EmptyAgentAccepted`, MCStartup.cfg | The model "coder" is added only when no model is declared. |
| config.go:108 lists firecracker and libkrun | `AcceptedRuntimeStarts`, MCStartup.cfg | NewDriver has neither. |
| provision.go:60 "ready" | `ReadyStarts`, MCStartup.cfg | `faraday up` looks at the sandbox driver only; a backend without an address fails when the daemon starts. |
| spec engine-daemon:53 "an out-of-range value" | `OutOfRangeRefused`, MCStartup.cfg | Unknown backends and negative sizes are accepted. |

("spec x:n" is line n of `src/openspec/changes/add-eval-observability-slice/specs/x/spec.md`.)

## 7. Plan

Done, in this order: the pool with its contract, the audit chain, traces; the agent
loop over the contract and the router; eval runs; sandboxes; the daemon; evidence and
air-gap bundles; the start. Then several daemons on one database, the HTTP layer of the
router, the API client and the provisioner, overlapping builds, creates that fail or
die; the proofs of the router, the agent, the daemon and both bundles; and those of eval
runs, of one sandbox, of the start, of the trace tree and of the call ids.

Next, by importance:

1. An abstract specification of the store (what a request leaves behind, all or a
  prefix) that `EvalRun` and `TraceStore` implement, and the engine's audit entries
  around agent and eval runs.
2. What holds where a divergence of section 6 does not apply, as theorems like
   `EvalDistinctIdsExact`: `FullTreeShown` without a crash, `RunningIsReachable` without
  overlap, `IdenticalFiles` with names that clean to different paths.

