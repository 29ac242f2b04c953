-------------------------------- MODULE Startup --------------------------------
(***************************************************************************)
(* From faraday.yaml to a running engine: Parse, ApplyDefaults and         *)
(* Validate of internal/config, then New of internal/core/engine.go with   *)
(* what it builds: store, tracer, backends, sandbox driver, warm pool.     *)
(* Before it, `faraday up` may have told what internal/provision says of   *)
(* the same file on the same host.                                         *)
(*                                                                         *)
(* A configuration keeps the fields something depends on; the other        *)
(* defaults (limits, telemetry, orchestration) are filled the same way.    *)
(***************************************************************************)
EXTENDS Integers, Sequences, FiniteSetsExt

CONSTANTS Configs  \* the decoded files considered; "" and 0 are omitted fields

ASSUME ConfigAssumption == \A c \in Configs : c.pool \in Int

DefaultModelName   == "coder"
DefaultMaxRepair   == 4
DefaultSandboxPool == 2

TargetKinds == {"local", "cloud", "airgap"}
Networks    == {"none", "host-deny"}
Runtimes    == {"auto", "gvisor", "firecracker", "libkrun", "local"}
Kinds       == {"code_passk", "deterministic", "judge", "regression"}

VARIABLES
  raw,    \* the file as decoded
  host,   \* what the host offers: [runsc, wrapper]
  cfg,    \* the configuration as it is filled in
  stage,  \* "read", "defaulted", "accepted", "opened", "traced", "routed", "warming",
          \* "running"; "draining" in the pool's Close, "closing" in the rest of
          \* Engine.Close; "refused", "failed", "stopped" at the end
  err,    \* what the error names, or "none"
  open,   \* resources held: "store", "file"
  boxes,  \* sandboxes of the warm-up that exist (those of requests are SandboxPool's)
  left,   \* history: how many of them a failing Destroy left
  up      \* what `faraday up` reported: "ready", "unavailable", "planned", or "none"

startupVars == <<raw, host, cfg, stage, err, open, boxes, left, up>>

-----------------------------------------------------------------------------
(* ApplyDefaults.                                                           *)

Filled(x, omitted, default) == IF x = omitted THEN default ELSE x

\* Deliberate error used as a mutant: the samples are filled in before k.
SuiteFilled_SamplesFirst(s) ==
  [name |-> s.name, kind |-> s.kind, judge |-> s.judge, k |-> Filled(s.k, 0, 1),
   n |-> IF s.kind = "code_passk" THEN Filled(s.n, 0, s.k) ELSE s.n]

SuiteFilled(s) ==
  LET k == Filled(s.k, 0, 1) IN
  [name |-> s.name, kind |-> s.kind, judge |-> s.judge, k |-> k,
   n |-> IF s.kind = "code_passk" THEN Filled(s.n, 0, k) ELSE s.n]

AgentFilled(a) == [model  |-> Filled(a.model, "", DefaultModelName),
                   repair |-> Filled(a.repair, 0, DefaultMaxRepair)]

Network(c) == Filled(c.network, "", "none")

ApplyDefaults(c) ==
  [version |-> Filled(c.version, "", "faraday/v1"),
   kind    |-> Filled(c.kind, "", "local"),
   models  |-> IF DOMAIN c.models # {} THEN c.models
               ELSE [m \in {DefaultModelName} |-> [backend |-> "", endpoint |-> FALSE]],
   routing |-> c.routing,
   agents  |-> [a \in DOMAIN c.agents |-> AgentFilled(c.agents[a])],
   runtime |-> Filled(c.runtime, "", "auto"),
   network |-> Network(c),
   pool    |-> Filled(c.pool, 0, DefaultSandboxPool),
   suites  |-> [i \in DOMAIN c.suites |-> SuiteFilled(c.suites[i])]]

-----------------------------------------------------------------------------
(* Validate.                                                                *)

\* Deliberate error used as a mutant: the default model is taken to be always there.
AgentsKnown_TrustDefault(c) ==
  \A a \in DOMAIN c.agents :
    c.agents[a].model \in DOMAIN c.models \union DOMAIN c.routing \union {DefaultModelName}

AgentsKnown(c) ==
  \A a \in DOMAIN c.agents : c.agents[a].model \in DOMAIN c.models \union DOMAIN c.routing

SuiteOK(s) == s.name # "" /\ s.kind \in Kinds /\ (s.kind = "judge" => s.judge # "")

\* The checks in the order of the code, each with the key its error names.
Checks(c) ==
  <<[key |-> "version", ok |-> c.version = "faraday/v1"],
    [key |-> "target.kind", ok |-> c.kind \in TargetKinds],
    [key |-> "sandbox.network", ok |-> c.network \in Networks],
    [key |-> "sandbox.runtime", ok |-> c.runtime \in Runtimes],
    [key |-> "agents", ok |-> AgentsKnown(c)],
    [key |-> "eval.suites", ok |-> \A i \in DOMAIN c.suites : SuiteOK(c.suites[i])],
    [key |-> "routing", ok |-> \A r \in DOMAIN c.routing : c.routing[r] \subseteq DOMAIN c.models]>>

\* The key of the error Validate returns, or "none".
Validate(c) ==
  LET bad == {i \in DOMAIN Checks(c) : ~Checks(c)[i].ok} IN
  IF bad = {} THEN "none" ELSE Checks(c)[Min(bad)].key

-----------------------------------------------------------------------------
(* The parts of the engine.                                                 *)

\* buildBackend succeeds: a served model needs an address, "auto" falls back to the mock.
Buildable(m) == \/ m.backend \in {"", "auto", "mock"}
                \/ m.backend \in {"vllm", "llama_cpp", "sglang"} /\ m.endpoint

\* NewDriver: the driver chosen, or "none" when it returns an error.
Driver(runtime) ==
  CASE runtime \in {"gvisor", "auto"} /\ host.runsc -> "gvisor"
    [] runtime \in {"local", "auto"} /\ host.wrapper /\ ~(runtime = "auto" /\ host.runsc) -> "local"
    [] OTHER -> "none"

Size(c) == IF c.pool < 1 THEN 1 ELSE c.pool

StartupInit ==
  /\ raw \in Configs /\ cfg = raw
  /\ host \in [runsc : BOOLEAN, wrapper : BOOLEAN]
  /\ stage = "read" /\ err = "none" /\ open = {} /\ boxes = 0 /\ left = 0
  /\ up = "none"

\* Decode refuses the file: an unknown key, or a value of the wrong type.
DecodeFails ==
  /\ stage = "read"
  /\ stage' = "refused" /\ err' = "yaml"
  /\ UNCHANGED <<raw, host, cfg, open, boxes, left, up>>

Default ==
  /\ stage = "read"
  /\ cfg' = ApplyDefaults(cfg) /\ stage' = "defaulted"
  /\ UNCHANGED <<raw, host, err, open, boxes, left, up>>

Parsed ==
  /\ stage = "defaulted"
  /\ err' = Validate(cfg)
  /\ stage' = IF err' = "none" THEN "accepted" ELSE "refused"
  /\ UNCHANGED <<raw, host, cfg, open, boxes, left, up>>

\* provision: Select by target.kind, and Up.  On owned hardware it asks for the driver of
\* the sandboxes and for nothing else; of a cloud it makes a plan.
Up ==
  /\ stage = "accepted" /\ up = "none"
  /\ up' = IF cfg.kind = "cloud" THEN "planned"
           ELSE IF Driver(cfg.runtime) = "none" THEN "unavailable" ELSE "ready"
  /\ UNCHANGED <<raw, host, cfg, stage, err, open, boxes, left>>

\* New calls Engine.Close, e.pool being nil, and returns the error.
Fail(what) == stage' = "closing" /\ err' = what

\* A migration may fail, and Open closes the database again.
OpenStore ==
  /\ stage = "accepted"
  /\ \/ stage' = "opened" /\ open' = {"store"} /\ UNCHANGED err
     \/ stage' = "failed" /\ err' = "store" /\ UNCHANGED open
  /\ UNCHANGED <<raw, host, cfg, boxes, left, up>>

\* The file sink is opened if telemetry is enabled; a failure is not an error.
NewTracer ==
  /\ stage = "opened"
  /\ open' \in {open, open \union {"file"}}
  /\ stage' = "traced"
  /\ UNCHANGED <<raw, host, cfg, err, boxes, left, up>>

NewManager ==
  /\ stage = "traced"
  /\ \A m \in DOMAIN cfg.models : Buildable(cfg.models[m])
  /\ stage' = "routed"
  /\ UNCHANGED <<raw, host, cfg, err, open, boxes, left, up>>

ManagerFails ==
  /\ stage = "traced"
  /\ \E m \in DOMAIN cfg.models : ~Buildable(cfg.models[m])
  /\ Fail("backend")
  /\ UNCHANGED <<raw, host, cfg, open, boxes, left, up>>

NewDriver ==
  /\ stage = "routed"
  /\ \/ Driver(cfg.runtime) # "none" /\ stage' = "warming" /\ UNCHANGED err
     \/ Driver(cfg.runtime) = "none" /\ Fail("driver")
  /\ UNCHANGED <<raw, host, cfg, open, boxes, left, up>>

Warm ==
  /\ stage = "warming" /\ boxes < Size(cfg)
  /\ boxes' = boxes + 1
  /\ UNCHANGED <<raw, host, cfg, stage, err, open, left, up>>

\* Deliberate error used as a mutant: pool.New does not close its pool.
WarmFails_Leave ==
  /\ stage = "warming" /\ boxes < Size(cfg)
  /\ Fail("pool")
  /\ UNCHANGED <<raw, host, cfg, open, boxes, left, up>>

\* The driver makes no sandbox: pool.New closes its pool, then New the engine.
WarmFails ==
  /\ stage = "warming" /\ boxes < Size(cfg)
  /\ stage' = "draining" /\ err' = "pool"
  /\ UNCHANGED <<raw, host, cfg, open, boxes, left, up>>

\* The registry and the entry "engine.start"; their errors are dropped.
Boot ==
  /\ stage = "warming" /\ boxes = Size(cfg)
  /\ stage' = "running"
  /\ UNCHANGED <<raw, host, cfg, err, open, boxes, left, up>>

\* Engine.Close: pool, tracer, store.
Close ==
  /\ stage = "running"
  /\ stage' = "draining"
  /\ UNCHANGED <<raw, host, cfg, err, open, boxes, left, up>>

\* pool.Close destroys a sandbox, or fails to and drops the error.
Destroy ==
  /\ stage = "draining" /\ boxes > left
  /\ \/ boxes' = boxes - 1 /\ UNCHANGED left
     \/ left' = left + 1 /\ UNCHANGED boxes
  /\ UNCHANGED <<raw, host, cfg, stage, err, open, up>>

PoolClosed ==
  /\ stage = "draining" /\ boxes = left
  /\ stage' = "closing"
  /\ UNCHANGED <<raw, host, cfg, err, open, boxes, left, up>>

\* Tracer.Close, if it has a file.
CloseFile ==
  /\ stage = "closing" /\ "file" \in open
  /\ open' = open \ {"file"}
  /\ UNCHANGED <<raw, host, cfg, stage, err, boxes, left, up>>

CloseStore ==
  /\ stage = "closing" /\ "file" \notin open
  /\ open' = open \ {"store"}
  /\ stage' = IF err = "none" THEN "stopped" ELSE "failed"
  /\ UNCHANGED <<raw, host, cfg, err, boxes, left, up>>

StartupNext ==
  \/ DecodeFails \/ Default \/ Parsed \/ Up
  \/ OpenStore \/ NewTracer \/ NewManager \/ ManagerFails \/ NewDriver
  \/ Warm \/ WarmFails \/ Boot
  \/ Close \/ Destroy \/ PoolClosed \/ CloseFile \/ CloseStore

StartupSpec == StartupInit /\ [][StartupNext]_startupVars

-----------------------------------------------------------------------------
(* Properties.                                                              *)

StartupTypeOK ==
  /\ cfg.pool \in Int
  /\ host \in [runsc : BOOLEAN, wrapper : BOOLEAN]
  /\ stage \in {"read", "defaulted", "accepted", "opened", "traced", "routed", "warming",
             "running", "draining", "closing", "refused", "failed", "stopped"}
  /\ err \in {"none", "yaml", "version", "target.kind", "sandbox.network", "sandbox.runtime",
              "agents", "eval.suites", "routing", "store", "backend", "driver", "pool"}
  /\ open \subseteq {"store", "file"} /\ boxes \in 0..Size(cfg) /\ left \in 0..boxes
  /\ up \in {"ready", "unavailable", "planned", "none"}

\* A start that fails, at whatever step, holds nothing any more: New leaves no open
\* store and no open file, and of the sandboxes made so far only those whose Destroy failed.
\* A stop leaves nothing open either; its sandboxes are SandboxPool's subject.
FailedStartIsClean ==
  /\ stage \in {"failed", "stopped"} => open = {}
  /\ stage = "failed" => boxes = left

\* resolve of the router, as a set: the backends asked for a logical name.
Candidates(name) ==
  IF name \in DOMAIN cfg.routing /\ cfg.routing[name] # {}
  THEN cfg.routing[name] \intersect DOMAIN cfg.models
  ELSE {name} \intersect DOMAIN cfg.models

\* In a running engine the router has a backend for what every agent asks for, unless
\* that is a route without entries, and drops no entry of a route for want of a backend.
RunningResolves ==
  stage = "running" => \A a \in DOMAIN cfg.agents :
    LET name == cfg.agents[a].model
        entries == IF name \in DOMAIN cfg.routing THEN cfg.routing[name] ELSE {name}
    IN  entries # {} => Candidates(name) = entries

\* The defaults are complete: to apply them to a configuration that has them changes
\* nothing ("a 2-line config behaves identically to a fully specified one").
DefaultsSettle == stage # "read" /\ err # "yaml" => ApplyDefaults(cfg) = cfg

-----------------------------------------------------------------------------
(* Statements of the documentation that the code does not keep (README,     *)
(* "Divergences").  They are no part of what the runs check.                *)

\* defaults.go:51 "an empty agent inherits the default model+tool" (contradicted: when
\* models are declared and none is called coder, an agent without a model is refused
\* for its reference to coder).
EmptyAgentAccepted ==
  err = "agents" => \E a \in DOMAIN raw.agents : raw.agents[a].model # ""

\* config.go:108 "gvisor | firecracker | libkrun | local" (contradicted: the driver of
\* two of the runtimes Validate accepts is on no host there).
AcceptedRuntimeStarts == ~(host.runsc /\ host.wrapper /\ err = "driver")

\* provision.go:60 "ready" (contradicted: a backend without an address, or of an unknown kind,
\* is first looked at when the daemon starts).
ReadyStarts == ~(up = "ready" /\ err = "backend")

\* engine-daemon spec:53-55 "WHEN a config sets an unknown field or an out-of-range
\* value THEN ... exits non-zero" (contradicted: a backend that does not exist and a
\* negative size of the pool are accepted).
OutOfRangeRefused ==
  stage = "accepted" =>
    /\ raw.pool >= 0
    /\ \A m \in DOMAIN raw.models :
         raw.models[m].backend \in {"", "auto", "mock", "vllm", "llama_cpp", "sglang"}

=============================================================================
