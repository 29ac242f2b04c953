------------------------------ MODULE MCStartup ------------------------------
(* TLC instances of Startup: two families of configurations around an empty one. *)
EXTENDS Startup

Empty == [version |-> "", kind |-> "", models |-> <<>>, routing |-> <<>>, agents |-> <<>>,
          runtime |-> "", network |-> "", pool |-> 0, suites |-> <<>>]

Partial(S, T) == UNION {[D -> T] : D \in SUBSET S}

Backends == {[backend |-> b, endpoint |-> e] : b \in {"", "mock"}, e \in {FALSE}}
              \union {[backend |-> "vllm", endpoint |-> e] : e \in BOOLEAN}
              \union {[backend |-> "typo", endpoint |-> TRUE]}

\* Who refers to whom.
References ==
  {[Empty EXCEPT !.models = m, !.routing = r, !.agents = a, !.pool = p] :
     m \in Partial({"coder", "judge"}, Backends),
     r \in Partial({"fast"}, {{}, {"judge"}, {"coder", "judge"}}),
     a \in Partial({"fixer"}, {[model |-> n, repair |-> k] : n \in {"", "coder", "fast"}, k \in {0, 1}}),
     p \in {-1, 0, 3}}

Suites == {[name |-> n, kind |-> q, judge |-> j, k |-> k, n |-> s] :
             n \in {"", "s"}, q \in {"code_passk", "judge", "regression", "typo"},
             j \in {"", "coder"}, k \in {0, 2}, s \in {0, 3}}

\* Values of the other sections, one or two of them set at a time.
Values ==
  {[Empty EXCEPT !.version = v, !.kind = k, !.network = n, !.runtime = r] :
     v \in {"", "faraday/v1", "faraday/v2"}, k \in {"", "local", "cloud", "airgap", "typo"},
     n \in {"", "none", "host-deny", "typo"},
     r \in {"", "auto", "gvisor", "local", "firecracker", "typo"}}
  \union {[Empty EXCEPT !.suites = <<s>>] : s \in Suites}
  \union {[Empty EXCEPT !.suites = <<s, t>>, !.kind = "cloud"] :
            s \in {x \in Suites : x.name = "s" /\ x.k = 0}, t \in {x \in Suites : x.k = 2 /\ x.n = 0}}

AllConfigs == References \union Values

=============================================================================
