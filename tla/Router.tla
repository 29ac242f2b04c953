-------------------------------- MODULE Router --------------------------------
(***************************************************************************)
(* internal/inference: the HTTP handlers, resolve and ChatCompletion, and  *)
(* the two kinds of backend (the mock never fails, a proxy may), for       *)
(* concurrent requests.  A chat completion is reduced to what it answers.  *)
(* The routing section of the configuration is any short list of backends  *)
(* with weights; it does not change while the daemon runs.  The Manager    *)
(* keeps no state between requests: no failure is remembered.              *)
(***************************************************************************)
EXTENDS Integers, Sequences, FiniteSets

CONSTANTS Requests,  \* calls of /v1/chat/completions, /v1/completions and of the runtime
          Prompts,   \* what they ask the mock for: sets of the function names it knows
          Names,     \* names a request may ask for, beside Logical and ""
          Usable,    \* those with an entry under models: NewManager built a backend
          Mocks,     \* those whose backend is the mock
          Weights,   \* weights of the route entries
          MaxRoute,  \* bound on the length of the route
          Logical    \* the one name with a routing entry (it may also be a model's)

ASSUME RouterAssumption ==
  /\ Mocks \subseteq Usable /\ Usable \subseteq Names
  /\ Weights \subseteq Int /\ MaxRoute \in Nat
  /\ "" \notin Names

VARIABLES
  route,   \* routing[Logical].backends
  call,    \* per request: [via, model, prompt]
  pc,      \* per request: "idle", "next", "asking"; "bad", "refused", "served", "failed"
  gone,    \* per request: its context is cancelled, the caller has left
  reply,   \* per request: the text that was served, or "none"
  cand,    \* per request: the failover list resolve returned
  depth,   \* per request: index in it, from 0, as the span attribute
  chat,    \* per request: its ended chat spans, [model, status]
  span     \* per request: the route span, "none", "open", "ok", "error"

input == <<route, call>>
vars  == <<input, pc, gone, reply, cand, depth, chat, span>>

Calls == [via : {"chat", "completions", "runtime"}, model : Names \union {Logical, ""},
          prompt : Prompts]

\* Config.Validate: a route lists models that are configured; weights are any integers.
Entries == [model : Usable, weight : Weights]

-----------------------------------------------------------------------------
(* resolve.                                                                 *)

\* Entries of the route that name a model with a backend; the others are dropped.
InUse == {i \in 1..Len(route) : route[i].model \in Usable}

\* Deliberate error used as a mutant: the sort is not stable.
Before_Unstable(i, j) ==
  route[i].weight > route[j].weight \/ (route[i].weight = route[j].weight /\ i > j)

\* sort.SliceStable by descending weight: entry i comes before entry j.
Before(i, j) ==
  route[i].weight > route[j].weight \/ (route[i].weight = route[j].weight /\ i < j)

Place(i) == Cardinality({j \in InUse : Before(j, i)}) + 1

Failover ==
  [p \in 1..Cardinality(InUse) |-> route[CHOOSE i \in InUse : Place(i) = p].model]

\* The failover list of a name, empty when resolve returns an error.  A route
\* without backends is passed over, as if the name were a model's.
Resolve(name) ==
  IF name = Logical /\ route # <<>> THEN Failover
  ELSE IF name \in Usable THEN <<name>> ELSE <<>>

-----------------------------------------------------------------------------
(* The mock backend.                                                        *)

\* The function names of mockSolutions, with their lengths.
mockSolutions ==
  [add |-> 3, fib |-> 3, subtract |-> 8, factorial |-> 9, max_of_list |-> 11,
   is_palindrome |-> 13, reverse_string |-> 14]

\* The longest name in the prompt; of names of one length the one a map yields first.
mockReplies(prompt) ==
  LET found == prompt \intersect DOMAIN mockSolutions IN
  IF found = {} THEN {"stub"}
  ELSE {f \in found : \A g \in found : mockSolutions[g] <= mockSolutions[f]}

-----------------------------------------------------------------------------

Init ==
  /\ route \in UNION {[1..n -> Entries] : n \in 0..MaxRoute}
  /\ call \in [Requests -> Calls]
  /\ pc = [r \in Requests |-> "idle"]
  /\ gone = [r \in Requests |-> FALSE] /\ reply = [r \in Requests |-> "none"]
  /\ cand = [r \in Requests |-> <<>>]
  /\ depth = [r \in Requests |-> 0]
  /\ chat = [r \in Requests |-> <<>>]
  /\ span = [r \in Requests |-> "none"]

Goto(r, l) == pc' = [pc EXCEPT ![r] = l]

\* The body cannot be decoded, or names no model: /v1/completions does not ask for one.
BadRequest(r) ==
  /\ pc[r] = "idle" /\ call[r].via # "runtime"
  /\ Goto(r, "bad")
  /\ UNCHANGED <<input, gone, reply, cand, depth, chat, span>>

Accepted(r) == pc[r] = "idle" /\ ~(call[r].via = "chat" /\ call[r].model = "")

\* resolve fails: the error is returned before any span is started.
Refuse(r) ==
  /\ Accepted(r) /\ Resolve(call[r].model) = <<>>
  /\ Goto(r, "refused")
  /\ UNCHANGED <<input, gone, reply, cand, depth, chat, span>>

Begin(r) ==
  /\ Accepted(r) /\ Resolve(call[r].model) # <<>>
  /\ cand' = [cand EXCEPT ![r] = Resolve(call[r].model)]
  /\ span' = [span EXCEPT ![r] = "open"]
  /\ Goto(r, "next")
  /\ UNCHANGED <<input, gone, reply, depth, chat>>

\* The caller leaves: its context is cancelled while the loop goes on.
Leave(r) ==
  /\ pc[r] \in {"next", "asking"} /\ ~gone[r]
  /\ gone' = [gone EXCEPT ![r] = TRUE]
  /\ UNCHANGED <<input, pc, reply, cand, depth, chat, span>>

\* The candidate the loop is at.
Candidate(r) == cand[r][depth[r] + 1]

\* The loop starts a chat span and asks the candidate.
Ask(r) ==
  /\ pc[r] = "next" /\ depth[r] < Len(cand[r])
  /\ Goto(r, "asking")
  /\ UNCHANGED <<input, gone, reply, cand, depth, chat, span>>

EndChat(r, status) ==
  chat' = [chat EXCEPT ![r] = Append(@, [model |-> Candidate(r), status |-> status])]

\* The mock ignores the context; a proxy passes on whatever JSON came with a status below
\* 400, without choices too.
Replies(r) ==
  IF Candidate(r) \in Mocks THEN mockReplies(call[r].prompt)
  ELSE IF gone[r] THEN {} ELSE {"completion", "no choices"}

Served(r) ==
  /\ pc[r] = "asking"
  /\ \E text \in Replies(r) : reply' = [reply EXCEPT ![r] = text]
  /\ EndChat(r, "ok")
  /\ span' = [span EXCEPT ![r] = "ok"]
  /\ Goto(r, "served")
  /\ UNCHANGED <<input, gone, cand, depth>>

\* Deliberate error used as a mutant: the loop stays at the same candidate.
Failed_Retry(r) ==
  /\ pc[r] = "asking" /\ Candidate(r) \notin Mocks
  /\ EndChat(r, "error")
  /\ depth' = [depth EXCEPT ![r] = depth[r]]
  /\ Goto(r, "next")
  /\ UNCHANGED <<input, gone, reply, cand, span>>

\* A proxy fails: connection, client timeout of two minutes, a status of 400 or more, a
\* body that is no JSON, or the cancelled context.
Failed(r) ==
  /\ pc[r] = "asking" /\ Candidate(r) \notin Mocks
  /\ EndChat(r, "error")
  /\ depth' = [depth EXCEPT ![r] = depth[r] + 1]
  /\ Goto(r, "next")
  /\ UNCHANGED <<input, gone, reply, cand, span>>

\* Deliberate error used as a mutant: the loop gives up after one failure.
AllFailed_Early(r) ==
  /\ pc[r] = "next" /\ depth[r] > 0
  /\ span' = [span EXCEPT ![r] = "error"]
  /\ Goto(r, "failed")
  /\ UNCHANGED <<input, gone, reply, cand, depth, chat>>

\* Deliberate error used as a mutant: the end of the list is missed by one.
AllFailed_Late(r) ==
  /\ pc[r] = "next" /\ depth[r] > Len(cand[r])
  /\ span' = [span EXCEPT ![r] = "error"]
  /\ Goto(r, "failed")
  /\ UNCHANGED <<input, gone, reply, cand, depth, chat>>

AllFailed(r) ==
  /\ pc[r] = "next" /\ depth[r] = Len(cand[r])
  /\ span' = [span EXCEPT ![r] = "error"]
  /\ Goto(r, "failed")
  /\ UNCHANGED <<input, gone, reply, cand, depth, chat>>

\* What the handlers write, and the runtime gets as a value or an error.
StatusCode(r) == CASE pc[r] = "served" -> 200 [] pc[r] = "bad" -> 400 [] OTHER -> 502

\* What the request does once it is there.
Step(r) == Refuse(r) \/ Begin(r) \/ Ask(r) \/ Served(r) \/ Failed(r) \/ AllFailed(r)

Next == \E r \in Requests : BadRequest(r) \/ Leave(r) \/ Step(r)

Spec == Init /\ [][Next]_vars

\* A goroutine that can run does, and the client's timeout ends every call of a proxy.
FairSpec == Spec /\ \A r \in Requests : WF_vars(Step(r))

-----------------------------------------------------------------------------
(* Properties.                                                              *)

TypeOK ==
  /\ route \in Seq(Entries) /\ call \in [Requests -> Calls]
  /\ pc \in [Requests -> {"idle", "next", "asking", "bad", "refused", "served", "failed"}]
  /\ gone \in [Requests -> BOOLEAN]
  /\ reply \in [Requests -> DOMAIN mockSolutions \union {"stub", "completion", "no choices", "none"}]
  /\ cand \in [Requests -> Seq(Usable)] /\ depth \in [Requests -> Nat]
  /\ chat \in [Requests -> Seq([model : Usable, status : {"ok", "error"}])]
  /\ span \in [Requests -> {"none", "open", "ok", "error"}]

\* resolve keeps one candidate per usable entry, and a backend is asked only after every
\* usable entry that all of its own come behind: those of less weight, and of one weight
\* those further down in the configuration; a weight of 0 is "fallback-only (kept, but last)".
FallbackOrder ==
  \A r \in Requests : Len(cand[r]) > 1 =>
    /\ Len(cand[r]) = Cardinality(InUse)
    /\ \A i \in InUse, p \in 1..Len(chat[r]) :
         (\A k \in InUse : route[k].model = chat[r][p].model =>
            \/ route[k].weight < route[i].weight
            \/ route[k].weight = route[i].weight /\ i < k) =>
           \E q \in 1..(p - 1) : chat[r][q].model = route[i].model

\* "all backends failed" is returned only when each candidate was asked once, in
\* order, and failed; in particular never for a list with a mock in it.
ErrorMeansAllFailed ==
  \A r \in Requests : pc[r] = "failed" =>
    /\ chat[r] = [i \in 1..Len(cand[r]) |-> [model |-> cand[r][i], status |-> "error"]]
    /\ \A i \in 1..Len(cand[r]) : cand[r][i] \notin Mocks

\* The spans tell the story: the route span is ended exactly when the call has
\* returned, with "ok" iff the last chat span is ok, every earlier one being an
\* error, and fallback_depth is the number of failed attempts.
SpansTellStory ==
  \A r \in Requests :
    /\ span[r] \in {"ok", "error"} <=> pc[r] \in {"served", "failed"}
    /\ span[r] = "ok" <=> /\ chat[r] # <<>>
                          /\ chat[r][Len(chat[r])].status = "ok"
    /\ depth[r] = Cardinality({i \in 1..Len(chat[r]) : chat[r][i].status = "error"})
    /\ \A i \in 1..Len(chat[r]) : chat[r][i].status = "error" \/ i = Len(chat[r])

\* A call that was routed returns, whoever fails and whether its caller waits or not.
CallsReturn ==
  \A r \in Requests : span[r] = "open" ~> pc[r] \in {"served", "failed"}

-----------------------------------------------------------------------------
(* Statements of the documentation that the code does not keep (README,     *)
(* "Divergences").  They are no part of what the runs check.                *)

\* load.go:78 "Agents must reference a known model": a request for a model or route of
\* the configuration is not refused (contradicted: Validate takes the name of a route
\* without backends, which resolve does not know).
KnownNeverRefused ==
  \A r \in Requests : pc[r] = "refused" => call[r].model \notin Usable \union {Logical}

\* handler.go:28 "model is required" (contradicted: /v1/completions sends the empty model on
\* to the router and answers 502).
EmptyModelIsBad ==
  \A r \in Requests : call[r].model = "" /\ pc[r] \in {"bad", "refused"} => StatusCode(r) = 400

\* backend.go:23 "returns deterministic responses" (contradicted: of two known names of one
\* length, add and fib, the order of a map decides).
MockIsDeterministic ==
  \A r \in Requests : reply[r] \in DOMAIN mockSolutions => mockReplies(call[r].prompt) = {reply[r]}

\* router.go:14 "weighted failover" (contradicted: an answer without choices, any JSON with a
\* status below 400, is a success).
ServedHasChoice == \A r \in Requests : reply[r] # "no choices"

=============================================================================
