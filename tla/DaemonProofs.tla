----------------------------- MODULE DaemonProofs -----------------------------
(***************************************************************************)
(* The daemon: DaemonLifecycle proved for any number of daemons and        *)
(* requests, and Startup, what a daemon does before it serves, for any set *)
(* of configurations.                                                      *)
(*                                                                         *)
(* A daemon that left the socket path to others without Shutdown is hasty, *)
(* and only in a hasty one do handlers outlive the drain (Draining): so a  *)
(* statement that fails does so on the open store or in a hasty daemon,    *)
(* and what is stored is known at every place of a handler (Told).         *)
(* Without overlap one daemon at a time is there, and the path is its own  *)
(* (Alone).                                                                *)
(*                                                                         *)
(* Startup: the configuration of a start that passed Validate is one the   *)
(* checks accept, whatever comes after (Passed), and what New has made is  *)
(* all in open and boxes until it is closed, the pool first (Holds).       *)
(***************************************************************************)
EXTENDS DaemonLifecycle, Startup, NaturalsInduction, WellFoundedInduction, TLAPS

\* Every variable keeps its type, for any daemons and requests.
THEOREM DaemonTypeCorrect == Spec => []TypeOK
<1>1. Init => TypeOK BY DaemonAssumption DEF Init, TypeOK
<1>2. TypeOK /\ [Next]_vars => TypeOK'
  <2> SUFFICES ASSUME TypeOK, [Next]_vars PROVE TypeOK' OBVIOUS
  <2> USE DaemonAssumption DEF TypeOK, Goto, Dies
  <2>1. ASSUME NEW d \in Daemons, Launch(d) \/ RemoveSocket(d) \/ Listen(d) \/ ListenFails(d)
        PROVE  TypeOK'
    BY <2>1 DEF Launch, RemoveSocket, Listen, ListenFails
  <2>2. ASSUME NEW d \in Daemons, ServeFails(d) \/ Shutdown(d) \/ Drained(d) \/ DrainTimeout(d)
        PROVE  TypeOK'
    BY <2>2 DEF ServeFails, Shutdown, Drained, DrainTimeout
  <2>3. ASSUME NEW d \in Daemons, Unlink(d) \/ CloseEngine(d) \/ Exit(d) \/ Crash(d)
        PROVE  TypeOK'
    BY <2>3 DEF Unlink, CloseEngine, Exit, Crash
  <2>4. ASSUME NEW q \in Requests, Accept(q) \/ Unreached(q)
        PROVE  TypeOK'
    BY <2>4 DEF Accept, Unreached
  <2>5. ASSUME NEW q \in Requests, \/ Insert(q) \/ InsertFails(q)
                                 \/ Answer(q) \/ AnswerLate(q)
        PROVE  TypeOK'
    BY <2>5 DEF Insert, InsertFails, Answer, AnswerLate, Statement, Onward
  <2>6. CASE UNCHANGED vars BY <2>6 DEF vars
  <2> QED BY <2>1, <2>2, <2>3, <2>4, <2>5, <2>6 DEF Next, DaemonStep
<1> QED BY <1>1, <1>2, PTL DEF Spec

-----------------------------------------------------------------------------
(* What clients are told.                                                   *)

InHandler == {"run", "half", "recorded", "failed"}

\* The socket file is of a daemon that listens, that is gone, or that stopped without Shutdown.
PathOwner ==
  path # None => /\ pc[path] \in {"up", "returned", "closed", "exited"}
                 /\ pc[path] \in {"returned", "closed"} => path \in hasty

\* A handler runs in a daemon that is up or waits for it, or in a hasty one.
Draining ==
  \A q \in Requests : state[q] \in InHandler =>
    /\ on[q] \in Daemons
    /\ \/ pc[on[q]] \in {"up", "drain"}
       \/ on[q] \in hasty /\ pc[on[q]] \in {"drained", "returned", "closed"}

\* What the records are, at every place of a request.
Told ==
  \A q \in Requests :
    /\ state[q] = "run" => stored[q] = {}
    /\ state[q] = "half" => /\ 2 \notin stored[q]
                            /\ 1 \in stored[q] \/ (q \notin Ingests /\ Excused(q))
    /\ state[q] = "recorded" => stored[q] = {1, 2} \/ (q \notin Ingests /\ Excused(q))
    /\ state[q] = "failed" => q \in Ingests /\ Excused(q) /\ 2 \notin stored[q]
    /\ state[q] = "new" => stored[q] = {}

Inv == TypeOK /\ PathOwner /\ Draining /\ Told /\ AnsweredIsStored

\* No daemon has been started.
LEMMA InvInit == Init => Inv
BY DaemonAssumption DEF Init, Inv, TypeOK, PathOwner, Draining, Told, AnsweredIsStored, InHandler, Excused

\* Every step keeps the path, the shutdown and the answers in step.
LEMMA InvNext ==
  ASSUME Inv, TypeOK', [Next]_vars
  PROVE  Inv'
<1> USE DaemonAssumption DEF Inv, TypeOK, Goto, InHandler, Excused
<1>1. ASSUME NEW d \in Daemons, Launch(d) \/ RemoveSocket(d) \/ Listen(d) \/ ListenFails(d)
      PROVE  Inv'
  BY <1>1 DEF Launch, RemoveSocket, Listen, ListenFails, PathOwner, Draining, Told, AnsweredIsStored
<1>2. ASSUME NEW d \in Daemons, ServeFails(d) \/ Shutdown(d) \/ DrainTimeout(d)
      PROVE  Inv'
  BY <1>2 DEF ServeFails, Shutdown, DrainTimeout, PathOwner, Draining, Told, AnsweredIsStored
<1>3. ASSUME NEW d \in Daemons, Drained(d) \/ Unlink(d) \/ CloseEngine(d)
      PROVE  Inv'
  BY <1>3 DEF Drained, Active, Unlink, CloseEngine, PathOwner, Draining, Told, AnsweredIsStored
<1>4. ASSUME NEW d \in Daemons, Dies(d)
      PROVE  Inv'
  BY <1>4 DEF Dies, Active, PathOwner, Draining, Told, AnsweredIsStored
<1>5. ASSUME NEW q \in Requests, Accept(q) \/ Unreached(q)
      PROVE  Inv'
  BY <1>5 DEF Accept, Unreached, Listening, PathOwner, Draining, Told, AnsweredIsStored
<1>6. ASSUME NEW q \in Requests, Insert(q) \/ InsertFails(q)
      PROVE  Inv'
  BY <1>6 DEF Insert, InsertFails, Statement, Onward, StoreOpen, PathOwner, Draining, Told,
              AnsweredIsStored
<1>7. ASSUME NEW q \in Requests, Answer(q) \/ AnswerLate(q)
      PROVE  Inv'
  BY <1>7 DEF Answer, AnswerLate, PathOwner, Draining, Told, AnsweredIsStored
<1>8. CASE UNCHANGED vars
  BY <1>8 DEF vars, PathOwner, Draining, Told, AnsweredIsStored
<1> QED BY <1>1, <1>2, <1>3, <1>4, <1>5, <1>6, <1>7, <1>8 DEF Next, DaemonStep, Exit, Crash

\* "ok" means stored unless a statement failed, of its own or because the daemon closed the
\* store over running handlers; an ingest is never told a lie.
THEOREM DaemonAnsweredIsStored == Spec => []AnsweredIsStored
<1>1. Inv /\ TypeOK' /\ [Next]_vars => Inv' BY InvNext
<1>2. Inv => AnsweredIsStored BY DEF Inv
<1> QED BY <1>1, <1>2, InvInit, DaemonTypeCorrect, PTL DEF Spec

-----------------------------------------------------------------------------
(* The socket path.                                                         *)

\* One daemon at a time, and the path it found is free.
Alone ==
  ~overlap => /\ \A d, e \in Daemons : ~Gone(d) /\ ~Gone(e) => d = e
              /\ \A d \in Daemons : pc[d] = "removed" => path = None

\* Every step keeps at most one daemon reachable through the files.
LEMMA AloneNext ==
  ASSUME TypeOK, Alone, Reachable, [Next]_vars
  PROVE  (Alone /\ Reachable)'
<1> USE DaemonAssumption DEF TypeOK, Goto, Gone, Alone, Reachable
<1>1. ASSUME NEW d \in Daemons, Launch(d)
      PROVE  (Alone /\ Reachable)'
  BY <1>1 DEF Launch
<1>2. ASSUME NEW d \in Daemons, RemoveSocket(d) \/ Listen(d) \/ ListenFails(d)
      PROVE  (Alone /\ Reachable)'
  BY <1>2 DEF RemoveSocket, Listen, ListenFails
<1>3. ASSUME NEW d \in Daemons, ServeFails(d) \/ Shutdown(d) \/ Drained(d) \/ DrainTimeout(d)
      PROVE  (Alone /\ Reachable)'
  BY <1>3 DEF ServeFails, Shutdown, Drained, DrainTimeout
<1>4. ASSUME NEW d \in Daemons, Unlink(d) \/ CloseEngine(d) \/ Dies(d)
      PROVE  (Alone /\ Reachable)'
  BY <1>4 DEF Unlink, CloseEngine, Dies
<1>5. ASSUME NEW q \in Requests, \/ Accept(q) \/ Unreached(q)
                                 \/ Insert(q) \/ InsertFails(q)
                                 \/ Answer(q) \/ AnswerLate(q)
      PROVE  (Alone /\ Reachable)'
  BY <1>5 DEF Accept, Unreached, Insert, InsertFails, Answer, AnswerLate
<1>6. CASE UNCHANGED vars
  BY <1>6 DEF vars
<1> QED BY <1>1, <1>2, <1>3, <1>4, <1>5, <1>6 DEF Next, DaemonStep, Exit, Crash

\* A daemon that starts when the earlier ones are gone gets the path, whatever they left.
THEOREM DaemonReachable == Spec => []Reachable
<1>1. Init => Alone /\ Reachable BY DEF Init, Alone, Reachable, Gone
<1>2. TypeOK /\ Alone /\ Reachable /\ [Next]_vars => (Alone /\ Reachable)' BY AloneNext
<1> QED BY <1>1, <1>2, DaemonTypeCorrect, PTL DEF Spec

-----------------------------------------------------------------------------
(* Startup: ApplyDefaults and Validate.                                     *)

\* A set of naturals that is not empty has a least element, the one Min chooses.
LEMMA LeastElement ==
  ASSUME NEW S \in SUBSET Nat, S # {}
  PROVE  Min(S) \in S
<1>1. IsWellFoundedOn(OpToRel(<, Nat), Nat) BY NatLessThanWellFounded
<1>2. PICK n \in S : \A m \in S : <<m, n>> \notin OpToRel(<, Nat) BY <1>1, WFMin
<1>3. \A m \in S : ~(m < n) BY <1>2 DEF OpToRel
<1>4. \A m \in S : n =< m BY <1>3
<1> QED BY <1>4 DEF Min

ErrorKeys == {"version", "target.kind", "sandbox.network", "sandbox.runtime", "agents",
              "eval.suites", "routing"}

\* Validate names one of its keys, or "none" when every check holds.
LEMMA ValidateOutcome ==
  ASSUME NEW c
  PROVE  /\ Validate(c) \in ErrorKeys \union {"none"}
         /\ Validate(c) = "none" => /\ AgentsKnown(c)
                                   /\ \A r \in DOMAIN c.routing : c.routing[r] \subseteq DOMAIN c.models
<1> DEFINE bad == {i \in DOMAIN Checks(c) : ~Checks(c)[i].ok}
<1>1. /\ DOMAIN Checks(c) = 1..7
      /\ \A i \in 1..7 : Checks(c)[i].key \in ErrorKeys
  BY DEF Checks, ErrorKeys
<1>2. CASE bad = {}
  <2>1. Validate(c) = "none" BY <1>2 DEF Validate
  <2>2. Checks(c)[5].ok /\ Checks(c)[7].ok BY <1>1, <1>2
  <2> QED BY <2>1, <2>2 DEF Checks
<1>3. CASE bad # {}
  <2>1. bad \in SUBSET Nat BY <1>1
  <2>2. Min(bad) \in 1..7
    <3> HIDE DEF bad
    <3>1. Min(bad) \in bad BY <1>3, <2>1, LeastElement
    <3> QED BY <3>1, <1>1 DEF bad
  <2>3. Validate(c) = Checks(c)[Min(bad)].key BY <1>3 DEF Validate
  <2>4. Validate(c) \in ErrorKeys BY <1>1, <2>2, <2>3
  <2> QED BY <2>4 DEF ErrorKeys
<1> QED BY <1>2, <1>3

\* The samples of a suite are filled in from the k that is filled in too, an agent by itself.
LEMMA PartsFill ==
  /\ \A s : SuiteFilled(SuiteFilled(s)) = SuiteFilled(s)
  /\ \A a : AgentFilled(AgentFilled(a)) = AgentFilled(a)
BY DEF SuiteFilled, AgentFilled, Filled, DefaultModelName, DefaultMaxRepair

\* ApplyDefaults keeps the size of the pool a number, and a second application finds
\* nothing to fill in.
LEMMA DefaultsFill ==
  ASSUME NEW c, c.pool \in Int
  PROVE  /\ ApplyDefaults(c).pool \in Int
         /\ ApplyDefaults(ApplyDefaults(c)) = ApplyDefaults(c)
<1> DEFINE d == ApplyDefaults(c)
<1>1. d.pool \in Int BY DEF ApplyDefaults, Filled, DefaultSandboxPool
<1>2. [a \in DOMAIN d.agents |-> AgentFilled(d.agents[a])] = d.agents
  BY PartsFill DEF ApplyDefaults
<1>3. [i \in DOMAIN d.suites |-> SuiteFilled(d.suites[i])] = d.suites
  BY PartsFill DEF ApplyDefaults
<1>4. ApplyDefaults(d) = d
  BY <1>2, <1>3 DEF ApplyDefaults, Filled, Network, DefaultModelName, DefaultSandboxPool
<1> QED BY <1>1, <1>4

-----------------------------------------------------------------------------
(* Startup: what a start holds, and what it has checked.                    *)

\* Sandboxes are there only from the warm-up on, the pool is closed before the rest, and
\* what is open is closed last.
Holds ==
  /\ stage \notin {"warming", "running", "draining", "closing", "failed", "stopped"} => boxes = 0
  /\ stage \notin {"draining", "closing", "failed", "stopped"} => left = 0
  /\ stage \in {"closing", "failed", "stopped"} => boxes = left
  /\ stage \in {"read", "defaulted", "accepted", "refused", "failed", "stopped"} => open = {}

\* The configuration New works with has passed Validate.
Passed ==
  stage \in {"accepted", "opened", "traced", "routed", "warming", "running"} =>
    Validate(cfg) = "none"

Refused == err = "yaml" => stage = "refused"

StartupInv == StartupTypeOK /\ Holds /\ Passed /\ Refused /\ DefaultsSettle

\* Start has just begun.
LEMMA StartupInvInit == StartupInit => StartupInv
<1> SUFFICES ASSUME StartupInit PROVE StartupInv OBVIOUS
<1>1. cfg.pool \in Int BY ConfigAssumption DEF StartupInit
<1>2. boxes \in 0..Size(cfg) BY <1>1 DEF StartupInit, Size
<1> QED
  BY <1>1, <1>2 DEF StartupInit, StartupInv, StartupTypeOK, Holds, Passed, Refused, DefaultsSettle

\* Every step of Start keeps the invariant.
LEMMA StartupInvNext ==
  ASSUME StartupInv, [StartupNext]_startupVars
  PROVE  StartupInv'
<1> USE DEF StartupInv, Holds, Passed, Refused, DefaultsSettle
<1>0. Size(cfg) \in Nat /\ boxes \in 0..Size(cfg) /\ cfg.pool \in Int
  BY DEF StartupTypeOK, Size
<1>1. CASE DecodeFails BY <1>1 DEF DecodeFails, StartupTypeOK, Size
<1>2. CASE Default
  <2>1. cfg'.pool \in Int /\ ApplyDefaults(cfg') = cfg' BY <1>0, <1>2, DefaultsFill DEF Default
  <2>2. boxes' \in 0..Size(cfg')
    <3>1. boxes' = 0 BY <1>2 DEF Default
    <3>2. Size(cfg') \in Nat BY <2>1 DEF Size
    <3> QED BY <3>1, <3>2
  <2>3. left' = 0 /\ left' \in 0..boxes' BY <1>2 DEF Default, StartupTypeOK
  <2> QED BY <1>2, <2>1, <2>2, <2>3 DEF Default, StartupTypeOK
<1>3. CASE Parsed
  <2>1. err' \in ErrorKeys \union {"none"} BY <1>3, ValidateOutcome DEF Parsed
  <2>2. err' # "yaml" BY <2>1 DEF ErrorKeys
  <2>3. StartupTypeOK' BY <1>3, <2>1 DEF Parsed, StartupTypeOK, ErrorKeys, Size
  <2> QED BY <1>3, <2>2, <2>3 DEF Parsed
<1>4. CASE Up BY <1>4 DEF Up, StartupTypeOK, Size
<1>5. CASE OpenStore BY <1>5 DEF OpenStore, Fail, StartupTypeOK, Size
<1>6. CASE NewTracer BY <1>6 DEF NewTracer, StartupTypeOK, Size
<1>7. CASE NewManager \/ ManagerFails BY <1>7 DEF NewManager, ManagerFails, Fail, StartupTypeOK, Size
<1>8. CASE NewDriver BY <1>8 DEF NewDriver, Fail, StartupTypeOK, Size
<1>9. CASE Warm
  <2>1. boxes' \in 0..Size(cfg)' /\ left' = 0 /\ left' \in 0..boxes'
    BY <1>0, <1>9 DEF Warm, Size, StartupTypeOK
  <2> QED BY <1>9, <2>1 DEF Warm, StartupTypeOK
<1>10. CASE WarmFails \/ Close
  <2>1. left' = left /\ boxes' = boxes /\ cfg' = cfg BY <1>10 DEF WarmFails, Close
  <2> QED BY <1>10, <2>1 DEF WarmFails, Close, StartupTypeOK, Size
<1>11. CASE Destroy
  <2>1. boxes \in Nat /\ left \in 0..boxes /\ boxes > left BY <1>0, <1>11 DEF Destroy, StartupTypeOK
  <2>2. boxes' \in 0..Size(cfg)' /\ left' \in 0..boxes'
    BY <1>0, <1>11, <2>1 DEF Destroy, Size
  <2> QED BY <1>11, <2>2 DEF Destroy, StartupTypeOK
<1>12. CASE PoolClosed BY <1>12 DEF PoolClosed, StartupTypeOK, Size
<1>13. CASE CloseFile \/ CloseStore BY <1>13 DEF CloseFile, CloseStore, StartupTypeOK, Size
<1>14. CASE Boot BY <1>14 DEF Boot, StartupTypeOK, Size
<1>15. CASE UNCHANGED startupVars BY <1>15 DEF startupVars, StartupTypeOK, Size
<1> QED
  BY <1>1, <1>2, <1>3, <1>4, <1>5, <1>6, <1>7, <1>8, <1>9, <1>10, <1>11, <1>12,
     <1>13, <1>14, <1>15 DEF StartupNext

\* So it holds throughout.
LEMMA StartupInvariant == StartupSpec => []StartupInv
BY StartupInvInit, StartupInvNext, PTL DEF StartupSpec

\* Every variable of a start keeps its type, and a warm-up makes no more sandboxes
\* than the pool has places.
THEOREM StartupTypeCorrect == StartupSpec => []StartupTypeOK
BY StartupInvariant, PTL DEF StartupInv

\* New leaves nothing open when it fails, at whatever step, and no sandbox but those whose
\* Destroy failed; Close leaves nothing open either.
THEOREM StartupFailedStartIsClean == StartupSpec => []FailedStartIsClean
<1>1. StartupInv => FailedStartIsClean BY DEF StartupInv, Holds, FailedStartIsClean
<1> QED BY <1>1, StartupInvariant, PTL

\* The defaults are complete: ApplyDefaults changes nothing in a configuration it filled in.
THEOREM StartupDefaultsSettle == StartupSpec => []DefaultsSettle
BY StartupInvariant, PTL DEF StartupInv

\* What Validate accepted the router can serve: for the logical name of every agent of a
\* running engine, every entry of its route has a backend.
THEOREM StartupRunningResolves == StartupSpec => []RunningResolves
<1>1. StartupInv => RunningResolves
  <2> SUFFICES ASSUME StartupInv, stage = "running", NEW a \in DOMAIN cfg.agents
               PROVE  LET name == cfg.agents[a].model
                          entries == IF name \in DOMAIN cfg.routing
                                     THEN cfg.routing[name] ELSE {name}
                      IN  entries # {} => Candidates(name) = entries
    BY DEF RunningResolves
  <2>1. /\ AgentsKnown(cfg)
        /\ \A r \in DOMAIN cfg.routing : cfg.routing[r] \subseteq DOMAIN cfg.models
    BY ValidateOutcome DEF StartupInv, Passed
  <2> DEFINE name == cfg.agents[a].model
  <2>2. CASE name \in DOMAIN cfg.routing
    <3>1. cfg.routing[name] \intersect DOMAIN cfg.models = cfg.routing[name] BY <2>1, <2>2
    <3> QED BY <2>2, <3>1 DEF Candidates
  <2>3. CASE name \notin DOMAIN cfg.routing
    <3>1. {name} \intersect DOMAIN cfg.models = {name} BY <2>1, <2>3 DEF AgentsKnown
    <3> QED BY <2>3, <3>1 DEF Candidates
  <2> QED BY <2>2, <2>3
<1> QED BY <1>1, StartupInvariant, PTL

=============================================================================
