----------------------------- MODULE RouterProofs -----------------------------
(***************************************************************************)
(* Router proved for any number of requests and backends and any weights.  *)
(* The sort of resolve is a permutation of the usable entries: the place   *)
(* of an entry, one more than the number of those before it, is a          *)
(* bijection between them and the positions of the list (PlaceRange,       *)
(* PlaceInjective, PlaceOnto).  The state of a request is told by its pc:  *)
(* its chat spans are the failures of the candidates before depth, then    *)
(* the success of the one at depth once it is served (Routed).             *)
(***************************************************************************)
EXTENDS Router, FiniteSetTheorems, TLAPS

\* A route as the configuration has it; ordered weights are integers.
Configured == route \in Seq(Entries)

\* The entries in use are finitely many and usable.
LEMMA InUseFinite ==
  ASSUME Configured
  PROVE  /\ InUse \subseteq 1..Len(route) /\ IsFiniteSet(InUse) /\ Cardinality(InUse) \in Nat
         /\ \A i \in InUse : route[i] \in Entries /\ route[i].weight \in Int
                             /\ route[i].model \in Usable
<1>1. InUse \in SUBSET (1..Len(route)) BY DEF InUse
<1>2. Len(route) \in Nat BY DEF Configured
<1>3. IsFiniteSet(1..Len(route)) BY <1>2, FS_Interval
<1>4. IsFiniteSet(InUse) BY <1>1, <1>3, FS_Subset
<1>5. Cardinality(InUse) \in Nat BY <1>4, FS_CardinalityType
<1>6. \A i \in InUse : route[i] \in Entries BY <1>1 DEF Configured
<1>7. \A i \in InUse : route[i].weight \in Int /\ route[i].model \in Usable
  BY <1>6, RouterAssumption DEF Entries, InUse
<1> QED BY <1>1, <1>4, <1>5, <1>6, <1>7

\* The entries before one of them are a part of the others.
Earlier(i) == {j \in InUse : Before(j, i)}

\* So are those before one of them, which give its place.
LEMMA EarlierFinite ==
  ASSUME Configured, NEW i \in InUse
  PROVE  /\ IsFiniteSet(Earlier(i)) /\ Cardinality(Earlier(i)) \in Nat
         /\ Place(i) = Cardinality(Earlier(i)) + 1
<1>1. Earlier(i) \in SUBSET InUse BY DEF Earlier
<1>2. IsFiniteSet(Earlier(i)) BY <1>1, InUseFinite, FS_Subset
<1>3. Cardinality(Earlier(i)) \in Nat BY <1>2, FS_CardinalityType
<1> QED BY <1>2, <1>3 DEF Place, Earlier

\* A place is one of as many as there are entries in use.
LEMMA PlaceRange ==
  ASSUME Configured, NEW i \in InUse
  PROVE  Place(i) \in 1..Cardinality(InUse)
<1>1. Earlier(i) \in SUBSET InUse BY DEF Earlier
<1>2. i \notin Earlier(i) BY InUseFinite DEF Earlier, Before
<1>3. Cardinality(Earlier(i)) <= Cardinality(InUse) /\ Cardinality(Earlier(i)) # Cardinality(InUse)
  BY <1>1, <1>2, InUseFinite, FS_Subset
<1> QED BY <1>3, EarlierFinite, InUseFinite

\* Places follow the order of the entries.
LEMMA PlaceMonotone ==
  ASSUME Configured, NEW i \in InUse, NEW j \in InUse, Before(i, j)
  PROVE  Place(i) < Place(j)
<1>1. Earlier(i) \in SUBSET Earlier(j) BY InUseFinite DEF Earlier, Before
<1>2. i \in Earlier(j) /\ i \notin Earlier(i) BY InUseFinite DEF Earlier, Before
<1>3. Cardinality(Earlier(i)) <= Cardinality(Earlier(j))
      /\ Cardinality(Earlier(i)) # Cardinality(Earlier(j))
  BY <1>1, <1>2, EarlierFinite, FS_Subset
<1> QED BY <1>3, EarlierFinite

\* No two entries share a place.
LEMMA PlaceInjective ==
  ASSUME Configured, NEW i \in InUse, NEW j \in InUse, Place(i) = Place(j)
  PROVE  i = j
<1>1. SUFFICES ASSUME i # j PROVE FALSE OBVIOUS
<1>2. Before(i, j) \/ Before(j, i) BY <1>1, InUseFinite DEF Before
<1>3. Place(i) \in Int /\ Place(j) \in Int BY PlaceRange
<1>4. CASE Before(i, j)
  <2>1. Place(i) < Place(j) BY <1>4, PlaceMonotone
  <2> QED BY <2>1, <1>3
<1>5. CASE Before(j, i)
  <2>1. Place(j) < Place(i) BY <1>5, PlaceMonotone
  <2> QED BY <2>1, <1>3
<1> QED BY <1>2, <1>4, <1>5

\* No place is left out.
LEMMA PlaceOnto ==
  ASSUME Configured, NEW p \in 1..Cardinality(InUse)
  PROVE  \E i \in InUse : Place(i) = p
<1> DEFINE T == 1..Cardinality(InUse)
           f == [i \in InUse |-> Place(i)]
<1>1. f \in [InUse -> T] BY PlaceRange
<1>2. \A i, j \in InUse : f[i] = f[j] => i = j BY PlaceInjective
<1>3. f \in Injection(InUse, T) BY <1>1, <1>2 DEF Injection, IsInjective
<1>4. IsFiniteSet(T) /\ Cardinality(T) = Cardinality(InUse) BY InUseFinite, FS_Interval
<1>5. f \in Surjection(InUse, T) BY <1>3, <1>4, FS_Injection
<1> QED BY <1>5 DEF Surjection

\* The candidate at a place is the model of the entry that has it.
LEMMA FailoverAt ==
  ASSUME Configured, NEW i \in InUse
  PROVE  Failover[Place(i)] = route[i].model
<1> DEFINE c == CHOOSE j \in InUse : Place(j) = Place(i)
<1>1. c \in InUse /\ Place(c) = Place(i) OBVIOUS
<1>2. c = i BY <1>1, PlaceInjective
<1>3. Place(i) \in 1..Cardinality(InUse) BY PlaceRange
<1> QED BY <1>2, <1>3 DEF Failover

\* The failover list has every entry in use, usable.
LEMMA FailoverType ==
  ASSUME Configured
  PROVE  /\ Failover \in Seq(Usable) /\ Len(Failover) = Cardinality(InUse)
<1>1. ASSUME NEW p \in 1..Cardinality(InUse)
      PROVE  route[CHOOSE i \in InUse : Place(i) = p].model \in Usable
  <2>1. (CHOOSE i \in InUse : Place(i) = p) \in InUse BY PlaceOnto
  <2> QED BY <2>1, InUseFinite
<1>2. Cardinality(InUse) \in Nat BY InUseFinite
<1> QED BY <1>1, <1>2 DEF Failover

\* Whatever name is asked for, the candidates are usable models.
LEMMA ResolveType ==
  ASSUME Configured, NEW name
  PROVE  Resolve(name) \in Seq(Usable)
BY FailoverType DEF Resolve

-----------------------------------------------------------------------------
(* The types.                                                               *)

\* While a candidate is asked the loop is in the list.
InList == \A r \in Requests : pc[r] = "asking" => depth[r] < Len(cand[r])

\* A request that asks has a candidate to ask.
LEMMA CandidateType ==
  ASSUME TypeOK, InList, NEW r \in Requests, pc[r] = "asking"
  PROVE  depth[r] + 1 \in 1..Len(cand[r]) /\ Candidate(r) \in Usable
<1>1. cand[r] \in Seq(Usable) /\ depth[r] \in Nat /\ depth[r] < Len(cand[r]) BY DEF TypeOK, InList
<1>2. depth[r] + 1 \in 1..Len(cand[r]) BY <1>1
<1> QED BY <1>1, <1>2 DEF Candidate

\* The outcome of a chat is recorded with its type.
LEMMA EndChatType ==
  ASSUME TypeOK, InList, NEW r \in Requests, pc[r] = "asking", NEW s \in {"ok", "error"}, EndChat(r, s)
  PROVE  chat' \in [Requests -> Seq([model : Usable, status : {"ok", "error"}])]
<1>1. [model |-> Candidate(r), status |-> s] \in [model : Usable, status : {"ok", "error"}]
  BY CandidateType
<1>2. chat[r] \in Seq([model : Usable, status : {"ok", "error"}]) BY DEF TypeOK
<1>3. Append(chat[r], [model |-> Candidate(r), status |-> s])
      \in Seq([model : Usable, status : {"ok", "error"}])
  BY <1>1, <1>2
<1> QED BY <1>3 DEF EndChat, TypeOK

\* No request has been made.
LEMMA TypedInit == Init => TypeOK /\ InList
<1> SUFFICES ASSUME Init PROVE TypeOK /\ InList OBVIOUS
<1>1. PICK n \in 0..MaxRoute : route \in [1..n -> Entries] BY DEF Init
<1>2. n \in Nat
  <2>1. MaxRoute \in Nat BY RouterAssumption
  <2> QED BY <1>1, <2>1
<1>3. route \in Seq(Entries) BY <1>1, <1>2
<1>4. cand \in [Requests -> Seq(Usable)]
  <2>1. <<>> \in Seq(Usable) OBVIOUS
  <2> QED BY <2>1 DEF Init
<1>5. chat \in [Requests -> Seq([model : Usable, status : {"ok", "error"}])]
  <2>1. <<>> \in Seq([model : Usable, status : {"ok", "error"}]) OBVIOUS
  <2> QED BY <2>1 DEF Init
<1> QED BY <1>3, <1>4, <1>5 DEF Init, TypeOK, InList

\* Every step keeps the types, and the place in the list within it.
LEMMA TypedNext ==
  ASSUME TypeOK, InList, [Next]_vars
  PROVE  TypeOK' /\ InList'
<1>1. ASSUME NEW r \in Requests, BadRequest(r) PROVE TypeOK' /\ InList'
  BY <1>1 DEF TypeOK, InList, BadRequest, Goto, input
<1>2. ASSUME NEW r \in Requests, Leave(r) PROVE TypeOK' /\ InList'
  BY <1>2 DEF TypeOK, InList, Leave, input
<1>3. ASSUME NEW r \in Requests, Refuse(r) PROVE TypeOK' /\ InList'
  BY <1>3 DEF TypeOK, InList, Refuse, Goto, input
<1>4. ASSUME NEW r \in Requests, Begin(r) PROVE TypeOK' /\ InList'
  <2>1. Resolve(call[r].model) \in Seq(Usable) BY ResolveType DEF Configured, TypeOK
  <2> QED BY <1>4, <2>1 DEF TypeOK, InList, Begin, Goto, input
<1>5. ASSUME NEW r \in Requests, Ask(r) PROVE TypeOK' /\ InList'
  BY <1>5 DEF TypeOK, InList, Ask, Goto, input
<1>6. ASSUME NEW r \in Requests, Served(r) PROVE TypeOK' /\ InList'
  <2>1. pc[r] = "asking" /\ EndChat(r, "ok") BY <1>6 DEF Served
  <2>2. chat' \in [Requests -> Seq([model : Usable, status : {"ok", "error"}])]
    BY <2>1, EndChatType
  <2>3. Replies(r) \subseteq DOMAIN mockSolutions \union {"stub", "completion", "no choices"}
    BY DEF Replies, mockReplies
  <2> QED BY <1>6, <2>2, <2>3 DEF TypeOK, InList, Served, Goto, input
<1>7. ASSUME NEW r \in Requests, Failed(r) PROVE TypeOK' /\ InList'
  <2>1. pc[r] = "asking" /\ EndChat(r, "error") BY <1>7 DEF Failed
  <2>2. chat' \in [Requests -> Seq([model : Usable, status : {"ok", "error"}])]
    BY <2>1, EndChatType
  <2>3. /\ depth' = [depth EXCEPT ![r] = depth[r] + 1] /\ depth \in [Requests -> Nat]
        /\ pc' = [pc EXCEPT ![r] = "next"] /\ cand' = cand
    BY <1>7 DEF TypeOK, Failed, Goto
  <2>4. depth[r] + 1 \in Nat BY <2>3
  <2>5. TypeOK' BY <1>7, <2>2, <2>3, <2>4 DEF TypeOK, Failed, input
  <2>6. InList' BY <2>3 DEF InList, TypeOK
  <2> QED BY <2>5, <2>6
<1>8. ASSUME NEW r \in Requests, AllFailed(r) PROVE TypeOK' /\ InList'
  BY <1>8 DEF TypeOK, InList, AllFailed, Goto, input
<1>9. CASE UNCHANGED vars
  BY <1>9 DEF TypeOK, InList, vars, input
<1> QED BY <1>1, <1>2, <1>3, <1>4, <1>5, <1>6, <1>7, <1>8, <1>9 DEF Next, Step

\* Every variable keeps its type, for any requests, backends and weights.
THEOREM RouterTypeCorrect == Spec => []TypeOK
<1>1. TypeOK /\ InList /\ [Next]_vars => (TypeOK /\ InList)' BY TypedNext
<1> QED BY TypedInit, <1>1, PTL DEF Spec

-----------------------------------------------------------------------------
(* The invariant.                                                           *)

\* The spans of the calls that have ended: failures, then the success if there is one.
Recorded(r) ==
  /\ Len(chat[r]) = IF pc[r] = "served" THEN depth[r] + 1 ELSE depth[r]
  /\ \A p \in 1..Len(chat[r]) :
       chat[r][p] = [model  |-> cand[r][p],
                     status |-> IF p <= depth[r] THEN "error" ELSE "ok"]

\* The route span goes with the place in the code.
SpanFollows(r) ==
  /\ span[r] = "none" <=> pc[r] \in {"idle", "bad", "refused"}
  /\ span[r] = "ok" <=> pc[r] = "served"
  /\ span[r] = "error" <=> pc[r] = "failed"

\* The list is what resolve makes of the route, and the loop has passed depth of it, no mock
\* among them.
InOrder(r) ==
  /\ cand[r] \in {<<>>, Resolve(call[r].model)} /\ depth[r] <= Len(cand[r])
  /\ pc[r] \in {"asking", "served"} => depth[r] < Len(cand[r])
  /\ pc[r] = "failed" => depth[r] = Len(cand[r])
  /\ pc[r] \in {"idle", "bad", "refused"} => depth[r] = 0
  /\ \A p \in 1..depth[r] : cand[r][p] \notin Mocks

Routed == \A r \in Requests : Recorded(r) /\ SpanFollows(r) /\ InOrder(r)

\* No request has been routed.
LEMMA RoutedInit == Init => Routed
<1> SUFFICES ASSUME Init, NEW r \in Requests PROVE Recorded(r) /\ SpanFollows(r) /\ InOrder(r)
  BY DEF Routed
<1>1. pc[r] = "idle" /\ cand[r] = <<>> /\ depth[r] = 0 /\ chat[r] = <<>> /\ span[r] = "none"
  BY DEF Init
<1> QED BY <1>1 DEF Recorded, SpanFollows, InOrder

\* A step of one request leaves the others as they are.
LEMMA RoutedElsewhere ==
  ASSUME Routed, NEW r \in Requests,
         route' = route, call' = call,
         pc'[r] = pc[r], cand'[r] = cand[r], depth'[r] = depth[r], chat'[r] = chat[r],
         span'[r] = span[r]
  PROVE  (Recorded(r) /\ SpanFollows(r) /\ InOrder(r))'
<1>1. Recorded(r) /\ SpanFollows(r) /\ InOrder(r) BY DEF Routed
<1>2. Failover' = Failover BY DEF Failover, InUse, Place, Before
<1>3. Resolve(call[r].model)' = Resolve(call[r].model) BY <1>2 DEF Resolve
<1> QED BY <1>1, <1>2, <1>3 DEF Recorded, SpanFollows, InOrder

\* What ends a chat span adds to the spans of its request.
LEMMA ChatEnds ==
  ASSUME TypeOK, InList, Routed, NEW r \in Requests, pc[r] = "asking",
         NEW s \in {"ok", "error"}, EndChat(r, s)
  PROVE  /\ Len(chat'[r]) = depth[r] + 1
         /\ \A p \in 1..depth[r] : chat'[r][p] = [model |-> cand[r][p], status |-> "error"]
         /\ chat'[r][depth[r] + 1] = [model |-> cand[r][depth[r] + 1], status |-> s]
         /\ \A q \in Requests : q # r => chat'[q] = chat[q]
<1> DEFINE e == [model |-> Candidate(r), status |-> s]
<1>1. chat[r] \in Seq([model : Usable, status : {"ok", "error"}]) /\ depth[r] \in Nat BY DEF TypeOK
<1>2. Len(chat[r]) = depth[r]
      /\ \A p \in 1..depth[r] : chat[r][p] = [model |-> cand[r][p], status |-> "error"]
  <2>1. Recorded(r) BY DEF Routed
  <2>2. Len(chat[r]) = depth[r] BY <2>1 DEF Recorded
  <2>3. \A p \in 1..depth[r] : chat[r][p] = [model  |-> cand[r][p],
                                            status |-> IF p <= depth[r] THEN "error" ELSE "ok"]
    BY <2>1, <2>2 DEF Recorded
  <2> QED BY <1>1, <2>2, <2>3
<1>3. chat'[r] = Append(chat[r], e) /\ \A q \in Requests : q # r => chat'[q] = chat[q]
  BY DEF EndChat, TypeOK
<1>4. e \in [model : Usable, status : {"ok", "error"}] BY CandidateType
<1>5. /\ Len(chat'[r]) = depth[r] + 1 /\ chat'[r][depth[r] + 1] = e
      /\ \A p \in 1..depth[r] : chat'[r][p] = chat[r][p]
  BY <1>1, <1>2, <1>3, <1>4
<1> QED BY <1>2, <1>3, <1>5 DEF Candidate

\* Every step keeps a request to its candidates, in their order.
LEMMA RoutedNext ==
  ASSUME TypeOK, InList, Routed, [Next]_vars
  PROVE  Routed'
<1> SUFFICES ASSUME NEW q \in Requests PROVE (Recorded(q) /\ SpanFollows(q) /\ InOrder(q))'
  BY DEF Routed
<1>A. /\ pc \in [Requests -> {"idle", "next", "asking", "bad", "refused", "served", "failed"}]
      /\ cand \in [Requests -> Seq(Usable)] /\ depth \in [Requests -> Nat]
      /\ span \in [Requests -> {"none", "open", "ok", "error"}]
  BY DEF TypeOK
<1>B. Recorded(q) /\ SpanFollows(q) /\ InOrder(q) BY DEF Routed
<1>C. ASSUME route' = route, call' = call PROVE Resolve(call[q].model)' = Resolve(call[q].model)
  <2>1. Failover' = Failover BY <1>C DEF Failover, InUse, Place, Before
  <2> QED BY <1>C, <2>1 DEF Resolve
<1>1. ASSUME NEW r \in Requests, BadRequest(r) \/ Refuse(r)
      PROVE  (Recorded(q) /\ SpanFollows(q) /\ InOrder(q))'
  <2>1. /\ pc[r] = "idle" /\ pc'[r] \in {"bad", "refused"}
        /\ q # r => pc'[q] = pc[q]
        /\ UNCHANGED <<route, call, cand, depth, chat, span>>
    BY <1>A, <1>1 DEF BadRequest, Refuse, Accepted, Goto, input
  <2>2. CASE q # r
    BY <2>1, <2>2, RoutedElsewhere
  <2>3. CASE q = r
    BY <1>A, <1>B, <1>C, <2>1, <2>3 DEF Recorded, SpanFollows, InOrder
  <2> QED BY <2>2, <2>3
<1>2. ASSUME NEW r \in Requests, Leave(r)
      PROVE  (Recorded(q) /\ SpanFollows(q) /\ InOrder(q))'
  BY <1>2, RoutedElsewhere DEF Leave, input
<1>3. ASSUME NEW r \in Requests, Begin(r)
      PROVE  (Recorded(q) /\ SpanFollows(q) /\ InOrder(q))'
  <2>1. /\ pc[r] = "idle" /\ pc'[r] = "next" /\ span'[r] = "open"
        /\ cand'[r] = Resolve(call[r].model)
        /\ q # r => pc'[q] = pc[q] /\ span'[q] = span[q] /\ cand'[q] = cand[q]
        /\ UNCHANGED <<route, call, depth, chat>>
    BY <1>A, <1>3 DEF Begin, Accepted, Goto, input
  <2>2. Len(cand'[r]) \in Nat
    <3>1. Configured BY DEF Configured, TypeOK
    <3>2. cand'[r] \in Seq(Usable) BY <2>1, <3>1, ResolveType
    <3> QED BY <3>2
  <2> QED BY <1>A, <1>B, <1>C, <2>1, <2>2 DEF Recorded, SpanFollows, InOrder
<1>4. ASSUME NEW r \in Requests, Ask(r)
      PROVE  (Recorded(q) /\ SpanFollows(q) /\ InOrder(q))'
  <2>1. /\ pc[r] = "next" /\ pc'[r] = "asking" /\ depth[r] < Len(cand[r])
        /\ q # r => pc'[q] = pc[q]
        /\ UNCHANGED <<route, call, cand, depth, chat, span>>
    BY <1>A, <1>4 DEF Ask, Goto, input
  <2> QED BY <1>A, <1>B, <1>C, <2>1 DEF Recorded, SpanFollows, InOrder
<1>5. ASSUME NEW r \in Requests, Served(r)
      PROVE  (Recorded(q) /\ SpanFollows(q) /\ InOrder(q))'
  <2>1. /\ pc[r] = "asking" /\ pc'[r] = "served" /\ span'[r] = "ok" /\ EndChat(r, "ok")
        /\ q # r => pc'[q] = pc[q] /\ span'[q] = span[q]
        /\ UNCHANGED <<route, call, cand, depth>>
    BY <1>A, <1>5 DEF Served, Goto, input
  <2>2. CASE q # r
    <3>1. chat'[q] = chat[q] BY <2>1, <2>2, ChatEnds
    <3> QED BY <2>1, <2>2, <3>1, RoutedElsewhere
  <2>3. CASE q = r
    <3>1. /\ Len(chat'[q]) = depth[q] + 1
          /\ \A p \in 1..depth[q] : chat'[q][p] = [model |-> cand[q][p], status |-> "error"]
          /\ chat'[q][depth[q] + 1] = [model |-> cand[q][depth[q] + 1], status |-> "ok"]
      BY <2>1, <2>3, ChatEnds
    <3>2. Recorded(q)' BY <1>A, <2>1, <2>3, <3>1 DEF Recorded
    <3>3. SpanFollows(q)' BY <2>1, <2>3 DEF SpanFollows
    <3>4. InOrder(q)' BY <1>A, <1>B, <1>C, <2>1, <2>3 DEF InOrder
    <3> QED BY <3>2, <3>3, <3>4
  <2> QED BY <2>2, <2>3
<1>6. ASSUME NEW r \in Requests, Failed(r)
      PROVE  (Recorded(q) /\ SpanFollows(q) /\ InOrder(q))'
  <2>1. /\ pc[r] = "asking" /\ pc'[r] = "next" /\ depth'[r] = depth[r] + 1 /\ EndChat(r, "error")
        /\ Candidate(r) \notin Mocks
        /\ q # r => pc'[q] = pc[q] /\ depth'[q] = depth[q]
        /\ UNCHANGED <<route, call, cand, span>>
    BY <1>A, <1>6 DEF Failed, Goto, input
  <2>2. CASE q # r
    <3>1. chat'[q] = chat[q] BY <2>1, <2>2, ChatEnds
    <3> QED BY <2>1, <2>2, <3>1, RoutedElsewhere
  <2>3. CASE q = r
    <3>1. /\ Len(chat'[q]) = depth[q] + 1
          /\ \A p \in 1..depth[q] : chat'[q][p] = [model |-> cand[q][p], status |-> "error"]
          /\ chat'[q][depth[q] + 1] = [model |-> cand[q][depth[q] + 1], status |-> "error"]
      BY <2>1, <2>3, ChatEnds
    <3>2. Recorded(q)' BY <1>A, <2>1, <2>3, <3>1 DEF Recorded
    <3>3. SpanFollows(q)' BY <1>B, <2>1, <2>3 DEF SpanFollows
    <3>4. InOrder(q)' BY <1>A, <1>B, <1>C, <2>1, <2>3 DEF InOrder, Candidate
    <3> QED BY <3>2, <3>3, <3>4
  <2> QED BY <2>2, <2>3
<1>7. ASSUME NEW r \in Requests, AllFailed(r)
      PROVE  (Recorded(q) /\ SpanFollows(q) /\ InOrder(q))'
  <2>1. /\ pc[r] = "next" /\ pc'[r] = "failed" /\ span'[r] = "error" /\ depth[r] = Len(cand[r])
        /\ q # r => pc'[q] = pc[q] /\ span'[q] = span[q]
        /\ UNCHANGED <<route, call, cand, depth, chat>>
    BY <1>A, <1>7 DEF AllFailed, Goto, input
  <2> QED BY <1>A, <1>B, <1>C, <2>1 DEF Recorded, SpanFollows, InOrder
<1>8. CASE UNCHANGED vars
  BY <1>8, RoutedElsewhere DEF vars, input
<1> QED BY <1>1, <1>2, <1>3, <1>4, <1>5, <1>6, <1>7, <1>8 DEF Next, Step

\* The three together are inductive.
Inv == TypeOK /\ InList /\ Routed

\* So it holds throughout.
LEMMA RouterInvariant == Spec => []Inv
<1>1. Init => Inv BY TypedInit, RoutedInit DEF Inv
<1>2. Inv /\ [Next]_vars => Inv' BY TypedNext, RoutedNext DEF Inv
<1> QED BY <1>1, <1>2, PTL DEF Spec

-----------------------------------------------------------------------------
(* The properties.                                                          *)

\* A request fails only after each candidate was asked once, in order, and failed; never
\* with a mock in its list.
THEOREM RouterErrorMeansAllFailed == Spec => []ErrorMeansAllFailed
<1>1. Inv => ErrorMeansAllFailed
  <2> SUFFICES ASSUME Inv, NEW r \in Requests, pc[r] = "failed"
               PROVE  /\ chat[r] = [i \in 1..Len(cand[r]) |-> [model |-> cand[r][i], status |-> "error"]]
                      /\ \A i \in 1..Len(cand[r]) : cand[r][i] \notin Mocks
    BY DEF ErrorMeansAllFailed
  <2>1. Recorded(r) /\ InOrder(r) BY DEF Inv, Routed
  <2>2. depth[r] = Len(cand[r]) BY <2>1 DEF InOrder
  <2>3. Len(chat[r]) = Len(cand[r]) BY <2>1, <2>2 DEF Recorded
  <2>4. \A p \in 1..Len(cand[r]) : chat[r][p] = [model |-> cand[r][p], status |-> "error"]
    <3>1. Len(cand[r]) \in Nat
      <4>1. cand[r] \in Seq(Usable) BY DEF Inv, TypeOK
      <4> QED BY <4>1
    <3>2. TAKE p \in 1..Len(cand[r])
    <3>3. p <= depth[r] BY <2>2, <3>1
    <3> QED BY <2>1, <2>3, <3>3 DEF Recorded
  <2>5. chat[r] = [p \in 1..Len(chat[r]) |-> chat[r][p]]
    <3>1. chat[r] \in Seq([model : Usable, status : {"ok", "error"}]) BY DEF Inv, TypeOK
    <3> QED BY <3>1
  <2>6. chat[r] = [i \in 1..Len(cand[r]) |-> [model |-> cand[r][i], status |-> "error"]]
    BY <2>3, <2>4, <2>5
  <2>7. \A i \in 1..Len(cand[r]) : cand[r][i] \notin Mocks BY <2>1, <2>2 DEF InOrder
  <2> QED BY <2>6, <2>7
<1> QED BY <1>1, RouterInvariant, PTL

\* The route span ends with the call, "ok" iff the last candidate answered, and the recorded
\* depth is the number of failures before it.
THEOREM RouterSpansTellStory == Spec => []SpansTellStory
<1>1. Inv => SpansTellStory
  <2> SUFFICES ASSUME Inv, NEW r \in Requests
               PROVE  /\ span[r] \in {"ok", "error"} <=> pc[r] \in {"served", "failed"}
                      /\ span[r] = "ok" <=> /\ chat[r] # <<>>
                                            /\ chat[r][Len(chat[r])].status = "ok"
                      /\ depth[r] = Cardinality({i \in 1..Len(chat[r]) : chat[r][i].status = "error"})
                      /\ \A i \in 1..Len(chat[r]) : chat[r][i].status = "error" \/ i = Len(chat[r])
    BY DEF SpansTellStory
  <2>1. Recorded(r) /\ SpanFollows(r) /\ depth[r] \in Nat BY DEF Inv, Routed, TypeOK
  <2>2. chat[r] \in Seq([model : Usable, status : {"ok", "error"}]) BY DEF Inv, TypeOK
  <2>3. span[r] \in {"ok", "error"} <=> pc[r] \in {"served", "failed"} BY <2>1 DEF SpanFollows
  <2>4. \A p \in 1..Len(chat[r]) : chat[r][p].status = IF p <= depth[r] THEN "error" ELSE "ok"
    <3>1. \A p \in 1..Len(chat[r]) :
            chat[r][p] = [model  |-> cand[r][p],
                          status |-> IF p <= depth[r] THEN "error" ELSE "ok"]
      BY <2>1 DEF Recorded
    <3>2. TAKE p \in 1..Len(chat[r])
    <3>3. chat[r][p] = [model |-> cand[r][p], status |-> IF p <= depth[r] THEN "error" ELSE "ok"]
      BY <3>1
    <3> QED BY <3>3
  <2>5. Len(chat[r]) = IF pc[r] = "served" THEN depth[r] + 1 ELSE depth[r] BY <2>1 DEF Recorded
  <2>6. chat[r] # <<>> <=> Len(chat[r]) > 0 BY <2>2
  <2>7. span[r] = "ok" <=> chat[r] # <<>> /\ chat[r][Len(chat[r])].status = "ok"
    BY <2>1, <2>2, <2>4, <2>5, <2>6 DEF SpanFollows
  <2>8. {i \in 1..Len(chat[r]) : chat[r][i].status = "error"} = 1..depth[r]
    BY <2>1, <2>4, <2>5
  <2>9. Cardinality(1..depth[r]) = depth[r] BY <2>1, FS_Interval
  <2>10. \A i \in 1..Len(chat[r]) : chat[r][i].status = "error" \/ i = Len(chat[r])
    BY <2>1, <2>4, <2>5
  <2> QED BY <2>3, <2>7, <2>8, <2>9, <2>10
<1> QED BY <1>1, RouterInvariant, PTL

\* resolve drops no usable entry, and a backend is asked only after every one that the route
\* gives a larger weight, or the same one earlier: stated of the sort, not of the lists TLC tries.
THEOREM RouterFallbackOrder == Spec => []FallbackOrder
<1>1. Inv => FallbackOrder
  <2> SUFFICES ASSUME Inv, NEW r \in Requests, Len(cand[r]) > 1
               PROVE  /\ Len(cand[r]) = Cardinality(InUse)
                      /\ \A i \in InUse, p \in 1..Len(chat[r]) :
                           (\A k \in InUse : route[k].model = chat[r][p].model =>
                              \/ route[k].weight < route[i].weight
                              \/ route[k].weight = route[i].weight /\ i < k) =>
                           \E q \in 1..(p - 1) : chat[r][q].model = route[i].model
    BY DEF FallbackOrder
  <2>1. Configured BY DEF Configured, Inv, TypeOK
  <2>2. Recorded(r) /\ InOrder(r) /\ depth[r] \in Nat BY DEF Inv, Routed, TypeOK
  <2>3. cand[r] = Failover
    <3>1. cand[r] = <<>> \/ cand[r] = Resolve(call[r].model) BY <2>2 DEF InOrder
    <3>2. Len(<<>>) = 0 /\ \A name : Len(<<name>>) = 1 OBVIOUS
    <3>3. \/ Resolve(call[r].model) = Failover \/ Resolve(call[r].model) = <<>>
          \/ Resolve(call[r].model) = <<call[r].model>>
      BY DEF Resolve
    <3>4. Len(cand[r]) # 0 /\ Len(cand[r]) # 1
      <4>1. cand[r] \in Seq(Usable) BY DEF Inv, TypeOK
      <4>2. Len(cand[r]) \in Nat BY <4>1
      <4>3. \A n \in Nat : n > 1 => n # 0 /\ n # 1 OBVIOUS
      <4> QED BY <4>2, <4>3
    <3> QED BY <3>1, <3>2, <3>3, <3>4
  <2>4. Len(cand[r]) = Cardinality(InUse) /\ Cardinality(InUse) \in Nat
    BY <2>1, <2>3, FailoverType, InUseFinite
  <2>5. Len(chat[r]) \in Nat /\ Len(chat[r]) <= Cardinality(InUse)
    BY <2>2, <2>4 DEF Recorded, InOrder
  <2>6. \A p \in 1..Len(chat[r]) : chat[r][p].model = Failover[p]
    <3>1. \A p \in 1..Len(chat[r]) :
            chat[r][p] = [model  |-> cand[r][p],
                          status |-> IF p <= depth[r] THEN "error" ELSE "ok"]
      BY <2>2 DEF Recorded
    <3>2. TAKE p \in 1..Len(chat[r])
    <3>3. chat[r][p] = [model |-> cand[r][p], status |-> IF p <= depth[r] THEN "error" ELSE "ok"]
      BY <3>1
    <3>4. chat[r][p].model = cand[r][p] BY <3>3
    <3> QED BY <2>3, <3>4
  <2>7. ASSUME NEW i \in InUse, NEW p \in 1..Len(chat[r]),
               \A k \in InUse : route[k].model = chat[r][p].model =>
                 \/ route[k].weight < route[i].weight
                 \/ route[k].weight = route[i].weight /\ i < k
        PROVE  \E q \in 1..(p - 1) : chat[r][q].model = route[i].model
    <3>1. p \in 1..Cardinality(InUse) BY <2>4, <2>5
    <3>2. PICK k \in InUse : Place(k) = p BY <2>1, <3>1, PlaceOnto
    <3>3. route[k].model = chat[r][p].model BY <2>1, <2>6, <3>2, FailoverAt
    <3>4. Before(i, k)
      <4>1. \/ route[k].weight < route[i].weight
            \/ route[k].weight = route[i].weight /\ i < k
        BY <2>7, <3>3
      <4> QED BY <2>1, <4>1, InUseFinite DEF Before
    <3>5. Place(i) < Place(k) BY <2>1, <3>4, PlaceMonotone
    <3>6. Place(i) \in 1..Cardinality(InUse) BY <2>1, PlaceRange
    <3>7. Place(i) \in 1..(p - 1) /\ Place(i) \in 1..Len(chat[r]) BY <2>5, <3>1, <3>2, <3>5, <3>6
    <3>8. chat[r][Place(i)].model = route[i].model BY <2>1, <2>6, <3>7, FailoverAt
    <3> QED BY <3>7, <3>8
  <2> QED BY <2>4, <2>7
<1> QED BY <1>1, RouterInvariant, PTL

=============================================================================
