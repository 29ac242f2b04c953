-------------------------- MODULE SandboxPoolProofs --------------------------
(***************************************************************************)
(* Proofs about the warm pool, for any sets of clients and sandbox ids and *)
(* any pool size, and, at the end, about the uses of one sandbox           *)
(* (SandboxExec), for any number of them.                                  *)
(***************************************************************************)
EXTENDS SandboxPool, SandboxExec, TLAPS

USE PoolAssumption DEF history, Destroy

-----------------------------------------------------------------------------
(* Facts about the channel's buffer.                                        *)

\* Appending a new element adds it to the set and keeps the elements distinct.
LEMMA AppendFacts ==
  ASSUME NEW S, NEW q \in Seq(S), NEW e \in S
  PROVE  /\ Append(q, e) \in Seq(S) /\ Len(Append(q, e)) = Len(q) + 1
         /\ ToSet(Append(q, e)) = ToSet(q) \union {e}
         /\ Distinct(q) /\ e \notin ToSet(q) => Distinct(Append(q, e))
<1>1. /\ Append(q, e) \in Seq(S) /\ Len(Append(q, e)) = Len(q) + 1 /\ Len(q) \in Nat
      /\ \A i \in 1..Len(q) : Append(q, e)[i] = q[i]
      /\ Append(q, e)[Len(q) + 1] = e
  OBVIOUS
<1>2. ToSet(Append(q, e)) = ToSet(q) \union {e}
  BY <1>1 DEF ToSet
<1>3. ASSUME Distinct(q), e \notin ToSet(q)
      PROVE  Distinct(Append(q, e))
  BY <1>1, <1>3 DEF ToSet, Distinct
<1>4. QED
  BY <1>1, <1>2, <1>3

\* Receiving takes the first element out, and only it when elements are distinct.
LEMMA TailFacts ==
  ASSUME NEW S, NEW q \in Seq(S), q # <<>>
  PROVE  /\ Head(q) \in S /\ Head(q) \in ToSet(q)
         /\ Tail(q) \in Seq(S) /\ Len(Tail(q)) = Len(q) - 1 /\ Len(q) > 0
         /\ ToSet(Tail(q)) \subseteq ToSet(q)
         /\ ToSet(q) = ToSet(Tail(q)) \union {Head(q)}
         /\ Distinct(q) => Distinct(Tail(q)) /\ Head(q) \notin ToSet(Tail(q))
<1>1. /\ Len(q) \in Nat /\ Len(q) > 0
      /\ Tail(q) \in Seq(S) /\ Len(Tail(q)) = Len(q) - 1
      /\ \A i \in 1..(Len(q) - 1) : Tail(q)[i] = q[i + 1]
      /\ Head(q) = q[1] /\ q[1] \in S
  OBVIOUS
<1>2. Head(q) \in ToSet(q)
  BY <1>1 DEF ToSet
<1>3. ToSet(Tail(q)) \subseteq ToSet(q)
  BY <1>1 DEF ToSet
<1>4. ToSet(q) = ToSet(Tail(q)) \union {Head(q)}
  <2>1. ASSUME NEW i \in 1..Len(q)
        PROVE  q[i] \in ToSet(Tail(q)) \union {Head(q)}
    <3>1. CASE i = 1
      BY <1>1, <3>1
    <3>2. CASE i # 1
      <4>1. i - 1 \in 1..(Len(q) - 1) /\ Tail(q)[i - 1] = q[i]
        BY <1>1, <3>2
      <4>2. QED
        BY <1>1, <4>1 DEF ToSet
    <3>3. QED
      BY <3>1, <3>2
  <2>2. QED
    BY <1>2, <1>3, <2>1 DEF ToSet
<1>5. ASSUME Distinct(q)
      PROVE  Distinct(Tail(q)) /\ Head(q) \notin ToSet(Tail(q))
  <2>1. \A i, j \in 1..(Len(q) - 1) : q[i + 1] = q[j + 1] => i = j
    BY <1>1, <1>5 DEF Distinct
  <2>2. \A i \in 1..(Len(q) - 1) : q[i + 1] # q[1]
    BY <1>1, <1>5 DEF Distinct
  <2>3. QED
    BY <1>1, <2>1, <2>2 DEF ToSet, Distinct
<1>6. QED
  BY <1>1, <1>2, <1>3, <1>4, <1>5

-----------------------------------------------------------------------------
\* Types, and what each goroutine has in hand: neither is inductive alone, as the
\* send in Release puts into the channel whatever the goroutine holds.
LEMMA TypeInductive ==
  ASSUME TypeOK, HandsFull, [Next]_vars
  PROVE  TypeOK' /\ HandsFull'
<1> USE DEF Goroutines, Cap, TypeOK, HandsFull, PCs, Busy, Goto, Drop
<1>1. ASSUME NEW s \in Sandboxes, Warm(s)
       PROVE  TypeOK' /\ HandsFull'
  BY <1>1, AppendFacts DEF Warm
<1>2. ASSUME WarmFail
       PROVE  TypeOK' /\ HandsFull'
  BY <1>2 DEF WarmFail
<1>3. ASSUME WarmDone
       PROVE  TypeOK' /\ HandsFull'
  BY <1>3 DEF WarmDone
<1>4. ASSUME NEW c \in Clients, Call(c)
       PROVE  TypeOK' /\ HandsFull'
  BY <1>4 DEF Call
<1>5. ASSUME NEW c \in Clients, AcquireReady(c)
       PROVE  TypeOK' /\ HandsFull'
  BY <1>5, TailFacts DEF AcquireReady
<1>6. ASSUME NEW c \in Clients, AcquireNil(c)
       PROVE  TypeOK' /\ HandsFull'
  BY <1>6 DEF AcquireNil
<1>7. ASSUME NEW c \in Clients, AcquireEmpty(c)
       PROVE  TypeOK' /\ HandsFull'
  BY <1>7 DEF AcquireEmpty
<1>8. ASSUME NEW c \in Clients, ExecNil(c)
       PROVE  TypeOK' /\ HandsFull'
  BY <1>8 DEF ExecNil
<1>9. ASSUME NEW c \in Clients, ExecWrite(c)
       PROVE  TypeOK' /\ HandsFull'
  BY <1>9 DEF ExecWrite
<1>10. ASSUME NEW c \in Clients, ExecError(c)
       PROVE  TypeOK' /\ HandsFull'
  BY <1>10 DEF ExecError
<1>11. ASSUME NEW c \in Clients, ExecEnd(c)
       PROVE  TypeOK' /\ HandsFull'
  BY <1>11 DEF ExecEnd
<1>12. ASSUME NEW c \in Clients, ReleaseClosed(c)
       PROVE  TypeOK' /\ HandsFull'
  BY <1>12 DEF ReleaseClosed
<1>13. ASSUME NEW c \in Clients, ReleaseOpen(c)
       PROVE  TypeOK' /\ HandsFull'
  BY <1>13 DEF ReleaseOpen
<1>14. ASSUME NEW c \in Clients, ResetOk(c)
       PROVE  TypeOK' /\ HandsFull'
  BY <1>14 DEF ResetOk
<1>15. ASSUME NEW c \in Clients, ResetFail(c)
       PROVE  TypeOK' /\ HandsFull'
  BY <1>15 DEF ResetFail
<1>16. ASSUME NEW c \in Clients, Forget(c)
       PROVE  TypeOK' /\ HandsFull'
  BY <1>16 DEF Forget
<1>17. ASSUME NEW r \in Sandboxes, RefillCheck(r)
       PROVE  TypeOK' /\ HandsFull'
  BY <1>17 DEF RefillCheck
<1>18. ASSUME NEW g \in Goroutines, NEW s \in Sandboxes, Create(g, s)
       PROVE  TypeOK' /\ HandsFull'
  BY <1>18 DEF Create
<1>19. ASSUME NEW g \in Goroutines, CreateFail(g)
       PROVE  TypeOK' /\ HandsFull'
  BY <1>19 DEF CreateFail
<1>20. ASSUME NEW g \in Goroutines, Track(g)
       PROVE  TypeOK' /\ HandsFull'
  BY <1>20 DEF Track
<1>21. ASSUME NEW g \in Goroutines, SendReady(g)
       PROVE  TypeOK' /\ HandsFull'
  BY <1>21, AppendFacts DEF SendReady
<1>22. ASSUME NEW g \in Goroutines, SendFull(g)
       PROVE  TypeOK' /\ HandsFull'
  BY <1>22 DEF SendFull
<1>23. ASSUME NEW g \in Goroutines, SendClosed(g)
       PROVE  TypeOK' /\ HandsFull'
  BY <1>23 DEF SendClosed
<1>24. ASSUME NEW g \in Goroutines, Untrack(g)
       PROVE  TypeOK' /\ HandsFull'
  BY <1>24 DEF Untrack
<1>25. ASSUME Close
       PROVE  TypeOK' /\ HandsFull'
  BY <1>25 DEF Close
<1>26. ASSUME CloseChannel
       PROVE  TypeOK' /\ HandsFull'
  BY <1>26 DEF CloseChannel
<1>27. ASSUME Drain
       PROVE  TypeOK' /\ HandsFull'
  <2>1. CASE ready # <<>>
    <3>1. Tail(ready) \in Seq(Sandboxes) /\ Len(Tail(ready)) <= Cap
      BY <2>1, TailFacts
    <3>2. TypeOK'
      BY <1>27, <2>1, <3>1 DEF Drain
    <3>3. QED
      BY <1>27, <3>2 DEF Drain
  <2>2. CASE ready = <<>>
    BY <1>27, <2>2 DEF TypeOK, HandsFull, PCs, Busy, Drain
  <2>3. QED
    BY <2>1, <2>2
<1>28. ASSUME NEW s \in Sandboxes, DestroyOne(s)
       PROVE  TypeOK' /\ HandsFull'
  BY <1>28 DEF DestroyOne
<1>29. ASSUME CloseDone
       PROVE  TypeOK' /\ HandsFull'
  BY <1>29 DEF CloseDone
<1>30. CASE UNCHANGED vars
  BY <1>30 DEF vars
<1>31. QED
  BY <1>1, <1>2, <1>3, <1>4, <1>5, <1>6, <1>7, <1>8, <1>9, <1>10, <1>11, <1>12,
     <1>13, <1>14, <1>15, <1>16, <1>17, <1>18, <1>19, <1>20, <1>21, <1>22, <1>23,
     <1>24, <1>25, <1>26, <1>27, <1>28, <1>29, <1>30
     DEF Next, ClientStep, SharedStep, CloserStep

\* The variables keep their types and the channel its capacity (pool.go, all of it).
THEOREM TypeCorrect == Spec => []TypeOK
<1>1. Init => TypeOK /\ HandsFull
  BY DEF Init, TypeOK, HandsFull, PCs, Busy, Goroutines, Cap
<1>2. TypeOK /\ HandsFull /\ [Next]_vars => (TypeOK /\ HandsFull)'
  BY TypeInductive
<1>3. QED
  BY <1>1, <1>2, PTL DEF Spec

\* A sandbox changes hands in one step, and only one that no one else has.
LEMMA OwnershipInductive ==
  ASSUME TypeOK, HandsFull, ExclusiveOwnership, Origins, [Next]_vars
  PROVE  ExclusiveOwnership' /\ Origins'
<1> USE DEF Goroutines, Cap, TypeOK, HandsFull, ExclusiveOwnership, Origins, PCs,
            Busy, Empty, Goto, Drop, closed
<1>1. ASSUME NEW s \in Sandboxes, Warm(s)
       PROVE  ExclusiveOwnership' /\ Origins'
  BY <1>1, AppendFacts DEF Warm
<1>2. ASSUME WarmFail
       PROVE  ExclusiveOwnership' /\ Origins'
  BY <1>2 DEF WarmFail
<1>3. ASSUME WarmDone
       PROVE  ExclusiveOwnership' /\ Origins'
  BY <1>3 DEF WarmDone
<1>4. ASSUME NEW c \in Clients, Call(c)
       PROVE  ExclusiveOwnership' /\ Origins'
  BY <1>4 DEF Call
<1>5. ASSUME NEW c \in Clients, AcquireReady(c)
       PROVE  ExclusiveOwnership' /\ Origins'
  BY <1>5, TailFacts DEF AcquireReady
<1>6. ASSUME NEW c \in Clients, AcquireNil(c)
       PROVE  ExclusiveOwnership' /\ Origins'
  BY <1>6 DEF AcquireNil
<1>7. ASSUME NEW c \in Clients, AcquireEmpty(c)
       PROVE  ExclusiveOwnership' /\ Origins'
  BY <1>7 DEF AcquireEmpty
<1>8. ASSUME NEW c \in Clients, ExecNil(c)
       PROVE  ExclusiveOwnership' /\ Origins'
  BY <1>8 DEF ExecNil
<1>9. ASSUME NEW c \in Clients, ExecWrite(c)
       PROVE  ExclusiveOwnership' /\ Origins'
  BY <1>9 DEF ExecWrite
<1>10. ASSUME NEW c \in Clients, ExecError(c)
       PROVE  ExclusiveOwnership' /\ Origins'
  BY <1>10 DEF ExecError
<1>11. ASSUME NEW c \in Clients, ExecEnd(c)
       PROVE  ExclusiveOwnership' /\ Origins'
  BY <1>11 DEF ExecEnd
<1>12. ASSUME NEW c \in Clients, ReleaseClosed(c)
       PROVE  ExclusiveOwnership' /\ Origins'
  BY <1>12 DEF ReleaseClosed
<1>13. ASSUME NEW c \in Clients, ReleaseOpen(c)
       PROVE  ExclusiveOwnership' /\ Origins'
  BY <1>13 DEF ReleaseOpen
<1>14. ASSUME NEW c \in Clients, ResetOk(c)
       PROVE  ExclusiveOwnership' /\ Origins'
  BY <1>14 DEF ResetOk
<1>15. ASSUME NEW c \in Clients, ResetFail(c)
       PROVE  ExclusiveOwnership' /\ Origins'
  BY <1>15 DEF ResetFail
<1>16. ASSUME NEW c \in Clients, Forget(c)
       PROVE  ExclusiveOwnership' /\ Origins'
  BY <1>16 DEF Forget
<1>17. ASSUME NEW r \in Sandboxes, RefillCheck(r)
       PROVE  ExclusiveOwnership' /\ Origins'
  BY <1>17 DEF RefillCheck
<1>18. ASSUME NEW g \in Goroutines, NEW s \in Sandboxes, Create(g, s)
       PROVE  ExclusiveOwnership' /\ Origins'
  BY <1>18 DEF Create
<1>19. ASSUME NEW g \in Goroutines, CreateFail(g)
       PROVE  ExclusiveOwnership' /\ Origins'
  BY <1>19 DEF CreateFail
<1>20. ASSUME NEW g \in Goroutines, Track(g)
       PROVE  ExclusiveOwnership' /\ Origins'
  BY <1>20 DEF Track
<1>21. ASSUME NEW g \in Goroutines, SendReady(g)
       PROVE  ExclusiveOwnership' /\ Origins'
  BY <1>21, AppendFacts DEF SendReady
<1>22. ASSUME NEW g \in Goroutines, SendFull(g)
       PROVE  ExclusiveOwnership' /\ Origins'
  BY <1>22 DEF SendFull
<1>23. ASSUME NEW g \in Goroutines, SendClosed(g)
       PROVE  ExclusiveOwnership' /\ Origins'
  BY <1>23 DEF SendClosed
<1>24. ASSUME NEW g \in Goroutines, Untrack(g)
       PROVE  ExclusiveOwnership' /\ Origins'
  BY <1>24 DEF Untrack
<1>25. ASSUME Close
       PROVE  ExclusiveOwnership' /\ Origins'
  BY <1>25 DEF Close
<1>26. ASSUME CloseChannel
       PROVE  ExclusiveOwnership' /\ Origins'
  BY <1>26 DEF CloseChannel
<1>27. ASSUME Drain
       PROVE  ExclusiveOwnership' /\ Origins'
  <2>1. CASE ready # <<>>
    <3>1. /\ Distinct(Tail(ready)) /\ ToSet(Tail(ready)) \subseteq ToSet(ready)
      BY <2>1, TailFacts DEF TypeOK, ExclusiveOwnership
    <3>2. QED
      BY <1>27, <2>1, <3>1 DEF TypeOK, ExclusiveOwnership, Origins, Drain, closed
  <2>2. CASE ready = <<>>
    BY <1>27, <2>2 DEF TypeOK, ExclusiveOwnership, Origins, Drain, closed
  <2>3. QED
    BY <2>1, <2>2
<1>28. ASSUME NEW s \in Sandboxes, DestroyOne(s)
       PROVE  ExclusiveOwnership' /\ Origins'
  BY <1>28 DEF DestroyOne
<1>29. ASSUME CloseDone
       PROVE  ExclusiveOwnership' /\ Origins'
  BY <1>29 DEF CloseDone
<1>30. CASE UNCHANGED vars
  BY <1>30 DEF vars
<1>31. QED
  BY <1>1, <1>2, <1>3, <1>4, <1>5, <1>6, <1>7, <1>8, <1>9, <1>10, <1>11, <1>12,
     <1>13, <1>14, <1>15, <1>16, <1>17, <1>18, <1>19, <1>20, <1>21, <1>22, <1>23,
     <1>24, <1>25, <1>26, <1>27, <1>28, <1>29, <1>30
     DEF Next, ClientStep, SharedStep, CloserStep

\* Reset lets a sandbox through only with its directory, and no step removes another
\* goroutine's directory while the pool is open.
LEMMA DirectoriesInductive ==
  ASSUME TypeOK, HandsFull, ExclusiveOwnership, Origins, Directories, LentIsAlive,
         [Next]_vars
  PROVE  Directories' /\ LentIsAlive'
<1> USE DEF Goroutines, Cap, TypeOK, HandsFull, ExclusiveOwnership, Origins, PCs,
            Busy, Empty, Goto, Drop, closed, chanOpen, Directories, LentIsAlive
<1>1. ASSUME NEW s \in Sandboxes, Warm(s)
       PROVE  Directories' /\ LentIsAlive'
  BY <1>1, AppendFacts DEF Warm
<1>2. ASSUME WarmFail
       PROVE  Directories' /\ LentIsAlive'
  BY <1>2 DEF WarmFail
<1>3. ASSUME WarmDone
       PROVE  Directories' /\ LentIsAlive'
  BY <1>3 DEF WarmDone
<1>4. ASSUME NEW c \in Clients, Call(c)
       PROVE  Directories' /\ LentIsAlive'
  BY <1>4 DEF Call
<1>5. ASSUME NEW c \in Clients, AcquireReady(c)
       PROVE  Directories' /\ LentIsAlive'
  BY <1>5, TailFacts DEF AcquireReady
<1>6. ASSUME NEW c \in Clients, AcquireNil(c)
       PROVE  Directories' /\ LentIsAlive'
  BY <1>6 DEF AcquireNil
<1>7. ASSUME NEW c \in Clients, AcquireEmpty(c)
       PROVE  Directories' /\ LentIsAlive'
  BY <1>7 DEF AcquireEmpty
<1>8. ASSUME NEW c \in Clients, ExecNil(c)
       PROVE  Directories' /\ LentIsAlive'
  BY <1>8 DEF ExecNil
<1>9. ASSUME NEW c \in Clients, ExecWrite(c)
       PROVE  Directories' /\ LentIsAlive'
  BY <1>9 DEF ExecWrite
<1>10. ASSUME NEW c \in Clients, ExecError(c)
       PROVE  Directories' /\ LentIsAlive'
  BY <1>10 DEF ExecError
<1>11. ASSUME NEW c \in Clients, ExecEnd(c)
       PROVE  Directories' /\ LentIsAlive'
  BY <1>11 DEF ExecEnd
<1>12. ASSUME NEW c \in Clients, ReleaseClosed(c)
       PROVE  Directories' /\ LentIsAlive'
  BY <1>12 DEF ReleaseClosed
<1>13. ASSUME NEW c \in Clients, ReleaseOpen(c)
       PROVE  Directories' /\ LentIsAlive'
  BY <1>13 DEF ReleaseOpen
<1>14. ASSUME NEW c \in Clients, ResetOk(c)
       PROVE  Directories' /\ LentIsAlive'
  BY <1>14 DEF ResetOk
<1>15. ASSUME NEW c \in Clients, ResetFail(c)
       PROVE  Directories' /\ LentIsAlive'
  BY <1>15 DEF ResetFail
<1>16. ASSUME NEW c \in Clients, Forget(c)
       PROVE  Directories' /\ LentIsAlive'
  BY <1>16 DEF Forget
<1>17. ASSUME NEW r \in Sandboxes, RefillCheck(r)
       PROVE  Directories' /\ LentIsAlive'
  BY <1>17 DEF RefillCheck
<1>18. ASSUME NEW g \in Goroutines, NEW s \in Sandboxes, Create(g, s)
       PROVE  Directories' /\ LentIsAlive'
  BY <1>18 DEF Create
<1>19. ASSUME NEW g \in Goroutines, CreateFail(g)
       PROVE  Directories' /\ LentIsAlive'
  BY <1>19 DEF CreateFail
<1>20. ASSUME NEW g \in Goroutines, Track(g)
       PROVE  Directories' /\ LentIsAlive'
  BY <1>20 DEF Track
<1>21. ASSUME NEW g \in Goroutines, SendReady(g)
       PROVE  Directories' /\ LentIsAlive'
  BY <1>21, AppendFacts DEF SendReady
<1>22. ASSUME NEW g \in Goroutines, SendFull(g)
       PROVE  Directories' /\ LentIsAlive'
  BY <1>22 DEF SendFull
<1>23. ASSUME NEW g \in Goroutines, SendClosed(g)
       PROVE  Directories' /\ LentIsAlive'
  BY <1>23 DEF SendClosed
<1>24. ASSUME NEW g \in Goroutines, Untrack(g)
       PROVE  Directories' /\ LentIsAlive'
  BY <1>24 DEF Untrack
<1>25. ASSUME Close
       PROVE  Directories' /\ LentIsAlive'
  BY <1>25 DEF Close
<1>26. ASSUME CloseChannel
       PROVE  Directories' /\ LentIsAlive'
  BY <1>26 DEF CloseChannel
<1>27. ASSUME Drain
       PROVE  Directories' /\ LentIsAlive'
  <2>1. CASE ready # <<>>
    <3>1. /\ ToSet(Tail(ready)) \subseteq ToSet(ready) /\ closed /\ closed'
      BY <1>27, <2>1, TailFacts DEF TypeOK, Drain, closed
    <3>2. QED
      BY <1>27, <2>1, <3>1 DEF TypeOK, Directories, LentIsAlive, Drain
  <2>2. CASE ready = <<>>
    BY <1>27, <2>2 DEF TypeOK, Directories, LentIsAlive, Drain, closed
  <2>3. QED
    BY <2>1, <2>2
<1>28. ASSUME NEW s \in Sandboxes, DestroyOne(s)
       PROVE  Directories' /\ LentIsAlive'
  BY <1>28 DEF DestroyOne
<1>29. ASSUME CloseDone
       PROVE  Directories' /\ LentIsAlive'
  BY <1>29 DEF CloseDone
<1>30. CASE UNCHANGED vars
  BY <1>30 DEF vars
<1>31. QED
  BY <1>1, <1>2, <1>3, <1>4, <1>5, <1>6, <1>7, <1>8, <1>9, <1>10, <1>11, <1>12,
     <1>13, <1>14, <1>15, <1>16, <1>17, <1>18, <1>19, <1>20, <1>21, <1>22, <1>23,
     <1>24, <1>25, <1>26, <1>27, <1>28, <1>29, <1>30
     DEF Next, ClientStep, SharedStep, CloserStep

\* The map follows every hand-over, and only a sandbox destroyed first is dropped.
LEMMA AccountingInductive ==
  ASSUME TypeOK, HandsFull, ExclusiveOwnership, Origins, Directories, OpenPoolAccounts,
         [Next]_vars
  PROVE  OpenPoolAccounts'
<1> USE DEF Goroutines, Cap, TypeOK, HandsFull, ExclusiveOwnership, Origins, PCs,
            Busy, Empty, Goto, Drop, closed, chanOpen, OpenPoolAccounts, HeldBy,
            Directories
<1>1. ASSUME NEW s \in Sandboxes, Warm(s)
       PROVE  OpenPoolAccounts'
  BY <1>1, AppendFacts DEF Warm
<1>2. ASSUME WarmFail
       PROVE  OpenPoolAccounts'
  BY <1>2 DEF WarmFail
<1>3. ASSUME WarmDone
       PROVE  OpenPoolAccounts'
  BY <1>3 DEF WarmDone
<1>4. ASSUME NEW c \in Clients, Call(c)
       PROVE  OpenPoolAccounts'
  BY <1>4 DEF Call
<1>5. ASSUME NEW c \in Clients, AcquireReady(c)
       PROVE  OpenPoolAccounts'
  <2>1. ToSet(ready) = ToSet(Tail(ready)) \union {Head(ready)} /\ Head(ready) \notin ToSet(Tail(ready))
    BY <1>5, TailFacts DEF TypeOK, ExclusiveOwnership, AcquireReady
  <2>2. held[c] = None /\ pc'[c] # "track" /\ held'[c] = Head(ready) /\ Head(ready) # None
    BY <1>5, <2>1, TailFacts DEF TypeOK, Origins, Empty, AcquireReady, Goto
  <2>3. \A g \in Goroutines \ {c} : pc'[g] = pc[g] /\ held'[g] = held[g]
    BY <1>5 DEF TypeOK, AcquireReady, Goto
  <2>4. HeldBy({g \in Goroutines : pc[g] # "track"})' = HeldBy({g \in Goroutines : pc[g] # "track"}) \union {Head(ready)}
    BY <1>5, <2>2, <2>3 DEF HeldBy, AcquireReady
  <2>5. HeldBy(Goroutines)' = HeldBy(Goroutines) \union {Head(ready)}
    BY <2>2, <2>3 DEF HeldBy
  <2>6. QED
    BY <1>5, <2>1, <2>4, <2>5 DEF OpenPoolAccounts, AcquireReady, closed
<1>6. ASSUME NEW c \in Clients, AcquireNil(c)
       PROVE  OpenPoolAccounts'
  BY <1>6 DEF AcquireNil
<1>7. ASSUME NEW c \in Clients, AcquireEmpty(c)
       PROVE  OpenPoolAccounts'
  BY <1>7 DEF AcquireEmpty
<1>8. ASSUME NEW c \in Clients, ExecNil(c)
       PROVE  OpenPoolAccounts'
  BY <1>8 DEF ExecNil
<1>9. ASSUME NEW c \in Clients, ExecWrite(c)
       PROVE  OpenPoolAccounts'
  BY <1>9 DEF ExecWrite
<1>10. ASSUME NEW c \in Clients, ExecError(c)
       PROVE  OpenPoolAccounts'
  BY <1>10 DEF ExecError
<1>11. ASSUME NEW c \in Clients, ExecEnd(c)
       PROVE  OpenPoolAccounts'
  BY <1>11 DEF ExecEnd
<1>12. ASSUME NEW c \in Clients, ReleaseClosed(c)
       PROVE  OpenPoolAccounts'
  BY <1>12 DEF ReleaseClosed
<1>13. ASSUME NEW c \in Clients, ReleaseOpen(c)
       PROVE  OpenPoolAccounts'
  BY <1>13 DEF ReleaseOpen
<1>14. ASSUME NEW c \in Clients, ResetOk(c)
       PROVE  OpenPoolAccounts'
  BY <1>14 DEF ResetOk
<1>15. ASSUME NEW c \in Clients, ResetFail(c)
       PROVE  OpenPoolAccounts'
  BY <1>15 DEF ResetFail
<1>16. ASSUME NEW c \in Clients, Forget(c)
       PROVE  OpenPoolAccounts'
  BY <1>16 DEF Forget
<1>17. ASSUME NEW r \in Sandboxes, RefillCheck(r)
       PROVE  OpenPoolAccounts'
  BY <1>17 DEF RefillCheck
<1>18. ASSUME NEW g \in Goroutines, NEW s \in Sandboxes, Create(g, s)
       PROVE  OpenPoolAccounts'
  BY <1>18 DEF Create
<1>19. ASSUME NEW g \in Goroutines, CreateFail(g)
       PROVE  OpenPoolAccounts'
  BY <1>19 DEF CreateFail
<1>20. ASSUME NEW g \in Goroutines, Track(g)
       PROVE  OpenPoolAccounts'
  BY <1>20 DEF Track
<1>21. ASSUME NEW g \in Goroutines, SendReady(g)
       PROVE  OpenPoolAccounts'
  BY <1>21, AppendFacts DEF SendReady
<1>22. ASSUME NEW g \in Goroutines, SendFull(g)
       PROVE  OpenPoolAccounts'
  BY <1>22 DEF SendFull
<1>23. ASSUME NEW g \in Goroutines, SendClosed(g)
       PROVE  OpenPoolAccounts'
  BY <1>23 DEF SendClosed
<1>24. ASSUME NEW g \in Goroutines, Untrack(g)
       PROVE  OpenPoolAccounts'
  BY <1>24 DEF Untrack
<1>25. ASSUME Close
       PROVE  OpenPoolAccounts'
  BY <1>25 DEF Close
<1>26. ASSUME CloseChannel
       PROVE  OpenPoolAccounts'
  BY <1>26 DEF CloseChannel
<1>27. ASSUME Drain
       PROVE  OpenPoolAccounts'
  <2>1. CASE ready # <<>>
    <3>1. /\ ToSet(Tail(ready)) \subseteq ToSet(ready) /\ closed /\ closed'
      BY <1>27, <2>1, TailFacts DEF TypeOK, Drain, closed
    <3>2. QED
      BY <1>27, <2>1, <3>1 DEF TypeOK, OpenPoolAccounts, HeldBy, Directories, Drain
  <2>2. CASE ready = <<>>
    BY <1>27, <2>2 DEF TypeOK, OpenPoolAccounts, HeldBy, Directories, Drain, closed
  <2>3. QED
    BY <2>1, <2>2
<1>28. ASSUME NEW s \in Sandboxes, DestroyOne(s)
       PROVE  OpenPoolAccounts'
  BY <1>28 DEF DestroyOne
<1>29. ASSUME CloseDone
       PROVE  OpenPoolAccounts'
  BY <1>29 DEF CloseDone
<1>30. CASE UNCHANGED vars
  BY <1>30 DEF vars
<1>31. QED
  BY <1>1, <1>2, <1>3, <1>4, <1>5, <1>6, <1>7, <1>8, <1>9, <1>10, <1>11, <1>12,
     <1>13, <1>14, <1>15, <1>16, <1>17, <1>18, <1>19, <1>20, <1>21, <1>22, <1>23,
     <1>24, <1>25, <1>26, <1>27, <1>28, <1>29, <1>30
     DEF Next, ClientStep, SharedStep, CloserStep

\* What Close did not capture is in hands that will find the pool closed, or a refill's
\* and tracked, or was left by a failed Destroy.
LEMMA ClosingInductive ==
  ASSUME TypeOK, HandsFull, ExclusiveOwnership, Origins, Directories, OpenPoolAccounts,
         ClosingCovers, DoneIsDone, [Next]_vars
  PROVE  ClosingCovers' /\ DoneIsDone'
<1> USE DEF Goroutines, Cap, TypeOK, HandsFull, ExclusiveOwnership, Origins, PCs,
            Busy, Empty, Goto, Drop, closed, chanOpen, ClosingCovers, DoneIsDone,
            OpenPoolAccounts, HeldBy
<1>1. ASSUME NEW s \in Sandboxes, Warm(s)
       PROVE  ClosingCovers' /\ DoneIsDone'
  BY <1>1, AppendFacts DEF Warm
<1>2. ASSUME WarmFail
       PROVE  ClosingCovers' /\ DoneIsDone'
  BY <1>2 DEF WarmFail
<1>3. ASSUME WarmDone
       PROVE  ClosingCovers' /\ DoneIsDone'
  BY <1>3 DEF WarmDone
<1>4. ASSUME NEW c \in Clients, Call(c)
       PROVE  ClosingCovers' /\ DoneIsDone'
  BY <1>4 DEF Call
<1>5. ASSUME NEW c \in Clients, AcquireReady(c)
       PROVE  ClosingCovers' /\ DoneIsDone'
  BY <1>5, TailFacts DEF AcquireReady
<1>6. ASSUME NEW c \in Clients, AcquireNil(c)
       PROVE  ClosingCovers' /\ DoneIsDone'
  BY <1>6 DEF AcquireNil
<1>7. ASSUME NEW c \in Clients, AcquireEmpty(c)
       PROVE  ClosingCovers' /\ DoneIsDone'
  BY <1>7 DEF AcquireEmpty
<1>8. ASSUME NEW c \in Clients, ExecNil(c)
       PROVE  ClosingCovers' /\ DoneIsDone'
  BY <1>8 DEF ExecNil
<1>9. ASSUME NEW c \in Clients, ExecWrite(c)
       PROVE  ClosingCovers' /\ DoneIsDone'
  BY <1>9 DEF ExecWrite
<1>10. ASSUME NEW c \in Clients, ExecError(c)
       PROVE  ClosingCovers' /\ DoneIsDone'
  BY <1>10 DEF ExecError
<1>11. ASSUME NEW c \in Clients, ExecEnd(c)
       PROVE  ClosingCovers' /\ DoneIsDone'
  BY <1>11 DEF ExecEnd
<1>12. ASSUME NEW c \in Clients, ReleaseClosed(c)
       PROVE  ClosingCovers' /\ DoneIsDone'
  BY <1>12 DEF ReleaseClosed
<1>13. ASSUME NEW c \in Clients, ReleaseOpen(c)
       PROVE  ClosingCovers' /\ DoneIsDone'
  BY <1>13 DEF ReleaseOpen
<1>14. ASSUME NEW c \in Clients, ResetOk(c)
       PROVE  ClosingCovers' /\ DoneIsDone'
  BY <1>14 DEF ResetOk
<1>15. ASSUME NEW c \in Clients, ResetFail(c)
       PROVE  ClosingCovers' /\ DoneIsDone'
  BY <1>15 DEF ResetFail
<1>16. ASSUME NEW c \in Clients, Forget(c)
       PROVE  ClosingCovers' /\ DoneIsDone'
  BY <1>16 DEF Forget, Directories
<1>17. ASSUME NEW r \in Sandboxes, RefillCheck(r)
       PROVE  ClosingCovers' /\ DoneIsDone'
  BY <1>17 DEF RefillCheck
<1>18. ASSUME NEW g \in Goroutines, NEW s \in Sandboxes, Create(g, s)
       PROVE  ClosingCovers' /\ DoneIsDone'
  BY <1>18 DEF Create
<1>19. ASSUME NEW g \in Goroutines, CreateFail(g)
       PROVE  ClosingCovers' /\ DoneIsDone'
  BY <1>19 DEF CreateFail
<1>20. ASSUME NEW g \in Goroutines, Track(g)
       PROVE  ClosingCovers' /\ DoneIsDone'
  BY <1>20 DEF Track
<1>21. ASSUME NEW g \in Goroutines, SendReady(g)
       PROVE  ClosingCovers' /\ DoneIsDone'
  BY <1>21, AppendFacts DEF SendReady
<1>22. ASSUME NEW g \in Goroutines, SendFull(g)
       PROVE  ClosingCovers' /\ DoneIsDone'
  BY <1>22 DEF SendFull
<1>23. ASSUME NEW g \in Goroutines, SendClosed(g)
       PROVE  ClosingCovers' /\ DoneIsDone'
  BY <1>23 DEF SendClosed
<1>24. ASSUME NEW g \in Goroutines, Untrack(g)
       PROVE  ClosingCovers' /\ DoneIsDone'
  BY <1>24 DEF Untrack, Directories
<1>25. ASSUME Close
       PROVE  ClosingCovers' /\ DoneIsDone'
  BY <1>25 DEF Close
<1>26. ASSUME CloseChannel
       PROVE  ClosingCovers' /\ DoneIsDone'
  BY <1>26 DEF CloseChannel
<1>27. ASSUME Drain
       PROVE  ClosingCovers' /\ DoneIsDone'
  <2>1. CASE ready # <<>>
    <3>1. /\ ToSet(Tail(ready)) \subseteq ToSet(ready) /\ closed /\ closed'
      BY <1>27, <2>1, TailFacts DEF TypeOK, Drain, closed
    <3>2. QED
      BY <1>27, <2>1, <3>1 DEF TypeOK, ClosingCovers, DoneIsDone, OpenPoolAccounts, HeldBy, Drain
  <2>2. CASE ready = <<>>
    BY <1>27, <2>2 DEF TypeOK, ClosingCovers, DoneIsDone, OpenPoolAccounts, HeldBy, Drain, closed
  <2>3. QED
    BY <2>1, <2>2
<1>28. ASSUME NEW s \in Sandboxes, DestroyOne(s)
       PROVE  ClosingCovers' /\ DoneIsDone'
  BY <1>28 DEF DestroyOne
<1>29. ASSUME CloseDone
       PROVE  ClosingCovers' /\ DoneIsDone'
  BY <1>29 DEF CloseDone
<1>30. CASE UNCHANGED vars
  BY <1>30 DEF vars
<1>31. QED
  BY <1>1, <1>2, <1>3, <1>4, <1>5, <1>6, <1>7, <1>8, <1>9, <1>10, <1>11, <1>12,
     <1>13, <1>14, <1>15, <1>16, <1>17, <1>18, <1>19, <1>20, <1>21, <1>22, <1>23,
     <1>24, <1>25, <1>26, <1>27, <1>28, <1>29, <1>30
     DEF Next, ClientStep, SharedStep, CloserStep

-----------------------------------------------------------------------------
PoolInv == /\ TypeOK /\ HandsFull /\ ExclusiveOwnership /\ Origins
           /\ Directories /\ LentIsAlive /\ OpenPoolAccounts
           /\ ClosingCovers /\ DoneIsDone

\* The conjunction is inductive: each part holds after a step because of the parts
\* before it.
LEMMA PoolInvariant == Spec => []PoolInv
<1>1. Init => PoolInv
  BY DEF Init, PoolInv, TypeOK, HandsFull, ExclusiveOwnership, Origins, Directories,
         LentIsAlive, OpenPoolAccounts, ClosingCovers, DoneIsDone, PCs, Busy, Empty,
         Goroutines, Cap, closed, ToSet, Distinct, HeldBy
<1>2. PoolInv /\ [Next]_vars => PoolInv'
  BY TypeInductive, OwnershipInductive, DirectoriesInductive, AccountingInductive,
     ClosingInductive DEF PoolInv
<1>3. QED
  BY <1>1, <1>2, PTL DEF Spec

\* A sandbox has one owner, at any time, with any number of handlers, refills
\* and Close running together.
THEOREM PoolExclusive == Spec => []ExclusiveOwnership
<1>1. PoolInv => ExclusiveOwnership
  BY DEF PoolInv
<1>2. QED
  BY <1>1, PoolInvariant, PTL

\* Until Close, no handler is given a sandbox whose directory is gone.
THEOREM PoolLendsLive == Spec => []LentIsAlive
<1>1. PoolInv => LentIsAlive
  BY DEF PoolInv
<1>2. QED
  BY <1>1, PoolInvariant, PTL

\* Until Close, p.all names exactly the sandboxes Close has to destroy, and the only
\* directories without an owner are those whose Destroy failed.
THEOREM PoolAccounts == Spec => []OpenPoolAccounts
<1>1. PoolInv => OpenPoolAccounts
  BY DEF PoolInv
<1>2. QED
  BY <1>1, PoolInvariant, PTL

\* Close and the goroutines that outlive it leave no directory behind but those whose
\* Destroy failed and those of refills that tracked theirs after Close took the map.
THEOREM PoolCloseReclaims == Spec => []CloseReclaims
<1>1. PoolInv => CloseReclaims
  BY DEF PoolInv, CloseReclaims, ClosingCovers, DoneIsDone, Quiet, Goroutines, closed
<1>2. QED
  BY <1>1, PoolInvariant, PTL

-----------------------------------------------------------------------------
(* The pool implements PoolContract.                                        *)

LentSteps == {"using", "running", "release", "reset", "send"}

\* Every way a client gives its sandbox up other than by a send.
LEMMA DiscardStep ==
  ASSUME TypeOK, ExclusiveOwnership, Origins,
         NEW c \in Clients, pc[c] \in LentSteps, held[c] # None,
         pc' \in [Goroutines -> PCs], pc'[c] \notin LentSteps \union {"track"},
         \A g \in Goroutines \ {c} : pc'[g] = pc[g] /\ held'[g] = held[g],
         UNCHANGED <<ready, born>>
  PROVE  Contract!Discard(c)
<1> USE DEF Goroutines, LentSteps, PoolAssumption
<1>1. LentTo[c] = held[c]
  BY DEF LentTo, Lent
<1>2. LentTo' = [LentTo EXCEPT ![c] = None]
  BY DEF LentTo, Lent
<1>3. InMaking' = InMaking
  BY DEF InMaking, HeldBy, TypeOK
<1>4. /\ held[c] \in born /\ held[c] \notin ToSet(ready) /\ held[c] \notin InMaking
      /\ \A d \in Clients \ {c} : Lent(d) # held[c] /\ Lent(d)' = Lent(d)
      /\ Lent(c) = held[c] /\ Lent(c)' = None
  BY DEF InMaking, HeldBy, Lent, ExclusiveOwnership, Origins, TypeOK
<1>5. held[c] \in HandedOut /\ HandedOut' = HandedOut \ {held[c]}
  BY <1>4 DEF HandedOut
<1>6. Retired' = Retired \union {held[c]}
  BY <1>3, <1>4, <1>5 DEF Retired
<1>7. QED
  BY <1>1, <1>2, <1>6 DEF Contract!Discard

\* A refill's sandbox that never reaches the channel.
LEMMA WasteStep ==
  ASSUME TypeOK, HandsFull, ExclusiveOwnership, Origins,
         NEW r \in Sandboxes, pc[r] = "send",
         pc' \in [Goroutines -> PCs], pc'[r] \in {"untrack", "panicked"},
         \A g \in Goroutines \ {r} : pc'[g] = pc[g],
         UNCHANGED <<ready, born, held>>
  PROVE  Contract!Waste(held[r])
<1> USE DEF Goroutines, PoolAssumption
<1>1. LentTo' = LentTo
  BY DEF LentTo, Lent
<1>2. /\ held[r] \in born /\ held[r] \notin ToSet(ready)
      /\ \A d \in Clients : Lent(d) # held[r] /\ Lent(d)' = Lent(d)
  BY DEF Lent, ExclusiveOwnership, Origins, TypeOK, HandsFull, Busy
<1>3. held[r] \in InMaking /\ InMaking' = InMaking \ {held[r]}
  BY DEF InMaking, HeldBy, ExclusiveOwnership, TypeOK, HandsFull, Busy
<1>4. Retired' = Retired \union {held[r]} /\ held[r] \notin Retired
  BY <1>2, <1>3 DEF Retired, HandedOut
<1>5. held[r] \in Contract!Unseen
  BY <1>2, <1>4 DEF Contract!Unseen, Contract!Borrowed, LentTo, Origins, TypeOK
<1>6. QED
  BY <1>1, <1>4, <1>5 DEF Contract!Waste

\* The contract's actions are steps of the contract.
LEMMA ContractSteps ==
  /\ \A s \in Sandboxes : Contract!Stock(s) \/ Contract!Purge(s) \/ Contract!Waste(s) => Contract!Next
  /\ \A c \in Clients, s \in Sandboxes : Contract!Lend(c, s) \/ Contract!LendNew(c, s) => Contract!Next
  /\ \A c \in Clients : Contract!Return(c) \/ Contract!Discard(c) => Contract!Next
<1>1. ASSUME NEW s \in Sandboxes
      PROVE  Contract!Stock(s) \/ Contract!Purge(s) \/ Contract!Waste(s) => Contract!Next
  BY DEF Contract!Next
<1>2. ASSUME NEW c \in Clients, NEW s \in Sandboxes
      PROVE  Contract!Lend(c, s) \/ Contract!LendNew(c, s) => Contract!Next
  BY DEF Contract!Next
<1>3. ASSUME NEW c \in Clients
      PROVE  Contract!Return(c) \/ Contract!Discard(c) => Contract!Next
  BY DEF Contract!Next
<1>4. QED
  BY <1>1, <1>2, <1>3

\* Which step of the contract each step of the pool is; all others stutter.
LEMMA StepRefines ==
  ASSUME TypeOK, HandsFull, ExclusiveOwnership, Origins, [Next]_vars, TypeOK'
  PROVE  [Contract!Next]_(Contract!vars)
<1> DEFINE Same == UNCHANGED <<ToSet(ready), LentTo, Retired>>
<1> DEFINE Step == Contract!Next \/ Same
<1> USE DEF Goroutines
<1>1. ASSUME NEW s \in Sandboxes, Warm(s)
       PROVE  Step
  <2>1. Contract!Stock(s)
    BY <1>1, AppendFacts DEF TypeOK, HandsFull, ExclusiveOwnership, Origins, PCs, Busy, Empty, Goto, Drop, LentTo, Lent, Retired, HandedOut, InMaking, HeldBy, Contract!Unseen, Contract!Borrowed, Contract!Stock, closed, Warm
  <2>2. QED
    BY <2>1, ContractSteps
<1>2. ASSUME WarmFail
       PROVE  Step
  <2>1. Same
    BY <1>2 DEF TypeOK, HandsFull, ExclusiveOwnership, Origins, PCs, Busy, Empty, Goto, Drop, LentTo, Lent, Retired, HandedOut, InMaking, HeldBy, WarmFail
  <2>2. QED
    BY <2>1
<1>3. ASSUME WarmDone
       PROVE  Step
  <2>1. Same
    BY <1>3 DEF TypeOK, HandsFull, ExclusiveOwnership, Origins, PCs, Busy, Empty, Goto, Drop, LentTo, Lent, Retired, HandedOut, InMaking, HeldBy, WarmDone
  <2>2. QED
    BY <2>1
<1>4. ASSUME NEW c \in Clients, Call(c)
       PROVE  Step
  <2>1. Same
    BY <1>4 DEF TypeOK, HandsFull, ExclusiveOwnership, Origins, PCs, Busy, Empty, Goto, Drop, LentTo, Lent, Retired, HandedOut, InMaking, HeldBy, Call
  <2>2. QED
    BY <2>1
<1>5. ASSUME NEW c \in Clients, AcquireReady(c)
       PROVE  Step
  <2>1. /\ ready # <<>> /\ Head(ready) \in Sandboxes
        /\ ToSet(ready)' = ToSet(ready) \ {Head(ready)} /\ Head(ready) \in ToSet(ready)
    BY <1>5, TailFacts DEF TypeOK, ExclusiveOwnership, AcquireReady
  <2>2. Lent(c) = None /\ Lent(c)' = Head(ready) /\ \A d \in Clients \ {c} : Lent(d)' = Lent(d)
    BY <1>5 DEF AcquireReady, TypeOK, Lent, Goto
  <2>3. InMaking' = InMaking
    BY <1>5 DEF TypeOK, HandsFull, ExclusiveOwnership, Origins, PCs, Busy, Empty, Goto, Drop, InMaking, HeldBy, AcquireReady
  <2>4. Retired' = Retired
    BY <1>5, <2>1, <2>2, <2>3 DEF Retired, HandedOut, AcquireReady
  <2>5. LentTo[c] = None /\ LentTo' = [LentTo EXCEPT ![c] = Head(ready)]
    BY <2>2 DEF LentTo
  <2>6. Contract!Lend(c, Head(ready))
    BY <2>1, <2>4, <2>5 DEF Contract!Lend
  <2>7. QED
    BY <2>1, <2>6, ContractSteps
<1>6. ASSUME NEW c \in Clients, AcquireNil(c)
       PROVE  Step
  <2>1. Same
    BY <1>6 DEF TypeOK, HandsFull, ExclusiveOwnership, Origins, PCs, Busy, Empty, Goto, Drop, LentTo, Lent, Retired, HandedOut, InMaking, HeldBy, AcquireNil
  <2>2. QED
    BY <2>1
<1>7. ASSUME NEW c \in Clients, AcquireEmpty(c)
       PROVE  Step
  <2>1. Same
    BY <1>7 DEF TypeOK, HandsFull, ExclusiveOwnership, Origins, PCs, Busy, Empty, Goto, Drop, LentTo, Lent, Retired, HandedOut, InMaking, HeldBy, AcquireEmpty
  <2>2. QED
    BY <2>1
<1>8. ASSUME NEW c \in Clients, ExecNil(c)
       PROVE  Step
  <2>1. Same
    BY <1>8 DEF TypeOK, HandsFull, ExclusiveOwnership, Origins, PCs, Busy, Empty, Goto, Drop, LentTo, Lent, Retired, HandedOut, InMaking, HeldBy, ExecNil
  <2>2. QED
    BY <2>1
<1>9. ASSUME NEW c \in Clients, ExecWrite(c)
       PROVE  Step
  <2>1. Same
    BY <1>9 DEF TypeOK, HandsFull, ExclusiveOwnership, Origins, PCs, Busy, Empty, Goto, Drop, LentTo, Lent, Retired, HandedOut, InMaking, HeldBy, ExecWrite
  <2>2. QED
    BY <2>1
<1>10. ASSUME NEW c \in Clients, ExecError(c)
       PROVE  Step
  <2>1. Same
    BY <1>10 DEF TypeOK, HandsFull, ExclusiveOwnership, Origins, PCs, Busy, Empty, Goto, Drop, LentTo, Lent, Retired, HandedOut, InMaking, HeldBy, ExecError
  <2>2. QED
    BY <2>1
<1>11. ASSUME NEW c \in Clients, ExecEnd(c)
       PROVE  Step
  <2>1. Same
    BY <1>11 DEF TypeOK, HandsFull, ExclusiveOwnership, Origins, PCs, Busy, Empty, Goto, Drop, LentTo, Lent, Retired, HandedOut, InMaking, HeldBy, ExecEnd
  <2>2. QED
    BY <2>1
<1>12. ASSUME NEW c \in Clients, ReleaseClosed(c)
       PROVE  Step
  <2>1. /\ held[c] # None /\ pc[c] \in LentSteps /\ pc'[c] \notin LentSteps \union {"track"}
        /\ \A g \in Goroutines \ {c} : pc'[g] = pc[g] /\ held'[g] = held[g]
        /\ UNCHANGED <<ready, born>> /\ pc' \in [Goroutines -> PCs]
    BY <1>12 DEF TypeOK, HandsFull, Busy, Goto, Drop, LentSteps, ReleaseClosed
  <2>2. Contract!Discard(c)
    BY <2>1, DiscardStep
  <2>3. QED
    BY <2>2, ContractSteps
<1>13. ASSUME NEW c \in Clients, ReleaseOpen(c)
       PROVE  Step
  <2>1. Same
    BY <1>13 DEF TypeOK, HandsFull, ExclusiveOwnership, Origins, PCs, Busy, Empty, Goto, Drop, LentTo, Lent, Retired, HandedOut, InMaking, HeldBy, ReleaseOpen
  <2>2. QED
    BY <2>1
<1>14. ASSUME NEW c \in Clients, ResetOk(c)
       PROVE  Step
  <2>1. Same
    BY <1>14 DEF TypeOK, HandsFull, ExclusiveOwnership, Origins, PCs, Busy, Empty, Goto, Drop, LentTo, Lent, Retired, HandedOut, InMaking, HeldBy, ResetOk
  <2>2. QED
    BY <2>1
<1>15. ASSUME NEW c \in Clients, ResetFail(c)
       PROVE  Step
  <2>1. /\ held[c] # None /\ pc[c] \in LentSteps /\ pc'[c] \notin LentSteps \union {"track"}
        /\ \A g \in Goroutines \ {c} : pc'[g] = pc[g] /\ held'[g] = held[g]
        /\ UNCHANGED <<ready, born>> /\ pc' \in [Goroutines -> PCs]
    BY <1>15 DEF TypeOK, HandsFull, Busy, Goto, Drop, LentSteps, ResetFail
  <2>2. Contract!Discard(c)
    BY <2>1, DiscardStep
  <2>3. QED
    BY <2>2, ContractSteps
<1>16. ASSUME NEW c \in Clients, Forget(c)
       PROVE  Step
  <2>1. Same
    BY <1>16 DEF TypeOK, HandsFull, ExclusiveOwnership, Origins, PCs, Busy, Empty, Goto, Drop, LentTo, Lent, Retired, HandedOut, InMaking, HeldBy, Forget
  <2>2. QED
    BY <2>1
<1>17. ASSUME NEW r \in Sandboxes, RefillCheck(r)
       PROVE  Step
  <2>1. Same
    BY <1>17 DEF TypeOK, HandsFull, ExclusiveOwnership, Origins, PCs, Busy, Empty, Goto, Drop, LentTo, Lent, Retired, HandedOut, InMaking, HeldBy, RefillCheck
  <2>2. QED
    BY <2>1
<1>18. ASSUME NEW g \in Goroutines, NEW s \in Sandboxes, Create(g, s)
       PROVE  Step
  <2>1. Same
    BY <1>18 DEF TypeOK, HandsFull, ExclusiveOwnership, Origins, PCs, Busy, Empty, Goto, Drop, LentTo, Lent, Retired, HandedOut, InMaking, HeldBy, Create
  <2>2. QED
    BY <2>1
<1>19. ASSUME NEW g \in Goroutines, CreateFail(g)
       PROVE  Step
  <2>1. Same
    BY <1>19 DEF TypeOK, HandsFull, ExclusiveOwnership, Origins, PCs, Busy, Empty, Goto, Drop, LentTo, Lent, Retired, HandedOut, InMaking, HeldBy, CreateFail
  <2>2. QED
    BY <2>1
<1>20. ASSUME NEW g \in Goroutines, Track(g)
       PROVE  Step
  <2>1. CASE g \in Clients
    <3>1. /\ held[g] \in born /\ held[g] \in Sandboxes /\ held[g] # None
          /\ held[g] \notin ToSet(ready) /\ UNCHANGED <<ready, born, held>>
          /\ \A h \in Goroutines \ {g} : pc'[h] = pc[h] /\ held[h] # held[g]
          /\ pc[g] = "track" /\ pc'[g] = "using"
      BY <1>20, <2>1 DEF TypeOK, HandsFull, ExclusiveOwnership, Origins, PCs, Busy, Empty, Goto, Drop, Track
    <3>2. Lent(g) = None /\ Lent(g)' = held[g] /\ \A d \in Clients \ {g} : Lent(d)' = Lent(d) /\ Lent(d) # held[g]
      BY <2>1, <3>1 DEF Lent
    <3>3. held[g] \in InMaking /\ InMaking' = InMaking \ {held[g]}
      BY <2>1, <3>1 DEF InMaking, HeldBy
    <3>4. UNCHANGED Retired /\ held[g] \notin Retired
      BY <2>1, <3>1, <3>2, <3>3 DEF Retired, HandedOut
    <3>5. LentTo[g] = None /\ LentTo' = [LentTo EXCEPT ![g] = held[g]]
      BY <2>1, <3>2 DEF LentTo
    <3>6. held[g] \in Contract!Unseen
      BY <3>1, <3>2, <3>4 DEF Contract!Unseen, Contract!Borrowed, LentTo
    <3>7. Contract!LendNew(g, held[g])
      BY <3>1, <3>4, <3>5, <3>6 DEF Contract!LendNew
    <3>8. QED
      BY <2>1, <3>1, <3>7, ContractSteps
  <2>2. CASE g \in Sandboxes
    <3>1. Same
      BY <1>20, <2>2 DEF TypeOK, HandsFull, ExclusiveOwnership, Origins, PCs, Busy, Empty, Goto, Drop, LentTo, Lent, Retired, HandedOut, InMaking, HeldBy, Track
    <3>2. QED
      BY <3>1
  <2>3. QED
    BY <2>1, <2>2
<1>21. ASSUME NEW g \in Goroutines, SendReady(g)
       PROVE  Step
  <2>1. /\ held[g] \in born /\ held[g] \in Sandboxes /\ held[g] # None /\ held[g] \notin ToSet(ready)
        /\ ToSet(ready)' = ToSet(ready) \union {held[g]}
        /\ pc[g] = "send" /\ pc'[g] = "idle" /\ held'[g] = None
        /\ \A h \in Goroutines \ {g} : pc'[h] = pc[h] /\ held'[h] = held[h] /\ held[h] # held[g]
    BY <1>21, AppendFacts DEF TypeOK, HandsFull, ExclusiveOwnership, Origins, PCs, Busy, Empty, Goto, Drop, SendReady
  <2>2. CASE g \in Clients
    <3>1. Lent(g) = held[g] /\ Lent(g)' = None /\ \A d \in Clients \ {g} : Lent(d)' = Lent(d)
      BY <2>1, <2>2 DEF Lent
    <3>2. InMaking' = InMaking
      BY <2>1, <2>2 DEF InMaking, HeldBy
    <3>3. UNCHANGED Retired
      <4>1. \A d \in Clients \ {g} : Lent(d) # held[g]
        BY <2>1, <2>2 DEF Lent
      <4>2. held[g] \in HandedOut /\ HandedOut' = HandedOut \ {held[g]}
        BY <2>1, <2>2, <3>1, <4>1 DEF HandedOut
      <4>3. UNCHANGED born
        BY <1>21 DEF SendReady
      <4>4. QED
        BY <2>1, <3>2, <4>2, <4>3 DEF Retired
    <3>4. Contract!Return(g)
      BY <2>1, <2>2, <3>1, <3>3 DEF LentTo, Contract!Return
    <3>5. QED
      BY <2>2, <3>4, ContractSteps
  <2>3. CASE g \in Sandboxes
    <3>1. \A d \in Clients : Lent(d)' = Lent(d) /\ Lent(d) # held[g]
      BY <2>1, <2>3 DEF Lent
    <3>2. held[g] \in InMaking /\ InMaking' = InMaking \ {held[g]}
      BY <2>1, <2>3 DEF InMaking, HeldBy
    <3>3. UNCHANGED <<LentTo, Retired>> /\ held[g] \notin Retired
      BY <1>21, <2>1, <3>1, <3>2 DEF Retired, LentTo, HandedOut, SendReady
    <3>4. held[g] \in Contract!Unseen
      BY <2>1, <3>1, <3>3 DEF Contract!Unseen, Contract!Borrowed, LentTo
    <3>5. Contract!Stock(held[g])
      BY <2>1, <3>3, <3>4 DEF Contract!Stock
    <3>6. QED
      BY <2>1, <3>5, ContractSteps
  <2>4. QED
    BY <2>2, <2>3
<1>22. ASSUME NEW g \in Goroutines, SendFull(g)
       PROVE  Step
  <2>1. /\ held[g] # None /\ held[g] \in Sandboxes /\ pc[g] = "send" /\ pc'[g] = "untrack"
        /\ \A h \in Goroutines \ {g} : pc'[h] = pc[h] /\ held'[h] = held[h]
        /\ UNCHANGED <<ready, born, held>> /\ pc' \in [Goroutines -> PCs]
    BY <1>22 DEF TypeOK, HandsFull, Busy, Goto, SendFull
  <2>2. CASE g \in Clients
    <3>1. pc[g] \in LentSteps /\ pc'[g] \notin LentSteps \union {"track"}
      BY <2>1 DEF LentSteps
    <3>2. Contract!Discard(g)
      BY <2>1, <2>2, <3>1, DiscardStep
    <3>3. QED
      BY <2>2, <3>2, ContractSteps
  <2>3. CASE g \in Sandboxes
    <3>1. Contract!Waste(held[g])
      BY <2>1, <2>3, WasteStep
    <3>2. QED
      BY <2>1, <3>1, ContractSteps
  <2>4. QED
    BY <2>2, <2>3
<1>23. ASSUME NEW g \in Goroutines, SendClosed(g)
       PROVE  Step
  <2>1. /\ held[g] # None /\ held[g] \in Sandboxes /\ pc[g] = "send" /\ pc'[g] = "panicked"
        /\ \A h \in Goroutines \ {g} : pc'[h] = pc[h] /\ held'[h] = held[h]
        /\ UNCHANGED <<ready, born, held>> /\ pc' \in [Goroutines -> PCs]
    BY <1>23 DEF TypeOK, HandsFull, Busy, Goto, SendClosed
  <2>2. CASE g \in Clients
    <3>1. pc[g] \in LentSteps /\ pc'[g] \notin LentSteps \union {"track"}
      BY <2>1 DEF LentSteps
    <3>2. Contract!Discard(g)
      BY <2>1, <2>2, <3>1, DiscardStep
    <3>3. QED
      BY <2>2, <3>2, ContractSteps
  <2>3. CASE g \in Sandboxes
    <3>1. Contract!Waste(held[g])
      BY <2>1, <2>3, WasteStep
    <3>2. QED
      BY <2>1, <3>1, ContractSteps
  <2>4. QED
    BY <2>2, <2>3
<1>24. ASSUME NEW g \in Goroutines, Untrack(g)
       PROVE  Step
  <2>1. Same
    BY <1>24 DEF TypeOK, HandsFull, ExclusiveOwnership, Origins, PCs, Busy, Empty, Goto, Drop, LentTo, Lent, Retired, HandedOut, InMaking, HeldBy, Untrack
  <2>2. QED
    BY <2>1
<1>25. ASSUME Close
       PROVE  Step
  <2>1. Same
    BY <1>25 DEF TypeOK, HandsFull, ExclusiveOwnership, Origins, PCs, Busy, Empty, Goto, Drop, LentTo, Lent, Retired, HandedOut, InMaking, HeldBy, Close
  <2>2. QED
    BY <2>1
<1>26. ASSUME CloseChannel
       PROVE  Step
  <2>1. Same
    BY <1>26 DEF TypeOK, HandsFull, ExclusiveOwnership, Origins, PCs, Busy, Empty, Goto, Drop, LentTo, Lent, Retired, HandedOut, InMaking, HeldBy, CloseChannel
  <2>2. QED
    BY <2>1
<1>27. ASSUME Drain
       PROVE  Step
  <2>1. CASE ready # <<>>
    <3>1. /\ Head(ready) \in Sandboxes /\ Head(ready) \in ToSet(ready)
          /\ ToSet(ready)' = ToSet(ready) \ {Head(ready)}
      <4>1. ready' = Tail(ready) /\ ready \in Seq(Sandboxes) /\ Distinct(ready)
        BY <1>27, <2>1 DEF TypeOK, ExclusiveOwnership, Drain
      <4>2. QED
        BY <2>1, <4>1, TailFacts
    <3>2. /\ UNCHANGED <<LentTo, InMaking>> /\ Head(ready) \in born
          /\ Head(ready) \notin InMaking /\ \A d \in Clients : Lent(d)' = Lent(d) /\ Lent(d) # Head(ready)
      BY <1>27, <3>1 DEF TypeOK, HandsFull, ExclusiveOwnership, Origins, PCs, Busy, Empty, Goto, Drop, LentTo, Lent, Retired, HandedOut, InMaking, HeldBy, Drain
    <3>3. Retired' = Retired \union {Head(ready)}
      BY <1>27, <3>1, <3>2 DEF Retired, HandedOut, Drain
    <3>4. Contract!Purge(Head(ready))
      BY <3>1, <3>2, <3>3 DEF Contract!Purge
    <3>5. QED
      BY <3>1, <3>4, ContractSteps
  <2>2. CASE ready = <<>>
    <3>1. Same
      BY <1>27, <2>2 DEF Drain, LentTo, Lent, Retired, HandedOut, InMaking, HeldBy
    <3>2. QED
      BY <3>1
  <2>3. QED
    BY <2>1, <2>2
<1>28. ASSUME NEW s \in Sandboxes, DestroyOne(s)
       PROVE  Step
  <2>1. Same
    BY <1>28 DEF TypeOK, HandsFull, ExclusiveOwnership, Origins, PCs, Busy, Empty, Goto, Drop, LentTo, Lent, Retired, HandedOut, InMaking, HeldBy, DestroyOne
  <2>2. QED
    BY <2>1
<1>29. ASSUME CloseDone
       PROVE  Step
  <2>1. Same
    BY <1>29 DEF TypeOK, HandsFull, ExclusiveOwnership, Origins, PCs, Busy, Empty, Goto, Drop, LentTo, Lent, Retired, HandedOut, InMaking, HeldBy, CloseDone
  <2>2. QED
    BY <2>1
<1>30. ASSUME UNCHANGED vars
       PROVE  Step
  <2>1. Same
    BY <1>30 DEF vars, LentTo, Lent, Retired, HandedOut, InMaking, HeldBy
  <2>2. QED
    BY <2>1
<1>31. Step
  BY <1>1, <1>2, <1>3, <1>4, <1>5, <1>6, <1>7, <1>8, <1>9, <1>10, <1>11, <1>12, <1>13, <1>14, <1>15, <1>16, <1>17, <1>18, <1>19, <1>20, <1>21, <1>22, <1>23, <1>24, <1>25, <1>26, <1>27, <1>28, <1>29, <1>30 DEF Next, ClientStep, SharedStep, CloserStep
<1>32. QED
  BY <1>31 DEF Contract!vars

\* The pool keeps its contract: a sandbox is lent to one client at a time, comes
\* back to the pool or is retired, and what is retired is never lent again.
THEOREM PoolRefines == Spec => ImplementsContract
<1>1. Init => Contract!Init
  BY DEF Init, Contract!Init, ToSet, LentTo, Lent, Retired, Goroutines
<1>2. PoolInv /\ PoolInv' /\ [Next]_vars => [Contract!Next]_(Contract!vars)
  BY StepRefines DEF PoolInv
<1>3. QED
  BY <1>1, <1>2, PoolInvariant, PTL DEF Spec, ImplementsContract, Contract!Spec

-----------------------------------------------------------------------------
(* The uses of one sandbox.                                                 *)
(*                                                                          *)
(* Between two uses only a process that was forked can run, so what appears *)
(* in the directory then is of a use in forked (Leftovers); while a use is  *)
(* in Exec its own process runs too, and no other main process (OneMain).   *)

\* Nothing runs yet.
LEMMA ExecTypeInit == ExecInit => ExecTypeOK
BY ExecAssumption DEF ExecInit, ExecTypeOK, Uses, Outcomes

\* Every step of an execution keeps the types.
LEMMA ExecTypeNext ==
  ASSUME ExecTypeOK, [ExecNext]_execVars
  PROVE  ExecTypeOK'
<1> USE ExecAssumption DEF ExecTypeOK, Uses, Procs, Outcomes, Main, Child, Returns, Ended
<1>0. use \in Nat /\ 1..use \subseteq Uses OBVIOUS
<1>1. CASE Exec \/ WriteFails
  <2>1. use' = use + 1 /\ use + 1 \in Uses BY <1>0, <1>1 DEF Exec, WriteFails
  <2>2. \A p \in alive : p[1] \in 1..(use + 1) BY <1>0
  <2>3. dir' \in SUBSET Uses BY <1>1, <2>1 DEF Exec, WriteFails
  <2>4. result' \in [Uses -> Outcomes] BY <1>1, <2>1 DEF Exec, WriteFails
  <2>5. /\ at' \in {"start", "returned"} /\ ctx' = "live" /\ exit' = "none"
        /\ UNCHANGED <<alive, pipes, forked, listed, stuck>>
    BY <1>1 DEF Exec, WriteFails
  <2> QED BY <1>0, <2>1, <2>2, <2>3, <2>4, <2>5
<1>2. CASE Deadline \/ Cancel BY <1>2 DEF Deadline, Cancel
<1>3. CASE StartProc
  <2>1. Main(use) \in Procs /\ use \in 1..use BY <1>0, <1>3 DEF StartProc
  <2>2. \A p \in alive' : p[1] \in 1..use BY <1>3, <2>1 DEF StartProc
  <2> QED BY <1>3, <2>1, <2>2 DEF StartProc
<1>11. CASE StartFails BY <1>11 DEF StartFails
<1>4. CASE Kill \/ Exits("zero") \/ Exits("other") BY <1>4 DEF Kill, Exits
<1>5. CASE Return BY <1>5 DEF Return
<1>6. CASE Fork BY <1>6 DEF Fork
<1>7. ASSUME NEW u \in Uses, ChildEnds(u) PROVE ExecTypeOK' BY <1>7 DEF ChildEnds
<1>8. ASSUME NEW p \in Procs, Writes(p) PROVE ExecTypeOK' BY <1>8 DEF Writes
<1>9. CASE ListDir \/ ListFails \/ RemoveListed BY <1>9 DEF ListDir, ListFails, RemoveListed
<1>10. CASE UNCHANGED execVars BY <1>10 DEF execVars
<1> QED
  BY <1>1, <1>2, <1>3, <1>4, <1>5, <1>6, <1>7, <1>8, <1>9, <1>10, <1>11 DEF ExecNext, ExecStep

\* Every variable keeps its type, and a process belongs to a use that began.
THEOREM ExecTypeCorrect == ExecSpec => []ExecTypeOK
BY ExecTypeInit, ExecTypeNext, PTL DEF ExecSpec

\* The main process of a use runs between StartProc and the return of Exec only.
OneMain ==
  /\ \A u \in Uses : Main(u) \in alive => u = use /\ at = "run"
  /\ at = "start" => \A p \in alive : p[1] # use
  /\ \A u \in Uses : Child(u) \in alive => u \in forked

\* Files that no use in forked wrote are of the current use, or are in the listing
\* that Reset works from.
Leftovers ==
  /\ dir \union listed \subseteq 1..use
  /\ at = "reset" => dir \ listed \subseteq forked \union stuck

ExecInv == ExecTypeOK /\ OneMain /\ Leftovers /\ ResultIsHonest /\ StaleFilesHaveWriter

\* Nothing has run.
LEMMA ExecInvInit == ExecInit => ExecInv
BY ExecAssumption, ExecTypeInit
DEF ExecInit, ExecInv, OneMain, Leftovers, ResultIsHonest, StaleFilesHaveWriter, InExec, Uses

\* Every step of an execution keeps the invariant.
LEMMA ExecInvNext ==
  ASSUME ExecInv, [ExecNext]_execVars
  PROVE  ExecInv'
<1> USE ExecAssumption
    DEF ExecInv, OneMain, Leftovers, ResultIsHonest, StaleFilesHaveWriter, InExec,
        Uses, Procs, Main, Child, Returns, Ended
<1>0. ExecTypeOK /\ ExecTypeOK' BY ExecTypeNext
<1>1. CASE Exec BY <1>0, <1>1 DEF ExecTypeOK, Exec
<1>2. CASE WriteFails BY <1>0, <1>2 DEF ExecTypeOK, WriteFails
<1>3. CASE Deadline \/ Cancel BY <1>0, <1>3 DEF ExecTypeOK, Deadline, Cancel
<1>4. CASE StartProc BY <1>0, <1>4 DEF ExecTypeOK, StartProc
<1>5. CASE StartFails BY <1>0, <1>5 DEF ExecTypeOK, StartFails
<1>6. CASE Kill \/ Exits("zero") \/ Exits("other") BY <1>0, <1>6 DEF ExecTypeOK, Kill, Exits
<1>7. CASE Return BY <1>0, <1>7 DEF ExecTypeOK, Return
<1>8. CASE Fork BY <1>0, <1>8 DEF ExecTypeOK, Fork
<1>9. ASSUME NEW u \in Uses, ChildEnds(u) PROVE ExecInv' BY <1>0, <1>9 DEF ExecTypeOK, ChildEnds
<1>10. ASSUME NEW p \in Procs, Writes(p) PROVE ExecInv' BY <1>0, <1>10 DEF ExecTypeOK, Writes
<1>11. CASE ListDir BY <1>0, <1>11 DEF ExecTypeOK, ListDir
<1>12. CASE ListFails BY <1>0, <1>12 DEF ExecTypeOK, ListFails
<1>13. CASE RemoveListed
  <2>1. PICK left \in SUBSET listed : dir' = (dir \ listed) \union left /\ stuck' = stuck \union left
    BY <1>13 DEF RemoveListed
  <2>2. /\ at = "reset" /\ at' = "ready"
        /\ UNCHANGED <<use, ctx, alive, pipes, forked, exit, result>>
    BY <1>13 DEF RemoveListed
  <2>3. dir' \subseteq forked' \union stuck' BY <2>1, <2>2
  <2>4. OneMain' /\ ResultIsHonest' BY <2>2
  <2>5. dir' \subseteq dir \union listed BY <2>1
  <2>6. listed' = {} BY <1>13 DEF RemoveListed
  <2>7. Leftovers' BY <2>2, <2>5, <2>6
  <2> QED BY <1>0, <2>2, <2>3, <2>4, <2>7
<1>14. CASE UNCHANGED execVars BY <1>14 DEF execVars, ExecTypeOK
<1> QED
  BY <1>1, <1>2, <1>3, <1>4, <1>5, <1>6, <1>7, <1>8, <1>9, <1>10, <1>11, <1>12, <1>13, <1>14
  DEF ExecNext, ExecStep

\* So it holds throughout.
LEMMA ExecInvariant == ExecSpec => []ExecInv
BY ExecInvInit, ExecInvNext, PTL DEF ExecSpec

\* What Exec returns is what happened: exit code 0 is the process's own and in time, a
\* use past its deadline is timed out and nothing else, and the output is complete.
THEOREM ExecResultIsHonest == ExecSpec => []ResultIsHonest
BY ExecInvariant, PTL DEF ExecInv

\* A file of an earlier use is there only if that use left a process behind or RemoveAll
\* could not remove it: Reset misses none of the others.
THEOREM ExecStaleFilesHaveWriter == ExecSpec => []StaleFilesHaveWriter
BY ExecInvariant, PTL DEF ExecInv

=============================================================================
