--------------------------- MODULE AuditChainProofs ---------------------------
(***************************************************************************)
(* Proofs about AuditChain for any number of handlers, events and rows.    *)
(* The verifier accuses only rows that were appended over another daemon's *)
(* append, none with one daemon, and it finds an altered or a removed      *)
(* entry.  The argument: who is between the two statements of AppendAudit  *)
(* holds the mutex of its daemon (HolderInside), hence the hash it read is *)
(* still the last one unless another daemon appended (ReaderIsCurrent),    *)
(* hence every other row extends the row before it (OnlyForksBroken).      *)
(***************************************************************************)
EXTENDS AuditChain, TLAPS

-----------------------------------------------------------------------------
(* Sequences and digests.                                                   *)

\* What appending a row does to the list.
LEMMA AppendRow ==
  ASSUME NEW S, NEW q \in Seq(S), NEW x \in S
  PROVE  /\ Append(q, x) \in Seq(S) /\ Len(Append(q, x)) = Len(q) + 1
         /\ \A i \in 1..Len(q) : Append(q, x)[i] = q[i]
         /\ Append(q, x)[Len(q) + 1] = x
  OBVIOUS

\* A digest commits to the event and to the digest before it (auditHash).
LEMMA DigestInjective ==
  ASSUME NEW b \in Bodies, NEW c \in Bodies, NEW p \in Digests, NEW q \in Digests,
         auditHash(b, p) = auditHash(c, q)
  PROVE  b = c /\ p = q
<1>1. Len(p) = Len(q)
  <2>1. Len(auditHash(b, p)) = Len(p) + 1 BY AppendRow DEF auditHash, Digests
  <2>2. Len(auditHash(c, q)) = Len(q) + 1 BY AppendRow DEF auditHash, Digests
  <2>3. Len(p) \in Nat /\ Len(q) \in Nat BY DEF Digests
  <2> QED BY <2>1, <2>2, <2>3
<1>2. b = c
  BY <1>1, AppendRow DEF auditHash, Digests
<1>3. \A i \in 1..Len(p) : p[i] = q[i]
  BY <1>1, AppendRow DEF auditHash, Digests
<1> QED BY <1>1, <1>2, <1>3 DEF Digests

\* A digest is never the digest before it.
LEMMA DigestGrows ==
  ASSUME NEW b \in Bodies, NEW p \in Digests
  PROVE  auditHash(b, p) \in Digests /\ auditHash(b, p) # p
<1>1. Len(auditHash(b, p)) = Len(p) + 1 BY AppendRow DEF auditHash, Digests
<1>2. Len(p) \in Nat BY DEF Digests
<1> QED BY <1>1, <1>2, AppendRow DEF auditHash, Digests

\* The digest to chain from is a digest.
LEMMA LastHashType ==
  ASSUME NEW l \in Seq(Row)
  PROVE  LastHash(l) \in Digests
<1>1. CASE l = <<>>
  BY <1>1 DEF LastHash, Genesis, Digests
<1>2. CASE l # <<>>
  <2>1. Len(l) \in 1..Len(l) BY <1>2
  <2>2. l[Len(l)] \in Row BY <2>1
  <2> QED BY <1>2, <2>2 DEF LastHash, Row
<1> QED BY <1>1, <1>2

-----------------------------------------------------------------------------
(* The verifier.                                                            *)

\* VerifyAuditChain returns the seq of the first broken row.
LEMMA VerifyFinds ==
  ASSUME NEW l \in Seq(Row), NEW i \in 1..Len(l), FirstBroken(l, i)
  PROVE  VerifyAuditChain(l) = l[i].seq
<1>1. \A j \in 1..Len(l) : FirstBroken(l, j) => j = i
  <2>1. SUFFICES ASSUME NEW j \in 1..Len(l), FirstBroken(l, j) PROVE j = i
    OBVIOUS
  <2>2. ~(j < i) BY <2>1 DEF FirstBroken
  <2>3. ~(i < j) BY <2>1 DEF FirstBroken
  <2> QED BY <2>2, <2>3
<1>2. (CHOOSE j \in 1..Len(l) : FirstBroken(l, j)) = i
  BY <1>1
<1> QED BY <1>2 DEF VerifyAuditChain

-----------------------------------------------------------------------------
(* The inductive invariant.                                                 *)

\* No row fails the verifier's tests.
NoneBroken == \A i \in 1..Len(log) : ~Broken(log, i) /\ log[i].seq = i

\* The log is empty.
LEMMA TypeInit == Init => TypeOK
BY AuditAssumption DEF Init, TypeOK, Genesis, Digests

\* Every step keeps the types.
LEMMA TypeInductive == TypeOK /\ [Next]_vars => TypeOK'
<1> SUFFICES ASSUME TypeOK, [Next]_vars PROVE TypeOK'
  OBVIOUS
<1> USE AuditAssumption DEF TypeOK
<1>1. ASSUME NEW h \in Handlers, NEW b \in Bodies, Begin(h, b) PROVE TypeOK'
  BY <1>1 DEF Begin
<1>2. ASSUME NEW h \in Handlers, Lock(h) PROVE TypeOK'
  BY <1>2 DEF Lock
<1>3. ASSUME NEW h \in Handlers, ReadLast(h) PROVE TypeOK'
  BY <1>3, LastHashType DEF ReadLast
<1>4. ASSUME NEW h \in Handlers, Insert(h) PROVE TypeOK'
  <2>1. auditHash(event[h], prev[h]) \in Digests BY DigestGrows
  <2>2. log' \in Seq(Row) BY <1>4, <2>1 DEF Insert, Row
  <2>3. overtaken' \subseteq Handlers BY <1>4 DEF Insert
  <2>4. Len(log) + 1 \in Nat /\ forks' \subseteq forks \union {Len(log) + 1}
    BY <1>4 DEF Insert
  <2>5. forks' \subseteq Nat BY <2>4
  <2> QED BY <1>4, <2>2, <2>3, <2>5 DEF Insert
<1>5. ASSUME NEW h \in Handlers, Fail(h) PROVE TypeOK'
  BY <1>5 DEF Fail
<1>6. ASSUME NEW p \in Procs, Crash(p) PROVE TypeOK'
  BY <1>6 DEF Crash
<1>7. ASSUME UNCHANGED vars PROVE TypeOK'
  BY <1>7 DEF vars
<1> QED BY <1>1, <1>2, <1>3, <1>4, <1>5, <1>6, <1>7 DEF Next, Step

\* Two handlers of one daemon that are both inside AppendAudit are the same.
LEMMA OneInside ==
  ASSUME TypeOK, HolderInside, NEW h \in Handlers, NEW k \in Handlers,
         ProcOf[h] = ProcOf[k],
         pc[h] \in {"locked", "read"}, pc[k] \in {"locked", "read"}
  PROVE  h = k
BY DEF HolderInside

\* Every step leaves the lock with a caller inside its critical section.
LEMMA HolderInductive == TypeOK /\ HolderInside /\ [Next]_vars => HolderInside'
<1> SUFFICES ASSUME TypeOK, HolderInside, [Next]_vars PROVE HolderInside'
  OBVIOUS
<1> USE AuditAssumption DEF TypeOK
<1>1. ASSUME NEW h \in Handlers, NEW b \in Bodies, Begin(h, b) PROVE HolderInside'
  BY <1>1 DEF Begin, HolderInside
<1>2. ASSUME NEW h \in Handlers, Lock(h) PROVE HolderInside'
  BY <1>2 DEF Lock, HolderInside
<1>3. ASSUME NEW h \in Handlers, ReadLast(h) PROVE HolderInside'
  BY <1>3 DEF ReadLast, HolderInside
<1>4. ASSUME NEW h \in Handlers, Insert(h) \/ Fail(h) PROVE HolderInside'
  <2>1. ASSUME NEW k \in Handlers, pc'[k] \in {"locked", "read"}
        PROVE  mu'[ProcOf[k]] = k
    <3>1. k # h /\ pc[k] \in {"locked", "read"} /\ pc[h] \in {"locked", "read"}
      BY <1>4, <2>1 DEF Insert, Fail
    <3>2. ProcOf[k] # ProcOf[h] BY <3>1, OneInside
    <3> QED BY <1>4, <3>1, <3>2 DEF Insert, Fail, HolderInside
  <2> QED BY <2>1 DEF HolderInside
<1>5. ASSUME NEW p \in Procs, Crash(p) PROVE HolderInside'
  BY <1>5 DEF Crash, HolderInside
<1>6. ASSUME UNCHANGED vars PROVE HolderInside'
  BY <1>6 DEF vars, HolderInside
<1> QED BY <1>1, <1>2, <1>3, <1>4, <1>5, <1>6 DEF Next, Step

\* Every step keeps what a caller has read of the log current while it has the lock.
LEMMA ReaderInductive ==
  TypeOK /\ HolderInside /\ ReaderIsCurrent /\ [Next]_vars => ReaderIsCurrent'
<1> SUFFICES ASSUME TypeOK, HolderInside, ReaderIsCurrent, [Next]_vars
             PROVE  ReaderIsCurrent'
  OBVIOUS
<1> USE AuditAssumption DEF TypeOK
<1>1. ASSUME NEW h \in Handlers, NEW b \in Bodies, Begin(h, b) PROVE ReaderIsCurrent'
  BY <1>1 DEF Begin, ReaderIsCurrent
<1>2. ASSUME NEW h \in Handlers, Lock(h) PROVE ReaderIsCurrent'
  BY <1>2 DEF Lock, ReaderIsCurrent
<1>3. ASSUME NEW h \in Handlers, ReadLast(h) PROVE ReaderIsCurrent'
  BY <1>3 DEF ReadLast, ReaderIsCurrent
\* Other readers belong to other daemons: they are overtaken now.
<1>4. ASSUME NEW h \in Handlers, Insert(h) PROVE ReaderIsCurrent'
  <2>1. ASSUME NEW k \in Handlers, pc'[k] = "read" PROVE k \in overtaken'
    <3>1. k # h /\ pc[k] = "read" /\ pc[h] = "read" BY <1>4, <2>1 DEF Insert
    <3>2. ProcOf[k] # ProcOf[h] BY <3>1, OneInside
    <3> QED BY <1>4, <3>1, <3>2 DEF Insert
  <2> QED BY <2>1 DEF ReaderIsCurrent
<1>5. ASSUME NEW h \in Handlers, Fail(h) PROVE ReaderIsCurrent'
  BY <1>5 DEF Fail, ReaderIsCurrent
<1>6. ASSUME NEW p \in Procs, Crash(p) PROVE ReaderIsCurrent'
  BY <1>6 DEF Crash, ReaderIsCurrent
<1>7. ASSUME UNCHANGED vars PROVE ReaderIsCurrent'
  BY <1>7 DEF vars, ReaderIsCurrent
<1> QED BY <1>1, <1>2, <1>3, <1>4, <1>5, <1>6, <1>7 DEF Next, Step

\* Only Insert touches the log: the row it appends links to the last one, unless
\* the handler was overtaken.
LEMMA ChainInductive ==
  TypeOK /\ ReaderIsCurrent /\ OnlyForksBroken /\ [Next]_vars => OnlyForksBroken'
<1> SUFFICES ASSUME TypeOK, ReaderIsCurrent, OnlyForksBroken, [Next]_vars
             PROVE  OnlyForksBroken'
  OBVIOUS
<1>1. ASSUME NEW h \in Handlers, Insert(h) PROVE OnlyForksBroken'
  <2> DEFINE row == [seq |-> Len(log) + 1, body |-> event[h], prev |-> prev[h],
                     hash |-> auditHash(event[h], prev[h])]
  <2>1. row \in Row /\ log \in Seq(Row)
    BY DigestGrows DEF TypeOK, Row
  <2>2. log' = Append(log, row) BY <1>1 DEF Insert
  <2>3. /\ Len(log') = Len(log) + 1 /\ log'[Len(log) + 1] = row
        /\ \A i \in 1..Len(log) : log'[i] = log[i]
    BY <2>1, <2>2, AppendRow
  <2>4. ASSUME NEW i \in 1..Len(log)
        PROVE  log'[i].seq = i /\ (Broken(log', i) => i \in forks')
    <3>1. log'[i] = log[i] /\ (i # 1 => log'[i - 1] = log[i - 1])
      BY <2>1, <2>3
    <3> QED BY <1>1, <3>1 DEF OnlyForksBroken, Broken, Expected, Insert
  <2>5. Broken(log', Len(log) + 1) => Len(log) + 1 \in forks'
    <3>1. CASE h \in overtaken BY <1>1, <3>1 DEF Insert
    <3>2. CASE h \notin overtaken
      <4>1. prev[h] = LastHash(log) BY <1>1, <3>2 DEF Insert, ReaderIsCurrent
      <4>2. Expected(log', Len(log) + 1) = LastHash(log)
        BY <2>1, <2>3 DEF Expected, LastHash
      <4> QED BY <2>3, <4>1, <4>2 DEF Broken
    <3> QED BY <3>1, <3>2
  <2> QED BY <2>1, <2>3, <2>4, <2>5 DEF OnlyForksBroken
<1>2. ASSUME UNCHANGED <<log, forks>> PROVE OnlyForksBroken'
  BY <1>2 DEF OnlyForksBroken, Broken, Expected
<1> QED BY <1>1, <1>2
        DEF Next, Step, Begin, Lock, ReadLast, Fail, Crash, vars

\* So each part of the invariant holds throughout.
LEMMA AuditInvariant == Spec => []AuditInv
<1>1. Init => AuditInv
  <2>1. Init => TypeOK BY TypeInit
  <2>2. Init => HolderInside /\ ReaderIsCurrent /\ OnlyForksBroken
    BY DEF Init, HolderInside, ReaderIsCurrent, OnlyForksBroken
  <2> QED BY <2>1, <2>2 DEF AuditInv
<1>2. AuditInv /\ [Next]_vars => AuditInv'
  BY TypeInductive, HolderInductive, ReaderInductive, ChainInductive DEF AuditInv
<1> QED BY <1>1, <1>2, PTL DEF Spec

\* With one daemon nobody is overtaken.
LEMMA NoForks == ASSUME OneDaemon PROVE Spec => [](overtaken = {} /\ forks = {})
<1>1. Init => overtaken = {} /\ forks = {} BY DEF Init
<1>2. overtaken = {} /\ forks = {} /\ [Next]_vars => (overtaken = {} /\ forks = {})'
  <2> SUFFICES ASSUME overtaken = {}, forks = {}, [Next]_vars
               PROVE  overtaken' = {} /\ forks' = {}
    OBVIOUS
  <2>1. ASSUME NEW h \in Handlers, Insert(h) PROVE overtaken' = {} /\ forks' = {}
    <3>1. \A k \in Handlers : ProcOf[k] = ProcOf[h] BY AuditAssumption DEF OneDaemon
    <3> QED BY <2>1, <3>1 DEF Insert
  <2> QED BY <2>1 DEF Next, Step, Begin, Lock, ReadLast, Fail, Crash, vars
<1> QED BY <1>1, <1>2, PTL DEF Spec

-----------------------------------------------------------------------------
(* The theorems.                                                            *)

\* The model of AppendAudit is type correct, for any number of daemons.
THEOREM AuditTypeCorrect == Spec => []TypeOK
<1> QED BY TypeInit, TypeInductive, PTL DEF Spec

\* Any number of daemons: VerifyAuditChain accuses no row but one that AppendAudit
\* inserted over another daemon's append.
THEOREM AuditChainIntact == Spec => []ChainIntact
<1>1. ASSUME AuditInv PROVE ChainIntact
  <2>1. CASE \A i \in 1..Len(log) : ~FirstBroken(log, i)
    BY <2>1 DEF VerifyAuditChain, ChainIntact
  <2>2. CASE \E i \in 1..Len(log) : FirstBroken(log, i)
    <3>1. PICK i \in 1..Len(log) : FirstBroken(log, i) BY <2>2
    <3>2. VerifyAuditChain(log) = log[i].seq
      BY <1>1, <3>1, VerifyFinds DEF AuditInv, TypeOK
    <3>3. log[i].seq = i /\ i \in forks
      BY <1>1, <3>1 DEF AuditInv, OnlyForksBroken, FirstBroken
    <3> QED BY <3>2, <3>3 DEF ChainIntact
  <2> QED BY <2>1, <2>2
<1>2. AuditInv => ChainIntact BY <1>1
<1> QED BY <1>2, AuditInvariant, PTL

\* One daemon: whatever its handlers append, fail or die between the two
\* statements of AppendAudit, VerifyAuditChain accepts the log.
THEOREM AuditAlwaysVerifies == ASSUME OneDaemon PROVE Spec => []AlwaysVerifies
<1>1. ChainIntact /\ forks = {} => AlwaysVerifies
  BY DEF ChainIntact, AlwaysVerifies
<1> QED BY <1>1, NoForks, AuditChainIntact, PTL

\* No forks: VerifyAuditChain reports an altered prior entry at that entry or at the
\* next one, even when the hash of the entry was recomputed.
THEOREM AuditAlterationDetected == Spec => [](forks = {} => AlterationDetected)
<1>1. ASSUME AuditInv, forks = {} PROVE AlterationDetected
  <2> USE <1>1 DEF AuditInv
  <2>0. log \in Seq(Row) /\ NoneBroken BY DEF TypeOK, OnlyForksBroken, NoneBroken
  <2> USE <2>0
  <2>1. \A j \in 1..Len(log) : log[j] \in Row BY <2>0
  <2>2. Nearby \subseteq Digests
    <3>1. Genesis \in Digests BY DEF Genesis, Digests
    <3>2. \A j \in 1..Len(log) : log[j].hash \in Digests /\ log[j].prev \in Digests
      BY <2>1 DEF Row
    <3>3. \A b \in Bodies, j \in 1..Len(log) : auditHash(b, log[j].prev) \in Digests
      BY <3>2, DigestGrows
    <3> QED BY <3>1, <3>2, <3>3 DEF Nearby
  <2> SUFFICES ASSUME NEW i \in 1..(Len(log) - 1),
                      NEW r \in [seq : {log[i].seq}, body : Bodies, prev : Nearby,
                                 hash : Nearby],
                      r # log[i]
               PROVE  VerifyAuditChain(Altered(log, i, r)) \in {log[i].seq, log[i + 1].seq}
    BY DEF AlterationDetected
  <2> DEFINE l == Altered(log, i, r)
  <2>3. i \in 1..Len(log) /\ i + 1 \in 1..Len(log) /\ Len(log) \in Nat BY <2>0
  <2>4. r \in Row BY <2>1, <2>2, <2>3 DEF Row
  <2>5. /\ l \in Seq(Row) /\ Len(l) = Len(log) /\ l[i] = r
        /\ \A j \in 1..Len(log) : j # i => l[j] = log[j]
    BY <2>0, <2>3, <2>4 DEF Altered
  <2> HIDE DEF l
  <2>6. ASSUME NEW j \in 1..(i - 1) PROVE ~Broken(l, j)
    <3>1. l[j] = log[j] /\ (j # 1 => l[j - 1] = log[j - 1]) BY <2>3, <2>5
    <3>2. ~Broken(log, j) BY <2>3 DEF NoneBroken
    <3> QED BY <3>1, <3>2 DEF Broken, Expected
  <2>7. CASE Broken(l, i)
    <3>1. FirstBroken(l, i) BY <2>3, <2>5, <2>6, <2>7 DEF FirstBroken
    <3>2. VerifyAuditChain(l) = l[i].seq BY <3>1, <2>3, <2>5, VerifyFinds
    <3> QED BY <3>2, <2>5 DEF l
  <2>8. CASE ~Broken(l, i)
    <3>1. r.prev = Expected(l, i) /\ r.hash = auditHash(r.body, r.prev)
      BY <2>8, <2>5 DEF Broken
    <3>2. Expected(l, i) = Expected(log, i)
      BY <2>0, <2>3, <2>5 DEF Expected
    <3>3. log[i].hash = auditHash(log[i].body, log[i].prev) /\ log[i + 1].prev = log[i].hash
      BY <2>3 DEF NoneBroken, Broken, Expected
    <3>4. r.hash # log[i].hash
      <4>1. SUFFICES ASSUME r.hash = log[i].hash PROVE FALSE
        OBVIOUS
      <4>2. r.body = log[i].body /\ r.prev = log[i].prev
        <5>1. auditHash(r.body, r.prev) = auditHash(log[i].body, log[i].prev)
          BY <4>1, <3>1, <3>3
        <5>2. r.body \in Bodies /\ r.prev \in Digests BY <2>4 DEF Row
        <5>3. log[i].body \in Bodies /\ log[i].prev \in Digests BY <2>1, <2>3 DEF Row
        <5> QED BY <5>1, <5>2, <5>3, DigestInjective
      <4>3. r.seq = log[i].seq OBVIOUS
      <4>4. log[i] \in Row BY <2>1, <2>3
      <4>5. \A a, c \in Row : a.seq = c.seq /\ a.body = c.body /\ a.prev = c.prev
                               /\ a.hash = c.hash => a = c
        BY DEF Row
      <4> QED BY <4>1, <4>2, <4>3, <4>4, <4>5, <2>4
    <3>5. Broken(l, i + 1)
      BY <3>3, <3>4, <2>3, <2>5 DEF Broken, Expected
    <3>6. FirstBroken(l, i + 1)
      BY <3>5, <2>3, <2>5, <2>6, <2>8 DEF FirstBroken
    <3>7. VerifyAuditChain(l) = l[i + 1].seq BY <3>6, <2>3, <2>5, VerifyFinds
    <3> QED BY <3>7, <2>3, <2>5 DEF l
  <2> QED BY <2>7, <2>8
<1>2. AuditInv => (forks = {} => AlterationDetected) BY <1>1
<1> QED BY <1>2, AuditInvariant, PTL

\* No forks: VerifyAuditChain reports a removed prior entry at its successor.
THEOREM AuditRemovalDetected == Spec => [](forks = {} => RemovalDetected)
<1>1. ASSUME AuditInv, forks = {} PROVE RemovalDetected
  <2> USE <1>1 DEF AuditInv
  <2>0. log \in Seq(Row) /\ NoneBroken BY DEF TypeOK, OnlyForksBroken, NoneBroken
  <2> USE <2>0
  <2>1. \A j \in 1..Len(log) : log[j] \in Row BY <2>0
  <2> SUFFICES ASSUME NEW i \in 1..(Len(log) - 1)
               PROVE  VerifyAuditChain(Removed(log, i)) = log[i + 1].seq
    BY DEF RemovalDetected
  <2> DEFINE l == Removed(log, i)
  <2>3. i \in 1..Len(log) /\ i + 1 \in 1..Len(log) /\ Len(log) \in Nat BY <2>0
  <2>4. /\ SubSeq(log, 1, i - 1) \in Seq(Row) /\ Len(SubSeq(log, 1, i - 1)) = i - 1
        /\ \A j \in 1..(i - 1) : SubSeq(log, 1, i - 1)[j] = log[j]
    BY <2>0, <2>3
  <2>5. /\ SubSeq(log, i + 1, Len(log)) \in Seq(Row)
        /\ Len(SubSeq(log, i + 1, Len(log))) = Len(log) - i
        /\ SubSeq(log, i + 1, Len(log))[1] = log[i + 1]
    BY <2>0, <2>3
  <2>6. /\ l \in Seq(Row) /\ Len(l) = Len(log) - 1 /\ l[i] = log[i + 1]
        /\ \A j \in 1..(i - 1) : l[j] = log[j]
    BY <2>3, <2>4, <2>5 DEF Removed
  <2> HIDE DEF l
  <2>7. \A j \in 1..(i - 1) : ~Broken(l, j)
    BY <2>0, <2>3, <2>6 DEF Broken, Expected, NoneBroken
  <2>8. Expected(l, i) = log[i].prev
    BY <2>0, <2>3, <2>6 DEF Expected, NoneBroken, Broken
  <2>9. l[i].prev = auditHash(log[i].body, log[i].prev)
    BY <2>3, <2>6 DEF Expected, NoneBroken, Broken
  <2>10. l[i].prev # Expected(l, i)
    BY <2>1, <2>3, <2>8, <2>9, DigestGrows DEF Row
  <2>11. FirstBroken(l, i)
    BY <2>3, <2>6, <2>7, <2>10 DEF FirstBroken, Broken
  <2>12. VerifyAuditChain(l) = l[i].seq BY <2>3, <2>6, <2>11, VerifyFinds
  <2> QED BY <2>6, <2>12 DEF l
<1>2. AuditInv => (forks = {} => RemovalDetected) BY <1>1
<1> QED BY <1>2, AuditInvariant, PTL

\* Unless two daemons appended over each other: whatever handlers append, fail or
\* die, a change or removal of a prior entry is reported at or just after its place.
THEOREM AuditTamperingDetected == Spec => []TamperingDetected
<1>1. (forks = {} => AlterationDetected) /\ (forks = {} => RemovalDetected)
      => TamperingDetected
  BY DEF TamperingDetected
<1> QED BY <1>1, AuditAlterationDetected, AuditRemovalDetected, PTL

=============================================================================
