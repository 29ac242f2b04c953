------------------------------ MODULE AuditChain ------------------------------
(***************************************************************************)
(* The hash-chained audit log of internal/store/store.go: AppendAudit and  *)
(* VerifyAuditChain, used by the request handlers of one or several        *)
(* daemons (core/engine.go) that have the same data directory open.        *)
(*                                                                         *)
(* An append is two SQL statements (read the last hash, insert the row)    *)
(* under Store.mu, a mutex of the process, not of the database.  SHA-256   *)
(* is taken to be collision free: a digest is represented by what it       *)
(* commits to, the sequence of event bodies from the first entry on.       *)
(***************************************************************************)
EXTENDS Integers, Sequences

CONSTANTS Procs,     \* daemons with the same database file open
          Handlers,  \* request handlers (goroutines) that append
          ProcOf,    \* the daemon each handler runs in
          Bodies,    \* events: timestamp, actor, action, target and detail
          MaxRows,   \* bound on the number of rows
          Nobody     \* the mutex is free

ASSUME AuditAssumption ==
  /\ ProcOf \in [Handlers -> Procs]
  /\ MaxRows \in Nat
  /\ Nobody \notin Handlers

VARIABLES
  log,    \* table audit_log in the order of seq
  mu,     \* per daemon: who holds Store.mu
  pc,     \* per handler: "idle", "wait", "locked", "read"
  event,  \* per handler: the event it appends
  prev,   \* per handler: the hash it read as the last one
  overtaken,  \* history: handlers that have read, and another daemon inserted since
  forks       \* history: seq of the rows that an overtaken handler inserted

vars == <<log, mu, pc, event, prev, overtaken, forks>>

Genesis == <<>>
Digests == Seq(Bodies)

\* auditHash: over the event and the previous hash; seq is not part of it.
auditHash(b, p) == Append(p, b)

Row == [seq : Nat, body : Bodies, prev : Digests, hash : Digests]

\* Scan of the last row, or GENESIS on an empty table.
LastHash(l) == IF l = <<>> THEN Genesis ELSE l[Len(l)].hash

-----------------------------------------------------------------------------
(* VerifyAuditChain.                                                        *)

\* What the loop variable prev holds when it reaches row i.
Expected(l, i) == IF i = 1 THEN Genesis ELSE l[i - 1].hash

\* Deliberate error used as a mutant: the verifier recomputes no hash.
Broken_NoHash(l, i) == l[i].prev # Expected(l, i)

\* Row i fails one of the two tests of the loop.
Broken(l, i) ==
  \/ l[i].prev # Expected(l, i)
  \/ l[i].hash # auditHash(l[i].body, l[i].prev)

FirstBroken(l, i) ==
  /\ i \in 1..Len(l) /\ Broken(l, i)
  /\ \A j \in 1..(i - 1) : ~Broken(l, j)

\* The seq of the first broken row, 0 when there is none.
VerifyAuditChain(l) ==
  IF \E i \in 1..Len(l) : FirstBroken(l, i)
  THEN l[CHOOSE i \in 1..Len(l) : FirstBroken(l, i)].seq
  ELSE 0

-----------------------------------------------------------------------------

Init ==
  /\ log = <<>>
  /\ mu = [p \in Procs |-> Nobody]
  /\ pc = [h \in Handlers |-> "idle"]
  /\ event \in [Handlers -> Bodies]
  /\ prev = [h \in Handlers |-> Genesis]
  /\ overtaken = {} /\ forks = {}

\* A handler calls AppendAudit.
Begin(h, b) ==
  /\ pc[h] = "idle"
  /\ pc' = [pc EXCEPT ![h] = "wait"] /\ event' = [event EXCEPT ![h] = b]
  /\ UNCHANGED <<log, mu, prev, overtaken, forks>>

\* Deliberate error used as a mutant: no mutex.
Lock_Free(h) ==
  /\ pc[h] = "wait"
  /\ mu' = [mu EXCEPT ![ProcOf[h]] = h]
  /\ pc' = [pc EXCEPT ![h] = "locked"]
  /\ UNCHANGED <<log, event, prev, overtaken, forks>>

Lock(h) ==
  /\ pc[h] = "wait" /\ mu[ProcOf[h]] = Nobody
  /\ mu' = [mu EXCEPT ![ProcOf[h]] = h]
  /\ pc' = [pc EXCEPT ![h] = "locked"]
  /\ UNCHANGED <<log, event, prev, overtaken, forks>>

\* SELECT hash ... ORDER BY seq DESC LIMIT 1
ReadLast(h) ==
  /\ pc[h] = "locked"
  /\ prev' = [prev EXCEPT ![h] = LastHash(log)]
  /\ pc' = [pc EXCEPT ![h] = "read"]
  /\ overtaken' = overtaken \ {h}
  /\ UNCHANGED <<log, mu, event, forks>>

\* INSERT INTO audit_log, then the deferred unlock.
Insert(h) ==
  /\ pc[h] = "read" /\ Len(log) < MaxRows
  /\ log' = Append(log, [seq |-> Len(log) + 1, body |-> event[h], prev |-> prev[h],
                         hash |-> auditHash(event[h], prev[h])])
  /\ mu' = [mu EXCEPT ![ProcOf[h]] = Nobody]
  /\ pc' = [pc EXCEPT ![h] = "idle"]
  /\ overtaken' = overtaken \union {k \in Handlers : pc[k] = "read" /\ ProcOf[k] # ProcOf[h]}
  /\ forks' = forks \union {s \in {Len(log) + 1} : h \in overtaken}
  /\ UNCHANGED <<event, prev>>

\* Either statement fails (busy for five seconds, store closed): AppendAudit
\* returns the error, which every caller in engine.go drops.
Fail(h) ==
  /\ pc[h] \in {"locked", "read"}
  /\ mu' = [mu EXCEPT ![ProcOf[h]] = Nobody]
  /\ pc' = [pc EXCEPT ![h] = "idle"]
  /\ UNCHANGED <<log, event, prev, overtaken, forks>>

\* A daemon dies and is started again; the rows written stay.
Crash(p) ==
  /\ \E h \in Handlers : ProcOf[h] = p /\ pc[h] # "idle"
  /\ pc' = [h \in Handlers |-> IF ProcOf[h] = p THEN "idle" ELSE pc[h]]
  /\ mu' = [mu EXCEPT ![p] = Nobody]
  /\ UNCHANGED <<log, event, prev, overtaken, forks>>

Step(h) == Lock(h) \/ ReadLast(h) \/ Insert(h) \/ Fail(h)

Next ==
  \/ \E h \in Handlers : (\E b \in Bodies : Begin(h, b)) \/ Step(h)
  \/ \E p \in Procs : Crash(p)

Spec == Init /\ [][Next]_vars

-----------------------------------------------------------------------------
(* Properties.                                                              *)

\* The variables hold values of their types; a row is written whole.
TypeOK ==
  /\ log \in Seq(Row)
  /\ mu \in [Procs -> Handlers \union {Nobody}]
  /\ pc \in [Handlers -> {"idle", "wait", "locked", "read"}]
  /\ event \in [Handlers -> Bodies]
  /\ prev \in [Handlers -> Digests]
  /\ overtaken \subseteq Handlers /\ forks \subseteq Nat

\* store.go:23 "serializes audit-chain appends", which is true of one daemon.
\* Whatever handlers append, fail or die between the two statements, and however
\* many daemons share the database, VerifyAuditChain accuses no row but one that
\* was inserted over an append another daemon made since its last hash was read.
ChainIntact == VerifyAuditChain(log) \in forks \union {0}

\* One daemon has the database open.
OneDaemon == \A p, q \in Procs : p = q

\* Replacing row i.
Altered(l, i, r) == [l EXCEPT ![i] = r]

\* Removing row i.
Removed(l, i) == SubSeq(l, 1, i - 1) \o SubSeq(l, i + 1, Len(l))

\* Digests at hand to someone who edits the table: those in it, and those
\* recomputed from its parts.
Nearby == {log[j].hash : j \in 1..Len(log)} \union {Genesis}
          \union {auditHash(b, log[j].prev) : b \in Bodies, j \in 1..Len(log)}

\* spec evidence "any modification of a prior entry invalidates the chain ...
\* verification fails at or after the altered entry", even when the hash of the
\* altered entry is recomputed; prior means that another entry follows.
AlterationDetected ==
  \A i \in 1..(Len(log) - 1) :
    \A r \in [seq : {log[i].seq}, body : Bodies, prev : Nearby, hash : Nearby] :
      r # log[i] => VerifyAuditChain(Altered(log, i, r)) \in {log[i].seq, log[i + 1].seq}

\* Removing a prior entry is found at the entry that followed it.
RemovalDetected ==
  \A i \in 1..(Len(log) - 1) : VerifyAuditChain(Removed(log, i)) = log[i + 1].seq

\* What the evidence spec calls tamper evidence: both hold of the log at any time,
\* as long as no two daemons appended over each other.
TamperingDetected == forks = {} => (AlterationDetected /\ RemovalDetected)

\* Who is between the two statements holds its daemon's mutex.
HolderInside ==
  \A h \in Handlers : pc[h] \in {"locked", "read"} => mu[ProcOf[h]] = h

\* Unless another daemon has appended since, the hash that was read is the last one.
ReaderIsCurrent ==
  \A h \in Handlers : pc[h] = "read" => h \in overtaken \/ prev[h] = LastHash(log)

\* Every row has its number, and only rows of overtaken handlers are broken.
OnlyForksBroken ==
  \A i \in 1..Len(log) : log[i].seq = i /\ (Broken(log, i) => i \in forks)

AuditInv == TypeOK /\ HolderInside /\ ReaderIsCurrent /\ OnlyForksBroken

\* The documentation of AppendAudit taken to the letter, store.go:360.
AlwaysVerifies == VerifyAuditChain(log) = 0

=============================================================================
