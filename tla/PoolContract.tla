---------------------------- MODULE PoolContract ----------------------------
(***************************************************************************)
(* What internal/runtime/pool promises to its clients, independent of the  *)
(* channel, the map and the goroutines: it lends sandboxes.                *)
(***************************************************************************)
CONSTANTS Clients, Sandboxes,
          None  \* no sandbox

VARIABLES
  idle,     \* sandboxes waiting in the pool
  lent,     \* the sandbox each client has, or None
  retired   \* sandboxes the pool has given up

vars == <<idle, lent, retired>>

Borrowed == {lent[c] : c \in Clients} \ {None}
Unseen   == Sandboxes \ (idle \union Borrowed \union retired)

Init ==
  /\ idle = {} /\ retired = {}
  /\ lent = [c \in Clients |-> None]

\* A new sandbox is added to the pool (pre-warming, or a refill).
Stock(s) ==
  /\ s \in Unseen
  /\ idle' = idle \union {s} /\ UNCHANGED <<lent, retired>>

\* Acquire hands out a waiting sandbox.
Lend(c, s) ==
  /\ lent[c] = None /\ s \in idle
  /\ idle' = idle \ {s} /\ lent' = [lent EXCEPT ![c] = s] /\ UNCHANGED retired

\* Acquire makes a sandbox on demand.
LendNew(c, s) ==
  /\ lent[c] = None /\ s \in Unseen
  /\ lent' = [lent EXCEPT ![c] = s] /\ UNCHANGED <<idle, retired>>

\* Release puts the sandbox back.
Return(c) ==
  /\ lent[c] # None
  /\ idle' = idle \union {lent[c]} /\ lent' = [lent EXCEPT ![c] = None]
  /\ UNCHANGED retired

\* Release destroys it instead.
Discard(c) ==
  /\ lent[c] # None
  /\ retired' = retired \union {lent[c]} /\ lent' = [lent EXCEPT ![c] = None]
  /\ UNCHANGED idle

\* A waiting sandbox is dropped (the drain in Close).
Purge(s) ==
  /\ s \in idle
  /\ idle' = idle \ {s} /\ retired' = retired \union {s} /\ UNCHANGED lent

\* A surplus refill is destroyed before any client could see it.
Waste(s) ==
  /\ s \in Unseen
  /\ retired' = retired \union {s} /\ UNCHANGED <<idle, lent>>

Next ==
  \/ \E s \in Sandboxes : Stock(s) \/ Purge(s) \/ Waste(s)
  \/ \E c \in Clients : \/ \E s \in Sandboxes : Lend(c, s) \/ LendNew(c, s)
                        \/ Return(c) \/ Discard(c)

Spec == Init /\ [][Next]_vars

=============================================================================
