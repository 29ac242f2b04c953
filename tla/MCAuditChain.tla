---------------------------- MODULE MCAuditChain ----------------------------
(* TLC instance of AuditChain: two handlers of one daemon and one of another. *)
EXTENDS AuditChain, TLC

CONSTANTS d1, d2, h1, h2, h3, e1, e2

DaemonOf == (h1 :> d1 @@ h2 :> d1 @@ h3 :> d2)

\* Handlers of one daemon are alike, and so are events.
AuditSymmetry == Permutations({h1, h2}) \union Permutations({e1, e2})

=============================================================================
