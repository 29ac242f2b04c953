---------------------------- MODULE MCSandboxPool ----------------------------
(* TLC instance of SandboxPool: small sets of model values, all alike.       *)
EXTENDS SandboxPool, TLC

\* Clients are interchangeable, and so are sandbox ids: sound for the safety runs.
Symmetry == Permutations(Clients) \union Permutations(Sandboxes)

=============================================================================
