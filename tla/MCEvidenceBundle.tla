-------------------------- MODULE MCEvidenceBundle --------------------------
(* TLC instance of EvidenceBundle: builds that choose their paths, and evals *)
(* of which the report has room for one.                                     *)
EXTENDS EvidenceBundle, TLC

EvidenceSymmetry ==
  Permutations(Builds) \union Permutations(Outs) \union Permutations(Evals)

=============================================================================
