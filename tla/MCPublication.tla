--------------------------- MODULE MCPublication ---------------------------
(* Instances of Publication for TLC. *)
EXTENDS Publication, TLC

\* Processes play the same part each, and so do names of staging trees.
Symmetry == Permutations(Procs) \cup Permutations(Nonces)
=============================================================================
