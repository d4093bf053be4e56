---------------------------- MODULE MCDownloads ----------------------------
(* Instances of Downloads for TLC. *)
EXTENDS Downloads, TLC

Symmetry == Permutations(Procs) \cup Permutations(Artifacts)
=============================================================================
