------------------------- MODULE MCEnvironmentStore -------------------------
(* Instances of EnvironmentStore for TLC. *)
EXTENDS EnvironmentStore, TLC

\* Callers, environments and names play the same part each.
Symmetry == Permutations(Procs) \cup Permutations(Envs) \cup Permutations(Names)
=============================================================================
