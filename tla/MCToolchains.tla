---------------------------- MODULE MCToolchains ----------------------------
(* Instances of Toolchains for TLC. *)
EXTENDS Toolchains
=============================================================================
