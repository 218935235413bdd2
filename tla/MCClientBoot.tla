---------------------------- MODULE MCClientBoot ----------------------------
(* ClientBoot for TLC: no symmetry, the run checks liveness. *)
EXTENDS ClientBoot
=============================================================================
