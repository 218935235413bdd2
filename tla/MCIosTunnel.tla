---------------------------- MODULE MCIosTunnel ----------------------------
(* IosTunnel for TLC: no symmetry, the run checks liveness. *)
EXTENDS IosTunnel
=============================================================================
