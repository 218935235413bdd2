---------------------------- MODULE MCCoreServer ----------------------------
(* CoreServer for TLC: handlers are interchangeable, and so are links. *)
EXTENDS CoreServer, TLC

Symmetry == Permutations(Handlers) \cup Permutations(Links)
=============================================================================
