--------------------------- MODULE MCCoreRestart ---------------------------
(* CoreRestart for TLC: handlers are interchangeable, and so are links. *)
EXTENDS CoreRestart, TLC

Symmetry == Permutations(Handlers) \cup Permutations(Links)
=============================================================================
