-------------------------- MODULE MCProxyCoreBase --------------------------
(* ProxyCoreBase for TLC: ticks are interchangeable. *)
EXTENDS ProxyCoreBase, TLC

Symmetry == Permutations(Ticks)
=============================================================================
