-------------------------- MODULE MCOutlineService --------------------------
(* OutlineService for TLC: callers and sockets are interchangeable. *)
EXTENDS OutlineService, TLC

Symmetry == Permutations(Callers) \cup Permutations(Listeners)
=============================================================================
