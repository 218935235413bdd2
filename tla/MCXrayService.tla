--------------------------- MODULE MCXrayService ---------------------------
(* XrayService for TLC: its callers and channels are interchangeable.  The  *)
(* pure parts of libxray are checked before the run starts (MCXrayText).    *)
EXTENDS XrayService, MCXrayText, TLC, FiniteSets

ASSUME EnoughChans == Cardinality(Chans) > Cardinality(Callers)

Symmetry == Permutations(Callers) \cup Permutations(Chans)
=============================================================================
