--------------------------- MODULE MCGatedTransfer ---------------------------
(* Symmetry for the safety runs of GatedTransfer.                           *)
EXTENDS GatedTransfer

Symmetry == Permutations(Caller) \cup Permutations(Timer)
=============================================================================
