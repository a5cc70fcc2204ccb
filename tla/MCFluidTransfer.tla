--------------------------- MODULE MCFluidTransfer ---------------------------
(* Symmetry for the run of FluidTransfer without liveness.                 *)
EXTENDS FluidTransfer

Symmetry == Permutations(Client) \cup Permutations(Timer)
=============================================================================
