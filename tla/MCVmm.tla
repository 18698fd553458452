------------------------------- MODULE MCVmm -------------------------------
(* Vmm for TLC. *)
EXTENDS Vmm, TLC

Symmetry == Permutations(Threads)
=============================================================================
