----------------------------- MODULE MCSharedPtr -----------------------------
(* Two tasks with two handles each, and one handle both may copy. *)
EXTENDS SharedPtr, TLC
CONSTANTS t1, t2, a1, a2, b1, b2, g
TestOwner == (a1 :> t1) @@ (a2 :> t1) @@ (b1 :> t2) @@ (b2 :> t2) @@ (g :> Common)
BlockSymmetry == Permutations(Blocks)
=============================================================================
