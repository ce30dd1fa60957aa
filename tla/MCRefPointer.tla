------------------------------ MODULE MCRefPointer -----------------------------
(* Two threads with two variables each, and the elements of a map. *)
EXTENDS RefPointer, TLC

CONSTANTS t1, t2, a1, b1, a2, b2, entry
MCHome == (a1 :> t1) @@ (b1 :> t1) @@ (a2 :> t2) @@ (b2 :> t2) @@ (entry :> Nobody)
Symmetry == Permutations(Obj)
=============================================================================
