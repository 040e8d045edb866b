------------------------------ MODULE MCSchema ------------------------------
(* Instances of Schema for TLC. *)
EXTENDS Schema, TLC

(* Nothing tells operators apart. *)
Symmetry == Permutations(Operators)
=============================================================================
