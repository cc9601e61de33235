------------------------------ MODULE MCEngine -------------------------------
(* Model values and symmetry for the runs of module Engine. *)
EXTENDS Engine, TLC

Symmetry == Permutations(Write) \union Permutations(Ref)
SymmetryAll == Symmetry \union Permutations(Conn)
=============================================================================
