--------------------------- MODULE MCInterchange ---------------------------
(* Model-checking instance of Interchange: manager identities are model    *)
(* values, and only compared for equality, so their permutations are a     *)
(* sound symmetry.                                                          *)
EXTENDS Interchange

ManagerSymmetry == Permutations(Managers)
=============================================================================
