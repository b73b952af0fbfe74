----------------------------- MODULE MCCodegen ------------------------------
(***************************************************************************)
(* Codegen for TLC: two variables that can be exchanged.  The widths are   *)
(* smaller than the code's (64, 8 and 21 bits) in the same order, so that  *)
(* there are integers of all three kinds.                                  *)
(***************************************************************************)
EXTENDS Codegen

CONSTANTS x, y

VarsValue == {x, y}
Symmetry == Permutations(VarsValue)
=============================================================================
