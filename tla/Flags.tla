------------------------------- MODULE Flags --------------------------------
(***************************************************************************)
(* The condition flags of an addition or a subtraction (execute.c): what   *)
(* updateFlagsArithmetic computes on the signed readings a and b of its    *)
(* operands, h being half the number of values of the width, and the signed *)
(* conditions that executeB takes from them.                               *)
(***************************************************************************)
EXTENDS Integers

\* A sum or a difference of two signed values, cut to the width.
WrapSigned(x, h) ==
  IF x >= h THEN x - 2 * h ELSE IF x < -h THEN x + 2 * h ELSE x

\* The code asks for positive where it means non-negative.
AddOverflow(a, b, res) == (a > 0) = (b > 0) /\ (res > 0) # (a > 0)

\* Mutant: the result is compared with the first operand.
SubOverflowFirst(a, b, res) == (a > 0) # (b > 0) /\ (res > 0) = (a > 0)

SubOverflow(a, b, res) == (a > 0) # (b > 0) /\ (res > 0) = (b > 0)

\* GE_LT_TAG and GT_LE_TAG without negation.
IsGe(n, v) == n = v
IsGt(n, z, v) == ~z /\ n = v
=============================================================================
