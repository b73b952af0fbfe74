---------------------------- MODULE MCSyntaxTree ----------------------------
(***************************************************************************)
(* Programs of a few nodes, with two returns and three integers at most and *)
(* one node of each other kind: a for with a return in it takes six.        *)
(***************************************************************************)
EXTENDS SyntaxTree

MaxOfValue ==
  [tag \in Tags |-> CASE tag = "int" -> 3 [] tag = "return" -> 2 [] OTHER -> 1]
=============================================================================
