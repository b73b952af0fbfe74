--------------------------- MODULE MCIndentation ---------------------------
(***************************************************************************)
(* A stack of three levels and lines of five indentations: blocks are      *)
(* opened up to the limit of the stack, and lines leave one, several or    *)
(* no open level.                                                          *)
(***************************************************************************)
EXTENDS Indentation

IndentsValue == {0, 1, 2, 4, 6}
=============================================================================
