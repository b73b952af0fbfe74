--------------------------- MODULE MCControlFlow ---------------------------
(***************************************************************************)
(* Two functions, one of them LOOP, and programs of a few parts: a loop in *)
(* an if in a loop, two ifs one after the other, a function before each.   *)
(***************************************************************************)
EXTENDS ControlFlow

FunctionsValue == {"LOOP", "f"}
=============================================================================
