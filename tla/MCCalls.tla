------------------------------ MODULE MCCalls -------------------------------
(***************************************************************************)
(* Calls for TLC: a body with up to one parameter and another variable.    *)
(* Two arguments are saved in registers 3 and 4; 5 is a saved register     *)
(* that nothing uses, 6 is RP.                                             *)
(***************************************************************************)
EXTENDS Calls

EntryValue == [r \in RegisterNumbers |-> 0 - 10 - r]
ParametersValue == << "p" >>
TwoParametersValue == << "p", "x" >>
=============================================================================
