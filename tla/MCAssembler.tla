---------------------------- MODULE MCAssembler -----------------------------
(***************************************************************************)
(* Small instances of Assembler: every file of MaxLines lines, some of     *)
(* which may be empty.                                                     *)
(***************************************************************************)
EXTENDS Assembler

CONSTANTS MaxLines

\* Of the two kinds with a simm19 field one is left out.
MCLine ==
  {line \in Line : line.t = "ref" => line.kind # "ll"}

MCFiles == [1..MaxLines -> MCLine]
=============================================================================
