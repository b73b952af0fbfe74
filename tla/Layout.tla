------------------------------- MODULE Layout -------------------------------
(***************************************************************************)
(* What indentation promises in a Python-like language: the blocks that    *)
(* are open at a line are known by their levels, outermost first, and a    *)
(* line opens a block, stays in the innermost one, or closes every block   *)
(* that is deeper than the line.                                           *)
(***************************************************************************)
EXTENDS Integers, Sequences

VARIABLES levels   \* the levels of the open blocks, outermost first

Init == levels = <<0>>

Innermost == levels[Len(levels)]

\* A line at a deeper level is the first of a new block.
Opens(n) ==
  /\ n > Innermost
  /\ levels' = Append(levels, n)

\* A line at the level of an open block is in it, and in no deeper one.
Stays(n) ==
  \E k \in DOMAIN levels :
    /\ levels[k] = n
    /\ levels' = SubSeq(levels, 1, k)

Line(n) == Opens(n) \/ Stays(n)

Next == \E n \in Nat : Line(n)

Spec == Init /\ [][Next]_levels
=============================================================================
