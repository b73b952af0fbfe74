----------------------------- MODULE MCEmulator -----------------------------
(***************************************************************************)
(* Words of 4 bits in bytes of 2, three registers the last of which is ZR, *)
(* and programs of at most MaxSteps instructions: short enough to take any *)
(* of them after any other, long enough to load two operands, compare them *)
(* and branch, or to load, store and load again.                           *)
(***************************************************************************)
EXTENDS Emulator

I(class, f) == [class |-> class, f |-> f]
Flag == {0, 1}

DPIs ==
  {I("DPI", [sf |-> sf, opc |-> opc, opi |-> 2, rd |-> rd, rn |-> rn, imm12 |-> 3, sh |-> 1]) :
     sf \in Flag, opc \in {0, 3}, rd \in {0, 2}, rn \in {1, 2}}

WideMoves ==
  {I("DPI", [sf |-> x[1], opc |-> x[2], opi |-> 5, rd |-> x[3], hw |-> x[4], imm16 |-> 2]) :
     x \in {<<1, 2, 0, 3>>, <<0, 2, 1, 1>>, <<1, 0, 1, 0>>, <<0, 3, 1, 0>>, <<0, 2, 2, 0>>}}

Arithmetic ==
  {I("DPR", [sf |-> sf, opc |-> x[1], m |-> 0, rm |-> x[2], rn |-> x[3], rd |-> x[4],
             armOrLog |-> 1, n |-> 0, shift |-> x[5], operand |-> x[6]]) :
     sf \in Flag, x \in {<<1, 0, 0, 1, 0, 0>>, <<3, 0, 1, 2, 0, 0>>, <<3, 1, 0, 1, 2, 1>>,
                         <<0, 0, 1, 2, 3, 1>>, <<2, 1, 0, 0, 0, 3>>}}

Logicals ==
  {I("DPR", [sf |-> sf, opc |-> x[1], m |-> 0, rm |-> x[2], rn |-> 0, rd |-> x[3],
             armOrLog |-> 0, n |-> x[4], shift |-> 1, operand |-> 1]) :
     sf \in Flag, x \in {<<3, 1, 2, 1>>, <<1, 0, 1, 1>>, <<2, 1, 2, 0>>, <<0, 2, 1, 0>>}}

Multiplies ==
  {I("DPR", [sf |-> 1, opc |-> 0, m |-> 1, opr |-> 8, x |-> x, rm |-> 0, rn |-> 1, rd |-> rd, ra |-> 2]) :
     x \in Flag, rd \in {1, 2}}

Transfers ==
  {I("SDT", [sf |-> sf, mode |-> 1, rt |-> rt, u |-> 1, l |-> l, xn |-> 2, imm12 |-> 1]) :
     sf \in Flag, l \in Flag, rt \in {0, 2}}
  \cup
  {I("SDT", [sf |-> sf, mode |-> 1, rt |-> 0, u |-> 0, offmode |-> 0, l |-> l, xn |-> xn,
             i |-> 1 - l, simm9 |-> 3]) : sf \in Flag, l \in Flag, xn \in {0, 1, 2}}
  \cup
  {I("SDT", [sf |-> 0, mode |-> 1, rt |-> 1, u |-> 0, offmode |-> 1, l |-> l, xn |-> 0,
             xm |-> 1]) : l \in Flag}

Literals == {I("SDT", [sf |-> sf, mode |-> 0, rt |-> 1, simm19 |-> 1]) : sf \in Flag}

Branches ==
  {I("B", [type |-> 1, tag |-> tag, neg |-> neg, simm19 |-> 2]) : tag \in {0, 5, 6}, neg \in Flag}
  \cup {I("B", [type |-> 0, simm26 |-> -1]), I("B", [type |-> 3, xn |-> 1])}

InstructionsValue == DPIs \cup WideMoves \cup Arithmetic \cup Logicals \cup Multiplies
                       \cup Transfers \cup Literals \cup Branches

\* The third doubleword is the least one; a word of it is too.
ImagesValue ==
  {[at \in 0..MemorySize-1 |-> 0],
   [at \in 0..MemorySize-1 |-> IF at % 4 = 3 THEN 2 ELSE IF at < 4 THEN 1 ELSE 0]}
=============================================================================
