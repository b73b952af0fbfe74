---------------------------- MODULE AssemblyFile ----------------------------
(***************************************************************************)
(* The vocabulary that the one-pass assembler (module Assembler) and the   *)
(* two-pass reading of an assembly file (module TwoPass) share: lines,     *)
(* instruction words, and the integer arithmetic that turns a literal into *)
(* the offset field of an instruction.                                     *)
(*                                                                         *)
(* A line is abstracted to what the tables of the assembler tell apart.    *)
(* Every line whose 32-bit word depends on neither the symbol table nor PC *)
(* (data processing, ldr and str with a register address, br, .int) is a   *)
(* "word" line that carries that word's bits.  Labels are compared with    *)
(* strcasecmp, so a member of Labels stands for one class of spellings.    *)
(***************************************************************************)
EXTENDS Integers, Sequences

CONSTANTS
  Labels,       \* label names, up to case
  Immediates,   \* the n of an immediate target "#n"
  Codes,        \* the bits of the words that need no table
  Files,        \* the assembly files considered, each a sequence of lines
  NumInstrs,    \* NUM_INSTRS, the length of binaryInstr
  IntSize,      \* 2^32, the number of values of a C int
  Simm19Size,   \* 2^19, the number of values of a simm19 field
  Simm26Size    \* 2^26, the number of values of a simm26 field

InstrBytes == 4

\* What getLiteral answers for a label it does not find: INT32_MIN.
Missing == -(IntSize \div 2)

RefKinds == {"ll", "bc", "bu"}
Targets == Labels \cup Immediates

Line ==
  [t : {"empty", "blank", "unsupported"}] \cup
  [t : {"label"}, label : Labels] \cup
  [t : {"word"}, code : Codes] \cup
  [t : {"ref"}, kind : RefKinds, target : Targets]

\* kind is the part of the word that no offset field reaches; bits is the rest.
Word == [kind : RefKinds \cup {"plain"}, bits : Nat]

ZeroWord == [kind |-> "plain", bits |-> 0]

ASSUME NumInstrsAssumption == NumInstrs \in Nat \ {0}
ASSUME SizesAssumption ==
  /\ IntSize \in Nat \ {0}
  /\ Simm19Size \in Nat \ {0}
  /\ Simm26Size \in Nat \ {0}
ASSUME CodesAssumption == Codes \subseteq Nat
ASSUME TargetsAssumption ==
  /\ Immediates \subseteq Int
  /\ Missing \notin Immediates
  /\ Labels \cap Int = {}
ASSUME FilesAssumption == Files \subseteq Seq(Line)
-----------------------------------------------------------------------------
\* Signed overflow wraps in the code gcc emits for the unoptimised build.
WrapInt(n) == ((n + IntSize \div 2) % IntSize) - IntSize \div 2

\* C division by INSTR_BYTES: it truncates towards zero.
Words(n) == IF n >= 0 THEN n \div InstrBytes ELSE -((-n) \div InstrBytes)

Offset(literal, pc) == Words(WrapInt(literal - pc * InstrBytes))

FieldSize(kind) == IF kind = "bu" THEN Simm26Size ELSE Simm19Size

\* Mutant: putBits without its mask; a negative offset has no end of bits.
PutOffsetUnmasked(word, kind, offset) == [word EXCEPT !.bits = offset]

\* putBits keeps the low bits of the offset, two's complement.
PutOffset(word, kind, offset) == [word EXCEPT !.bits = offset % FieldSize(kind)]

EncodeRef(kind, offset) == PutOffset([kind |-> kind, bits |-> 0], kind, offset)

EmitsWord(line) == line.t \in {"word", "ref"}
=============================================================================
