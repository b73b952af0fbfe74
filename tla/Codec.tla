------------------------------- MODULE Codec --------------------------------
(***************************************************************************)
(* One line from its tokens to a word and back: the assembler disassembles *)
(* the tokens into the fields of its one Instruction structure             *)
(* (disassembler.c), puts them into a word (decoders.c with putBits),      *)
(* completes an offset left open (onepass.c), and the emulator reads the   *)
(* fields back (decoders.c with getBits).                                  *)
(*                                                                         *)
(* The structure is a union that every line reuses: a field a line does    *)
(* not assign holds what an earlier line left in its bytes.                *)
(***************************************************************************)
EXTENDS BitFields, SequencesExt

CONSTANTS
  Lines,    \* the lines considered
  Offsets   \* Offsets[len]: the offsets tried in a field of len bits

VARIABLES
  line,   \* the line at hand
  ins,    \* the assembler's Instruction: [class, f]
  word,   \* its 32 bits
  dec,    \* the fields the emulator read: [class, f]
  step

vars == <<line, ins, word, dec, step>>

\* The fields of f and, beside them, those of g: members of one structure.
f ++ g == [x \in DOMAIN f \cup DOMAIN g |-> IF x \in DOMAIN f THEN f[x] ELSE g[x]]

ZrSp == 31
-----------------------------------------------------------------------------
(***************************************************************************)
(* Tokens.  A register is [k |-> "reg", n, x] (x: the name starts with 'x' *)
(* or is sp); an immediate is [k |-> "imm", v]; a shift is                 *)
(* [k |-> "shift", v], v its position in lsl, lsr, asr, ror.               *)
(***************************************************************************)
GetMode(token) == IF token.x THEN 1 ELSE 0

Arithmetics == <<"add", "adds", "sub", "subs">>
Logical == <<"and", "bic", "orr", "orn", "eor", "eon", "ands", "bics">>
WideMoves == <<"movn", "", "movz", "movk">>
Multiply == <<"madd", "msub">>

\* For each alias, the instruction it stands for and where rzr is inserted.
Alias == [cmp |-> <<"subs", 1>>, cmn |-> <<"adds", 1>>, tst |-> <<"ands", 1>>,
          neg |-> <<"sub", 2>>, negs |-> <<"subs", 2>>, mvn |-> <<"orn", 2>>,
          mov |-> <<"orr", 2>>, mul |-> <<"madd", 4>>, mneg |-> <<"msub", 4>>]

\* getPositionInArray, for a word that is there.
Position(word_, words) == (CHOOSE k \in 1..Len(words) : words[k] = word_) - 1

\* disassembleAlias: the register inserted has the width of the first token.
Expand(l) ==
  LET alias == Alias[l.name]
      rzr == [k |-> "reg", n |-> ZrSp, x |-> l.tokens[1].x]
  IN  [l EXCEPT !.t = "dp", !.name = alias[1], !.tokens = InsertAt(@, alias[2], rzr)]

\* The line that is disassembled: an alias is replaced by what it stands for.
Plain(l) == IF l.t = "als" THEN Expand(l) ELSE l

IsImmediateOp(l) == Len(l.tokens) < 3 \/ l.tokens[3].k = "imm"
                      \/ (l.tokens[3].k = "shift" /\ l.tokens[3].v = 0)
-----------------------------------------------------------------------------
(***************************************************************************)
(* The lines of the language, aliases apart: the operands that each        *)
(* mnemonic and addressing mode has, within the range of their fields.     *)
(***************************************************************************)
Register == [k : {"reg"}, n : 0..31, x : BOOLEAN]
Immediate(values) == [k : {"imm"}, v : values]
ShiftName(positions) == [k : {"shift"}, v : positions]

\* What n bits hold, without and with a sign.
UnsignedRange(n) == 0 .. 2^n - 1
SignedRange(n) == -(2^(n-1)) .. 2^(n-1) - 1

ImmediateTokens ==
  (Register \X Register \X Immediate(UnsignedRange(12)))
    \cup (Register \X Register \X Immediate(UnsignedRange(12))
            \X ShiftName({0}) \X Immediate({0, 12}))

WideMoveTokens ==
  (Register \X Immediate(UnsignedRange(16)))
    \cup (Register \X Immediate(UnsignedRange(16)) \X ShiftName({0}) \X Immediate({0, 16, 32, 48}))

RegisterTokens ==
  (Register \X Register \X Register)
    \cup (Register \X Register \X Register \X ShiftName(0..3) \X Immediate(UnsignedRange(6)))

ArithmeticImmediates == [t : {"dp"}, name : ToSet(Arithmetics), tokens : ImmediateTokens]
WideMoveLines == [t : {"dp"}, name : {"movn", "movz", "movk"}, tokens : WideMoveTokens]
ShiftedLines ==
  [t : {"dp"}, name : ToSet(Arithmetics) \cup ToSet(Logical), tokens : RegisterTokens]
MultiplyLines ==
  [t : {"dp"}, name : ToSet(Multiply), tokens : Register \X Register \X Register \X Register]

Mnemonics == {"ldr", "str"}

ZeroLines == [t : {"ls"}, name : Mnemonics, form : {"zero"}, rt : Register, xn : Register]
UnsignedLines ==
  [t : {"ls"}, name : Mnemonics, form : {"unsigned"}, rt : Register, xn : Register,
   v : 0 .. 8 * (2^12 - 1)]
RegisterOffsetLines ==
  [t : {"ls"}, name : Mnemonics, form : {"register"}, rt : Register, xn : Register, xm : Register]
IndexLines ==
  [t : {"ls"}, name : Mnemonics, form : {"pre", "post"}, rt : Register, xn : Register,
   v : SignedRange(9)]
LiteralLines ==
  [t : {"ls"}, name : {"ldr"}, form : {"literal"}, rt : Register, off : SignedRange(19)]

\* tag and neg of the conditional branches.
Cond == [eq |-> <<0, 0>>, ne |-> <<0, 1>>, ge |-> <<5, 0>>, lt |-> <<5, 1>>,
         gt |-> <<6, 0>>, le |-> <<6, 1>>, al |-> <<7, 0>>]

UnconditionalLines == [t : {"b"}, form : {"bu"}, off : SignedRange(26)]
BranchRegisterLines == [t : {"b"}, form : {"br"}, xn : Register]
ConditionalLines == [t : {"b"}, form : {"bc"}, cond : DOMAIN Cond, off : SignedRange(19)]

ReferenceLines == LiteralLines \cup UnconditionalLines \cup ConditionalLines

PlainLines ==
  ArithmeticImmediates \cup WideMoveLines \cup ShiftedLines \cup MultiplyLines
    \cup ZeroLines \cup UnsignedLines \cup RegisterOffsetLines \cup IndexLines
    \cup BranchRegisterLines \cup ReferenceLines

ASSUME LinesAssumption == \A l \in Lines : Plain(l) \in PlainLines

\* An offset beyond its field is cut by putBits; the offsets tried are not.
ASSUME OffsetsAssumption == \A len \in {19, 26} : Offsets[len] \subseteq SignedRange(len)
-----------------------------------------------------------------------------
(***************************************************************************)
(* disassemble: the fields that each kind of line assigns.                 *)
(***************************************************************************)
DPIArithmetic(l) ==
  [sf |-> GetMode(l.tokens[1]), rd |-> l.tokens[1].n,
   opc |-> Position(l.name, Arithmetics), opi |-> 2,
   rn |-> l.tokens[2].n, imm12 |-> l.tokens[3].v,
   sh |-> IF Len(l.tokens) > 3 THEN l.tokens[5].v \div 12 ELSE 0]

DPIWideMove(l) ==
  [sf |-> GetMode(l.tokens[1]), rd |-> l.tokens[1].n,
   opc |-> Position(l.name, WideMoves), opi |-> 5,
   hw |-> IF Len(l.tokens) > 2 THEN l.tokens[4].v \div 16 ELSE 0,
   imm16 |-> l.tokens[2].v]

DPRRegisters(l) ==
  [sf |-> GetMode(l.tokens[1]), rm |-> l.tokens[3].n, rn |-> l.tokens[2].n,
   rd |-> l.tokens[1].n]

DPRMultiply(l) ==
  DPRRegisters(l) ++ [opc |-> 0, m |-> 1, opr |-> 8, x |-> Position(l.name, Multiply),
                      ra |-> l.tokens[4].n]

DPRShifted(l) ==
  DPRRegisters(l) ++
  [m |-> 0,
   shift |-> IF Len(l.tokens) > 3 THEN l.tokens[4].v ELSE 0,
   operand |-> IF Len(l.tokens) > 3 THEN l.tokens[5].v ELSE 0] ++
  (IF l.name \in ToSet(Arithmetics)
   THEN [opc |-> Position(l.name, Arithmetics), armOrLog |-> 1, n |-> 0]
   ELSE [opc |-> Position(l.name, Logical) \div 2, armOrLog |-> 0,
         n |-> Position(l.name, Logical) % 2])

\* Mutant: the quotient is taken the wrong way round.
UnsignedOffsetMultiplied(l) == [u |-> 1, imm12 |-> l.v * 8]

\* The unsigned offset is scaled by 8 whatever the width: the test is on mode,
\* which is 1 here, not on sf.
UnsignedOffset(l) == [u |-> 1, imm12 |-> l.v \div 8]

\* An index or a register offset also fills the bits this subset ignores.
Transfer(l) ==
  [sf |-> GetMode(l.rt), rt |-> l.rt.n, mode |-> 1,
   l |-> IF l.name = "ldr" THEN 1 ELSE 0, xn |-> l.xn.n] ++
  CASE l.form = "zero" -> [u |-> 1, imm12 |-> 0]
    [] l.form = "unsigned" -> UnsignedOffset(l)
    [] l.form = "register" -> [u |-> 0, offmode |-> 1, roff1 |-> 3, roff2 |-> 2, xm |-> l.xm.n]
    [] l.form \in {"pre", "post"} ->
         [u |-> 0, offmode |-> 0, i |-> IF l.form = "pre" THEN 1 ELSE 0,
          simm9 |-> l.v, bit |-> 1]

LoadLiteral(l) ==
  [sf |-> GetMode(l.rt), rt |-> l.rt.n, mode |-> 0, simm19 |-> l.off]

Branch(l) ==
  CASE l.form = "bu" -> [type |-> 0, simm26 |-> l.off]
    [] l.form = "br" -> [type |-> 3, bit |-> 1, reg |-> 31, xn |-> l.xn.n]
    [] l.form = "bc" -> [type |-> 1, tag |-> Cond[l.cond][1], neg |-> Cond[l.cond][2],
                         simm19 |-> l.off]

\* The class of a line and the fields it assigns.
Disassembled(given) ==
  LET l == Plain(given)
  IN  CASE l.t = "dp" /\ IsImmediateOp(l) /\ l.name \in ToSet(Arithmetics) ->
             [class |-> "DPI", f |-> DPIArithmetic(l)]
        [] l.t = "dp" /\ IsImmediateOp(l) /\ l.name \notin ToSet(Arithmetics) ->
             [class |-> "DPI", f |-> DPIWideMove(l)]
        [] l.t = "dp" /\ ~IsImmediateOp(l) /\ l.name \in ToSet(Multiply) ->
             [class |-> "DPR", f |-> DPRMultiply(l)]
        [] l.t = "dp" /\ ~IsImmediateOp(l) /\ l.name \notin ToSet(Multiply) ->
             [class |-> "DPR", f |-> DPRShifted(l)]
        [] l.t = "ls" /\ l.form # "literal" -> [class |-> "SDT", f |-> Transfer(l)]
        [] l.t = "ls" /\ l.form = "literal" -> [class |-> "SDT", f |-> LoadLiteral(l)]
        [] l.t = "b" -> [class |-> "B", f |-> Branch(l)]
-----------------------------------------------------------------------------
(***************************************************************************)
(* decode, with putBits or getBits: the fields in the order of the calls.  *)
(* Each stage is chosen by the values of the one before.                   *)
(***************************************************************************)
F(name, at, len) == [name |-> name, at |-> at, len |-> len]

Op0 == [DPI |-> 8, DPR |-> 5, SDT |-> 12, B |-> 10]

\* The class of the four bits op0: 100x, x101, x1x0, 101x.
ClassOf(op0) ==
  CASE op0 \div 2 = 4 -> "DPI"
    [] op0 % 8 = 5 -> "DPR"
    [] op0 % 2 = 0 /\ (op0 \div 4) % 2 = 1 -> "SDT"
    [] op0 \div 2 = 5 -> "B"
    [] OTHER -> "unsupported"

FirstFields(class) ==
  CASE class = "DPI" -> <<F("sf", 31, 1), F("opc", 29, 2), F("opi", 23, 3), F("rd", 0, 5)>>
    [] class = "DPR" -> <<F("sf", 31, 1), F("opc", 29, 2), F("m", 28, 1),
                          F("rm", 16, 5), F("rn", 5, 5), F("rd", 0, 5)>>
    [] class = "SDT" -> <<F("mode", 31, 1), F("sf", 30, 1), F("mode", 29, 1), F("rt", 0, 5)>>
    [] class = "B" -> <<F("type", 30, 2)>>

SecondFields(class, f) ==
  CASE class = "DPI" /\ f.opi = 2 -> <<F("sh", 22, 1), F("imm12", 10, 12), F("rn", 5, 5)>>
    [] class = "DPI" /\ f.opi = 5 -> <<F("hw", 21, 2), F("imm16", 5, 16)>>
    [] class = "DPR" /\ f.m = 0 -> <<F("armOrLog", 24, 1), F("shift", 22, 2),
                                     F("n", 21, 1), F("operand", 10, 6)>>
    [] class = "DPR" /\ f.m = 1 -> <<F("opr", 21, 4), F("x", 15, 1), F("ra", 10, 5)>>
    [] class = "SDT" /\ f.mode = 1 -> <<F("u", 24, 1), F("l", 22, 1),
                                        F("offmode", 21, 1), F("xn", 5, 5)>>
    [] class = "SDT" /\ f.mode = 0 -> <<F("simm19", 5, 19)>>
    [] class = "B" /\ f.type = 0 -> <<F("simm26", 0, 26)>>
    [] class = "B" /\ f.type = 1 -> <<F("simm19", 5, 19), F("tag", 1, 3), F("neg", 0, 1)>>
    [] class = "B" /\ f.type = 3 -> <<F("bit", 25, 1), F("reg", 16, 5), F("xn", 5, 5)>>

\* Mutant: offmode is put after the offset that covers its bit.
ThirdFieldsOffmodeLast(class, f) ==
  CASE class = "SDT" /\ f.mode = 1 /\ f.u = 1 -> <<F("imm12", 10, 12), F("offmode", 21, 1)>>
    [] class = "SDT" /\ f.mode = 1 /\ f.u = 0 /\ f.offmode = 0 ->
         <<F("simm9", 12, 9), F("i", 11, 1), F("bit", 10, 1)>>
    [] class = "SDT" /\ f.mode = 1 /\ f.u = 0 /\ f.offmode = 1 ->
         <<F("xm", 16, 5), F("roff1", 13, 2), F("roff2", 10, 2)>>
    [] OTHER -> <<>>

\* The fields of the addressing mode; here "offmode" is one that is read.
ThirdFields(class, f) ==
  CASE class = "SDT" /\ f.mode = 1 /\ f.u = 1 -> <<F("imm12", 10, 12)>>
    [] class = "SDT" /\ f.mode = 1 /\ f.u = 0 /\ f.offmode = 0 ->
         <<F("simm9", 12, 9), F("i", 11, 1), F("bit", 10, 1)>>
    [] class = "SDT" /\ f.mode = 1 /\ f.u = 0 /\ f.offmode = 1 ->
         <<F("xm", 16, 5), F("roff1", 13, 2), F("roff2", 10, 2)>>
    [] OTHER -> <<>>

\* decode with putBits.  f has every field that is put, the stale ones too.
Encoded(class, f) ==
  LET op0 == PutBits(EmptyWord, Bits(Op0[class], 4), 25, 4)
      first == PutFields(op0, FirstFields(class), f)
      second == PutFields(first, SecondFields(class, f), f)
  IN  PutFields(second, ThirdFields(class, f), f)

SignedFields == {"simm9", "simm19", "simm26"}

\* The bits of each member of the structure in a word: the same in every list.
Length(name) ==
  CASE name \in {"sf", "sh", "m", "armOrLog", "n", "x", "mode", "u", "l", "offmode",
                 "i", "bit", "neg"} -> 1
    [] name \in {"opc", "hw", "shift", "roff1", "roff2", "type"} -> 2
    [] name \in {"opi", "tag"} -> 3
    [] name = "opr" -> 4
    [] name \in {"rd", "rn", "rm", "ra", "rt", "xn", "xm", "reg"} -> 5
    [] name = "operand" -> 6
    [] name = "simm9" -> 9
    [] name = "imm12" -> 12
    [] name = "imm16" -> 16
    [] name = "simm19" -> 19
    [] name = "simm26" -> 26

\* getBits of a list of fields; the last one of a name is the one that stays.
ReadFields(w, fields) ==
  [name \in {k.name : k \in ToSet(fields)} |->
     LET k == CHOOSE k \in ToSet(fields) :
                k.name = name /\ \A o \in ToSet(fields) : o.name = name => k.at <= o.at
         value == Unsigned(GetBits(w, k.at, k.len), k.len)
     IN  IF name \in SignedFields THEN SignExtend(value, k.len) ELSE value]

\* decode with getBits.
Decoded(w) ==
  LET class == ClassOf(Unsigned(GetBits(w, 25, 4), 4))
      first == ReadFields(w, FirstFields(class))
      second == first ++ ReadFields(w, SecondFields(class, first))
  IN  [class |-> class, f |-> second ++ ReadFields(w, ThirdFields(class, second))]

\* Mutant: the conditional branches fall into the case of the unconditional one.
OffsetFieldNoBreak(l) ==
  CASE l.t = "ls" -> F("simm19", 5, 19)
    [] l.t = "b" -> F("simm26", 0, 26)

\* The offset field that handleUndefLabel completes for a kind of reference.
OffsetField(l) ==
  CASE l.t = "ls" -> F("simm19", 5, 19)
    [] l.t = "b" /\ l.form = "bc" -> F("simm19", 5, 19)
    [] l.t = "b" /\ l.form = "bu" -> F("simm26", 0, 26)

IsReference(l) ==
  \/ l.t = "ls" /\ l.form = "literal"
  \/ l.t = "b" /\ l.form \in {"bu", "bc"}

\* The address offset that the emulator adds for an unsigned immediate.
ExecutedOffset(f) == f.imm12 * (IF f.sf = 1 THEN 8 ELSE 4)
-----------------------------------------------------------------------------
NoFields == [class |-> "none", f |-> <<>>]

Init ==
  /\ line \in Lines
  /\ ins = NoFields
  /\ word = EmptyWord
  /\ dec = NoFields
  /\ step = "line"

\* The line's fields go into the structure; the byte of offmode holds what the
\* lines before left there, unless this line assigns it.
Disassemble ==
  /\ step = "line"
  /\ \E stale \in {0, 1} :
       LET given == Disassembled(line)
       IN  ins' = [given EXCEPT !.f = @ ++ [offmode |-> stale]]
  /\ step' = "fields"
  /\ UNCHANGED <<line, word, dec>>

Encode ==
  /\ step = "fields"
  /\ word' = Encoded(ins.class, ins.f)
  /\ step' = "word"
  /\ UNCHANGED <<line, ins, dec>>

\* The label was unknown: its offset is put when the file has been read.
\* "line" is from now on the line that names this offset.
Complete ==
  /\ step = "word"
  /\ IsReference(line)
  /\ LET field == OffsetField(line)
     IN  \E off \in Offsets[field.len] :
           /\ word' = PutBits(word, Bits(off, field.len), field.at, field.len)
           /\ line' = [line EXCEPT !.off = off]
  /\ step' = "complete"
  /\ UNCHANGED <<ins, dec>>

\* The emulator fetches the word.
Decode ==
  /\ step \in {"word", "complete"}
  /\ dec' = Decoded(word)
  /\ step' = "decoded"
  /\ UNCHANGED <<line, ins, word>>

Next == Disassemble \/ Encode \/ Complete \/ Decode

Spec == Init /\ [][Next]_vars
-----------------------------------------------------------------------------
\* A value fits the bits of its member, so putBits cuts none: a bool is 0 or 1
\* and a register's number is below 32.
ValueRange(name) ==
  IF name \in SignedFields THEN SignedRange(Length(name)) ELSE UnsignedRange(Length(name))

TypeOK ==
  /\ word \in [WordBits -> {0, 1}]
  /\ \A r \in {ins, dec} :
       /\ r.class \in {"none", "DPI", "DPR", "SDT", "B"}
       /\ \A name \in DOMAIN r.f : r.f[name] \in ValueRange(name)
  /\ step \in {"line", "fields", "word", "complete", "decoded"}

\* The emulator reads back the class of the line and every field the
\* disassembler gave it, sign and all, whether its offset was known when the
\* line was read or was completed later (decoders.c, onepass.c).
RoundTrip ==
  step = "decoded" =>
    LET given == Disassembled(line)
    IN  /\ dec.class = given.class
        /\ \A name \in DOMAIN given.f :
             name \in DOMAIN dec.f /\ dec.f[name] = given.f[name]

\* No bit of a word comes from an earlier line: with the other value in the
\* byte of offmode the word is the same (the order of putBits in decodeSDT).
StaleInvisible ==
  step = "word" =>
    LET given == Disassembled(line)
    IN  \A stale \in {0, 1} :
          word = Encoded(given.class, given.f ++ [offmode |-> stale])

\* A completed word is the word that the same line gives when its label is
\* known: completion replaces the whole offset and nothing else.
CompletionAgrees ==
  step = "complete" =>
    LET given == Disassembled(line)
    IN  word = Encoded(given.class, given.f ++ ins.f)

\* structs.h:62 gives the load size to sf, and constants.h:60 gives a 32-bit
\* offset the scale 4: the offset of [xn, #imm] that reaches the emulator's
\* address is the one written in the line, of words too.
UnsignedOffsetKept ==
  step = "decoded" /\ line.t = "ls" /\ line.form = "unsigned" => ExecutedOffset(dec.f) = line.v
=============================================================================
