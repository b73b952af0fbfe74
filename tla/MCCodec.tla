------------------------------ MODULE MCCodec -------------------------------
(***************************************************************************)
(* Every mnemonic and addressing mode, with the least and greatest value   *)
(* of each field.                                                          *)
(***************************************************************************)
EXTENDS Codec

Reg(k, wide) == [k |-> "reg", n |-> k, x |-> wide]
Imm(v) == [k |-> "imm", v |-> v]
Shift(v) == [k |-> "shift", v |-> v]

Regs(wide) == {Reg(k, wide) : k \in {0, 31}}
Widths == BOOLEAN

DP(name, tokens) == [t |-> "dp", name |-> name, tokens |-> tokens]
ALS(name, tokens) == [t |-> "als", name |-> name, tokens |-> tokens]

ImmediateInstance == UNION {
  {DP(name, <<rd, rn, Imm(v)>> \o sh) :
     name \in ToSet(Arithmetics), rd \in Regs(wide), rn \in Regs(wide), v \in {0, 4095},
     sh \in {<<>>, <<Shift(0), Imm(12)>>}} : wide \in Widths}

WideMoveInstance == UNION {
  {DP(name, <<rd, Imm(v)>> \o sh) :
     name \in {"movn", "movz", "movk"}, rd \in Regs(wide), v \in {1, 65535},
     sh \in {<<>>, <<Shift(0), Imm(16)>>, <<Shift(0), Imm(48)>>}} : wide \in Widths}

RegisterInstance == UNION {
  {DP(name, <<Reg(0, wide), Reg(31, wide), Reg(21, wide)>> \o sh) :
     name \in ToSet(Arithmetics) \cup ToSet(Logical),
     sh \in {<<>>, <<Shift(1), Imm(0)>>, <<Shift(3), Imm(63)>>}} : wide \in Widths}

MultiplyInstance == UNION {
  {DP(name, <<rd, Reg(31, wide), Reg(10, wide), ra>>) :
     name \in ToSet(Multiply), rd \in Regs(wide), ra \in Regs(wide)} : wide \in Widths}

AliasInstance ==
  {ALS(name, <<Reg(3, TRUE), Imm(4095)>>) : name \in {"cmp", "cmn"}}
    \cup {ALS(name, <<Reg(3, wide), Reg(4, wide)>>) :
            name \in {"cmp", "cmn", "tst", "neg", "negs", "mvn", "mov"}, wide \in Widths}
    \cup {ALS(name, <<Reg(3, FALSE), Reg(4, FALSE), Reg(5, FALSE)>>) : name \in {"mul", "mneg"}}

\* Offsets of words are multiples of the register's size, as written in [xn, #imm].
TransferInstance == UNION {
  {[t |-> "ls", name |-> name, form |-> form, rt |-> Reg(1, wide), xn |-> Reg(31, TRUE), v |-> v] :
     name \in {"ldr", "str"}, form \in {"pre", "post"}, v \in {-256, -1, 0, 255}}
  \cup {[t |-> "ls", name |-> name, form |-> "unsigned", rt |-> Reg(31, wide),
         xn |-> [k |-> "reg", n |-> 2, x |-> TRUE], v |-> v * (IF wide THEN 8 ELSE 4)] :
     name \in {"ldr", "str"}, v \in {1, 4095}}
  \cup {[t |-> "ls", name |-> name, form |-> "zero", rt |-> Reg(2, wide), xn |-> Reg(3, TRUE)] :
     name \in {"ldr", "str"}}
  \cup {[t |-> "ls", name |-> name, form |-> "register", rt |-> Reg(2, wide), xn |-> Reg(3, TRUE),
         xm |-> Reg(k, TRUE)] :
     name \in {"ldr", "str"}, k \in {1, 30}}
  : wide \in Widths}

LiteralInstance == {[t |-> "ls", name |-> "ldr", form |-> "literal", rt |-> Reg(7, wide), off |-> off] :
                   wide \in Widths, off \in {-1, 3}}

BranchInstance ==
  {[t |-> "b", form |-> "bu", off |-> off] : off \in {-1, 0, 5}}
    \cup {[t |-> "b", form |-> "bc", cond |-> cond, off |-> off] :
            cond \in DOMAIN Cond, off \in {-2, 5}}
    \cup {[t |-> "b", form |-> "br", xn |-> Reg(k, TRUE)] : k \in {0, 30}}

LinesValue == ImmediateInstance \cup WideMoveInstance \cup RegisterInstance \cup MultiplyInstance
                \cup AliasInstance \cup TransferInstance \cup LiteralInstance \cup BranchInstance

\* The bounds of the two offset fields.
OffsetsValue == [len \in {19, 26} |-> {-(2^(len-1)), -1, 0, 2^(len-1) - 1}]
=============================================================================
