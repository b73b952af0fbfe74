------------------------------ MODULE Emulator ------------------------------
(***************************************************************************)
(* The emulator's state and what each instruction does to it (execute.c,   *)
(* emulate.c), with the widths as parameters.                              *)
(*                                                                         *)
(* An instruction is what decode leaves in the Instruction structure:      *)
(* [class, f] with the fields that Codec reads.  The memory holds data and *)
(* code and a program may write over itself, so a fetch may give any of    *)
(* Instructions, or the halting one.                                       *)
(*                                                                         *)
(* R has NUM_OF_REGISTERS elements and ZR follows it in EmulatorState: the *)
(* code's R[ZR_SP] is ZR, and so it is here.                               *)
(***************************************************************************)
EXTENDS BitFields, Flags

CONSTANTS
  Mode32,           \* the bits of a word; a doubleword has twice as many
  ByteSize,
  ArithmeticShift,  \* what sh shifts the immediate by
  ZrSp,             \* the number of both ZR and SP
  MemorySize,       \* in bytes
  Instructions,     \* what decode may give
  Images,           \* the input files
  MaxSteps          \* bound on the instructions executed

Mode64 == 2 * Mode32
InstrBytes == Mode32 \div ByteSize
WideMoveShift == Mode64 \div 4

Values == 0 .. 2^Mode64 - 1
Registers == 0 .. ZrSp

ASSUME WidthsAssumption ==
  /\ {Mode32, ByteSize, ArithmeticShift, ZrSp, MemorySize} \subseteq Nat \ {0}
  /\ MaxSteps \in Nat
  /\ Mode32 % ByteSize = 0 /\ Mode64 % 4 = 0
  /\ MemorySize <= 2^Mode32

ASSUME ImagesAssumption == Images \subseteq [0..MemorySize-1 -> 0 .. 2^ByteSize - 1]

\* The fields that decode reads for each class.  A value that execute exits on
\* is not among them: ExitProgram stands for it.
IsArithmetic(d) ==
  /\ d.opi = 2 /\ d.opc \in 0..3 /\ {d.rd, d.rn} \subseteq Registers
  /\ d.imm12 \in Nat /\ d.sh \in {0, 1} /\ d.imm12 * 2^(d.sh * ArithmeticShift) < 2^Mode32

IsWideMove(d) ==
  /\ d.opi = 5 /\ d.opc \in {0, 2, 3} /\ d.rd \in Registers /\ d.hw \in Nat /\ d.imm16 \in Nat

IsRegisters(d) ==
  /\ {d.rd, d.rn, d.rm} \subseteq Registers
  /\ \/ /\ d.m = 0 /\ d.opc \in 0..3 /\ d.armOrLog \in {0, 1} /\ d.n \in {0, 1}
        /\ d.shift \in 0..3 /\ d.operand \in Nat
     \/ d.m = 1 /\ d.x \in {0, 1} /\ d.ra \in Registers

IsTransfer(d) ==
  /\ d.rt \in Registers
  /\ \/ d.mode = 0 /\ d.simm19 \in Int
     \/ /\ d.mode = 1 /\ d.l \in {0, 1} /\ d.xn \in Registers
        /\ \/ d.u = 1 /\ d.imm12 \in Nat
           \/ d.u = 0 /\ d.offmode = 0 /\ d.i \in {0, 1} /\ d.simm9 \in Int
           \/ d.u = 0 /\ d.offmode = 1 /\ d.xm \in Registers

IsBranch(d) ==
  \/ d.type = 0 /\ d.simm26 \in Int
  \/ d.type = 1 /\ d.tag \in {0, 5, 6, 7} /\ d.neg \in {0, 1} /\ d.simm19 \in Int
  \/ d.type = 3 /\ d.xn \in Registers

ASSUME InstructionsAssumption ==
  \A i \in Instructions :
    /\ i.class \in {"DPI", "DPR", "SDT"} => i.f.sf \in {0, 1}
    /\ i.class = "DPI" => IsArithmetic(i.f) \/ IsWideMove(i.f)
    /\ i.class = "DPR" => IsRegisters(i.f)
    /\ i.class = "SDT" => IsTransfer(i.f)
    /\ i.class = "B" => IsBranch(i.f)

VARIABLES
  R, SP, PC,     \* the registers, as unsigned doublewords
  pstate,        \* [N, Z, C, V]
  mem,
  instruction,   \* the structure that decode fills
  status,
  compared,      \* history: the operands of the last subtraction that set the flags
  steps          \* the instructions executed

machine == <<R, SP, PC, pstate, mem>>
vars == <<R, SP, PC, pstate, mem, instruction, status, compared, steps>>

NotCompared == [sf |-> 0, a |-> 0, b |-> 0, set |-> FALSE]
-----------------------------------------------------------------------------
Width(sf) == IF sf = 1 THEN Mode64 ELSE Mode32

Doubleword(x) == x % 2^Mode64

\* maskTo32Bits
Mask(sf, x) == x % 2^Width(sf)

\* The reading of the low bits as a signed number.
Signed(sf, x) == SignExtend(Mask(sf, x), Width(sf))

Not(x) == 2^Mode64 - 1 - x

\* A bit by bit operation on two doublewords.
BitWise(Op(_, _), x, y) ==
  LET p == Bits(x, Mode64)
      q == Bits(y, Mode64)
  IN  Unsigned([k \in 0..Mode64-1 |-> Op(p[k], q[k])], Mode64)

And(x, y) == BitWise(LAMBDA p, q : p * q, x, y)
Or(x, y) == BitWise(LAMBDA p, q : p + q - p * q, x, y)
Xor(x, y) == BitWise(LAMBDA p, q : (p + q) % 2, x, y)

\* shift: lsl, lsr, asr, ror of a value that is masked already.
Shift(x, amount, mode, sf) ==
  LET by == amount % Width(sf)
  IN  CASE mode = 0 -> Mask(sf, x * 2^by)
        [] mode = 1 -> x \div 2^by
        [] mode = 2 -> Mask(sf, Signed(sf, x) \div 2^by)
        [] mode = 3 -> Mask(sf, x \div 2^by + x * 2^(Width(sf) - by))

SetsFlags(opc) == opc \in {1, 3}

\* addOrSub
AddOrSub(opc, a, b) == Doubleword(IF opc \in {0, 1} THEN a + b ELSE a - b)

\* Mutant: an addition is taken for a subtraction.
ZeroOfDifference(opc, sf, a, b) == a = b

\* Mutant: the zero flag is that of the low word, whatever the width.
ZeroOfLowWord(opc, sf, a, b) == Mask(0, AddOrSub(opc, a, b)) = 0

\* The zero flag is taken from the doubleword, whatever the width.
ZeroFlag(opc, sf, a, b) == AddOrSub(opc, a, b) = 0

\* updateFlagsArithmetic
FlagsArithmetic(opc, sf, a, b) ==
  LET res == AddOrSub(opc, a, b)
      s(x) == Signed(sf, x)
  IN  [N |-> s(res) < 0,
       Z |-> ZeroFlag(opc, sf, a, b),
       C |-> IF opc = 1 THEN Mask(sf, res) < Mask(sf, a) ELSE Mask(sf, a) >= Mask(sf, b),
       V |-> IF opc = 1 THEN AddOverflow(s(a), s(b), s(res))
                        ELSE SubOverflow(s(a), s(b), s(res))]

\* updateFlagsAnd
FlagsAnd(sf, a, b) ==
  LET res == And(a, b)
  IN  [N |-> Signed(sf, res) < 0, Z |-> res = 0, C |-> FALSE, V |-> FALSE]

Comparison(opc, sf, a, b) ==
  IF opc = 3 THEN [sf |-> sf, a |-> Signed(sf, a), b |-> Signed(sf, b), set |-> TRUE]
  ELSE IF opc = 1 THEN NotCompared ELSE compared
-----------------------------------------------------------------------------
Init ==
  /\ R = [n \in Registers |-> 0]
  /\ SP = 0
  /\ PC = 0
  /\ pstate = [N |-> FALSE, Z |-> TRUE, C |-> FALSE, V |-> FALSE]
  /\ mem \in Images
  /\ instruction = [class |-> "none", f |-> <<>>]
  /\ status = "running"
  /\ compared = NotCompared
  /\ steps = 0

\* The addresses of n bytes from an unsigned word on that memory has.
InMemory(addr, n) == addr + n <= MemorySize

UpdatePC == PC' = Doubleword(PC + InstrBytes)

Decodes(class) ==
  /\ status = "running"
  /\ steps < MaxSteps
  /\ InMemory(Mask(0, PC), InstrBytes)
  /\ instruction' \in {i \in Instructions : i.class = class}
  /\ steps' = steps + 1

\* executeDPI, arithmetic: 31 is SP.  A comparison does not write it, but the
\* mask that ends the function does.
ExecuteDPIArithmetic ==
  /\ Decodes("DPI")
  /\ LET d == instruction'.f
         a == Mask(d.sf, IF d.rn = ZrSp THEN SP ELSE R[d.rn])
         b == d.imm12 * 2^(d.sh * ArithmeticShift)
         result == AddOrSub(d.opc, a, b)
     IN  /\ d.opi = 2
         /\ IF d.rd = ZrSp
            THEN /\ SP' = Mask(d.sf, IF SetsFlags(d.opc) THEN SP ELSE result)
                 /\ UNCHANGED R
            ELSE /\ R' = [R EXCEPT ![d.rd] = Mask(d.sf, result)]
                 /\ UNCHANGED SP
         /\ pstate' = IF SetsFlags(d.opc) THEN FlagsArithmetic(d.opc, d.sf, a, b) ELSE pstate
         /\ compared' = Comparison(d.opc, d.sf, a, b)
  /\ UpdatePC
  /\ UNCHANGED <<mem, status>>

\* movn, movz and movk of a chunk of the register.
WideMove(d) ==
  LET unit == 2^(d.hw * WideMoveShift)
      imm == Doubleword(d.imm16 * unit)
      chunk == (R[d.rd] \div unit) % 2^WideMoveShift
  IN  CASE d.opc = 0 -> Not(imm)
        [] d.opc = 2 -> imm
        [] d.opc = 3 -> R[d.rd] - chunk * unit + imm

\* executeDPI, wide move: nothing is moved to 31, whose mask is applied to SP.
ExecuteWideMove ==
  /\ Decodes("DPI")
  /\ LET d == instruction'.f
     IN  /\ d.opi = 5
         /\ IF d.rd = ZrSp
            THEN SP' = Mask(d.sf, SP) /\ UNCHANGED R
            ELSE R' = [R EXCEPT ![d.rd] = Mask(d.sf, WideMove(d))] /\ UNCHANGED SP
  /\ UpdatePC
  /\ UNCHANGED <<pstate, mem, status, compared>>

\* The operands of executeDPR: rm = 31 makes both of them ZR.
FirstOperand(d) == Mask(d.sf, IF d.rm # ZrSp THEN R[d.rn] ELSE R[ZrSp])

\* shift of Rm, and the complement that n asks for.
SecondOperand(d) ==
  LET op2 == Shift(Mask(d.sf, R[d.rm]), d.operand, d.shift, d.sf)
  IN  IF d.armOrLog = 0 /\ d.n = 1 THEN Not(op2) ELSE op2

\* The end of executeDPR: 31 is ZR, which is written as any register, and
\* masked when it is not.
PutRd(d, result, skipped) ==
  R' = [R EXCEPT ![d.rd] = Mask(d.sf, IF d.rd = ZrSp /\ skipped THEN @ ELSE result)]

\* executeDPR, arithmetic.
ExecuteDPRArithmetic ==
  /\ Decodes("DPR")
  /\ LET d == instruction'.f
         a == FirstOperand(d)
         b == SecondOperand(d)
     IN  /\ d.m = 0 /\ d.armOrLog = 1
         /\ PutRd(d, AddOrSub(d.opc, a, b), SetsFlags(d.opc))
         /\ pstate' = IF SetsFlags(d.opc) THEN FlagsArithmetic(d.opc, d.sf, a, b) ELSE pstate
         /\ compared' = Comparison(d.opc, d.sf, a, b)
  /\ UpdatePC
  /\ UNCHANGED <<SP, mem, status>>

\* and, orr, eor, ands
Logic(opc, a, b) ==
  CASE opc \in {0, 3} -> And(a, b)
    [] opc = 1 -> Or(a, b)
    [] opc = 2 -> Xor(a, b)

\* executeDPR, logical.
ExecuteLogical ==
  /\ Decodes("DPR")
  /\ LET d == instruction'.f
         a == FirstOperand(d)
         b == SecondOperand(d)
     IN  /\ d.m = 0 /\ d.armOrLog = 0
         /\ PutRd(d, Logic(d.opc, a, b), d.opc = 3)
         /\ pstate' = IF d.opc = 3 THEN FlagsAnd(d.sf, a, b) ELSE pstate
         /\ compared' = IF d.opc = 3 THEN NotCompared ELSE compared
  /\ UpdatePC
  /\ UNCHANGED <<SP, mem, status>>

\* executeDPR, multiply.
ExecuteMultiply ==
  /\ Decodes("DPR")
  /\ LET d == instruction'.f
         product == FirstOperand(d) * Mask(d.sf, R[d.rm])
     IN  /\ d.m = 1
         /\ PutRd(d, R[d.ra] + (IF d.x = 0 THEN product ELSE -product), TRUE)
  /\ UpdatePC
  /\ UNCHANGED <<SP, pstate, mem, status, compared>>
-----------------------------------------------------------------------------
Bytes(sf) == Width(sf) \div ByteSize

\* loadFromMemory and fetch: the least significant byte is first.
LoadFromMemory(m, addr, sf) ==
  Unsigned([k \in 0..Width(sf)-1 |->
             Bits(m[addr + k \div ByteSize], ByteSize)[k % ByteSize]], Width(sf))

\* Mutant: the most significant byte is first.
StoreBigEndian(addr, x, sf) ==
  [at \in DOMAIN mem |->
     IF at \in addr .. addr + Bytes(sf) - 1
     THEN (x \div 2^(ByteSize * (addr + Bytes(sf) - 1 - at))) % 2^ByteSize
     ELSE mem[at]]

\* storeToMemory
StoreToMemory(addr, x, sf) ==
  [at \in DOMAIN mem |->
     IF at \in addr .. addr + Bytes(sf) - 1
     THEN (x \div 2^(ByteSize * (at - addr))) % 2^ByteSize
     ELSE mem[at]]

\* The target register is masked before anything is read, for stores as well.
Masked(d) == [R EXCEPT ![d.rt] = Mask(d.sf, @)]

Base(d) == IF d.xn = ZrSp THEN SP ELSE Masked(d)[d.xn]

IsIndexed(d) == d.u = 0 /\ d.offmode = 0

\* targetAddress, an unsigned word.  The register of an offset is SP when the
\* base is.
TargetAddress(d) ==
  LET offset ==
        CASE d.u = 1 -> d.imm12 * Bytes(d.sf)
          [] IsIndexed(d) -> IF d.i = 1 THEN d.simm9 ELSE 0
          [] d.u = 0 /\ d.offmode = 1 -> IF d.xn = ZrSp THEN SP ELSE Masked(d)[d.xm]
  IN  Mask(0, Base(d) + offset)

\* The registers after the write-back of an indexed address.
WriteBack(d) ==
  [Masked(d) EXCEPT ![d.xn] = IF IsIndexed(d) /\ d.xn # ZrSp
                              THEN Doubleword(@ + d.simm9) ELSE @]

\* Mutant: the base of every indexed address is taken for SP.
WriteBackSPAlways(d) == IF IsIndexed(d) THEN Doubleword(SP + d.simm9) ELSE SP

WriteBackSP(d) == IF IsIndexed(d) /\ d.xn = ZrSp THEN Doubleword(SP + d.simm9) ELSE SP

\* executeSDT with an address from a register: a load after the write-back
\* wins over it, a store stores what the write-back left.
ExecuteTransfer ==
  /\ Decodes("SDT")
  /\ LET d == instruction'.f
         addr == TargetAddress(d)
     IN  /\ d.mode = 1
         /\ InMemory(addr, Bytes(d.sf))
         /\ SP' = WriteBackSP(d)
         /\ IF d.l = 1
            THEN /\ R' = [WriteBack(d) EXCEPT ![d.rt] = LoadFromMemory(mem, addr, d.sf)]
                 /\ UNCHANGED mem
            ELSE /\ R' = WriteBack(d)
                 /\ mem' = StoreToMemory(addr, WriteBack(d)[d.rt], d.sf)
  /\ UpdatePC
  /\ UNCHANGED <<pstate, status, compared>>

\* executeSDT with an address relative to PC.
ExecuteLoadLiteral ==
  /\ Decodes("SDT")
  /\ LET d == instruction'.f
         addr == Mask(0, PC + d.simm19 * InstrBytes)
     IN  /\ d.mode = 0
         /\ InMemory(addr, Bytes(d.sf))
         /\ R' = [R EXCEPT ![d.rt] = LoadFromMemory(mem, addr, d.sf)]
  /\ UpdatePC
  /\ UNCHANGED <<SP, pstate, mem, status, compared>>

\* Reading or writing beyond the memory is undefined: anything may follow.
ExecuteOutOfMemory ==
  /\ Decodes("SDT")
  /\ LET d == instruction'.f
     IN  ~InMemory(IF d.mode = 1 THEN TargetAddress(d)
                   ELSE Mask(0, PC + d.simm19 * InstrBytes), Bytes(d.sf))
  /\ status' = "wild"
  /\ UNCHANGED <<machine, compared>>
-----------------------------------------------------------------------------
\* executeB
ToBranch(d) ==
  LET holds == CASE d.tag = 0 -> pstate.Z
                 [] d.tag = 5 -> IsGe(pstate.N, pstate.V)
                 [] d.tag = 6 -> IsGt(pstate.N, pstate.Z, pstate.V)
                 [] d.tag = 7 -> TRUE
  IN  holds # (d.neg = 1)

ExecuteBranch ==
  /\ Decodes("B")
  /\ LET d == instruction'.f
     IN  PC' = CASE d.type = 0 -> Doubleword(PC + d.simm26 * InstrBytes)
                 [] d.type = 1 -> Doubleword(PC + InstrBytes
                                    * (IF ToBranch(d) THEN d.simm19 ELSE 1))
                 [] d.type = 3 -> R[d.xn]
  /\ UNCHANGED <<R, SP, pstate, mem, status, compared>>

\* A fetch beyond the memory.
FetchOutOfMemory ==
  /\ status = "running"
  /\ ~InMemory(Mask(0, PC), InstrBytes)
  /\ status' = "wild"
  /\ UNCHANGED <<machine, instruction, compared, steps>>

\* A word that decode or execute rejects ends the program.  The first decode
\* also asks for the type of a structure nothing has assigned yet, and any word
\* may end it there.
ExitProgram ==
  /\ status = "running"
  /\ InMemory(Mask(0, PC), InstrBytes)
  /\ status' = "exit"
  /\ UNCHANGED <<machine, instruction, compared, steps>>

\* The word fetched is HALT_INSTR; the final state is written.
Halt ==
  /\ status = "running"
  /\ InMemory(Mask(0, PC), InstrBytes)
  /\ status' = "halted"
  /\ UNCHANGED <<machine, instruction, compared, steps>>

Next ==
  \/ ExecuteDPIArithmetic \/ ExecuteWideMove
  \/ ExecuteDPRArithmetic \/ ExecuteLogical \/ ExecuteMultiply
  \/ ExecuteTransfer \/ ExecuteLoadLiteral \/ ExecuteOutOfMemory
  \/ ExecuteBranch
  \/ FetchOutOfMemory \/ ExitProgram \/ Halt

Spec == Init /\ [][Next]_vars
-----------------------------------------------------------------------------
\* Flags that one result can have: none is negative and zero.
States == {p \in [N : BOOLEAN, Z : BOOLEAN, C : BOOLEAN, V : BOOLEAN] : ~(p.N /\ p.Z)}

TypeOK ==
  /\ R \in [Registers -> Values]
  /\ SP \in Values /\ PC \in Values
  /\ pstate \in States
  /\ mem \in [0..MemorySize-1 -> 0 .. 2^ByteSize - 1]
  /\ status \in {"running", "wild", "exit", "halted"}
  /\ steps \in 0..MaxSteps

Executed(class) == steps' = steps + 1 /\ status' = "running" /\ instruction'.class = class

\* The instruction i may write register n.
MayWrite(i, n) ==
  \/ i.class = "DPI" /\ n = i.f.rd /\ n # ZrSp
  \/ i.class = "DPR" /\ n = i.f.rd
  \/ i.class = "SDT" /\ n = i.f.rt
  \/ i.class = "SDT" /\ i.f.mode = 1 /\ IsIndexed(i.f) /\ n = i.f.xn /\ n # ZrSp

MayWriteSP(i) ==
  \/ i.class = "DPI" /\ i.f.rd = ZrSp
  \/ i.class = "SDT" /\ i.f.mode = 1 /\ IsIndexed(i.f) /\ i.f.xn = ZrSp

MaySetFlags(i) ==
  \/ i.class = "DPI" /\ i.f.opi = 2 /\ SetsFlags(i.f.opc)
  \/ /\ i.class = "DPR" /\ i.f.m = 0
     /\ IF i.f.armOrLog = 1 THEN SetsFlags(i.f.opc) ELSE i.f.opc = 3

\* An instruction writes the registers its fields name and no other, ZR and SP
\* included, and flags only when its opcode says so.
OnlyNamedChange ==
  [][/\ \A n \in Registers : R'[n] # R[n] => MayWrite(instruction', n)
     /\ SP' # SP => MayWriteSP(instruction')
     /\ pstate' # pstate => MaySetFlags(instruction')]_vars

\* What a store leaves is what a load of the same width gives back, and the
\* bytes around it stay (storeToMemory, loadFromMemory).
StoredIsLoaded ==
  [][Executed("SDT") /\ instruction'.f.mode = 1 /\ instruction'.f.l = 0 =>
       LET d == instruction'.f
           addr == TargetAddress(d)
       IN  /\ LoadFromMemory(mem', addr, d.sf) = Mask(d.sf, R'[d.rt])
           /\ \A at \in DOMAIN mem \ (addr .. addr + Bytes(d.sf) - 1) : mem'[at] = mem[at]]_vars

\* After an instruction that sets the flags, Z tells whether its result, as its
\* register has it, is zero.  An addition of words takes Z from the doubleword
\* (execute.c:27), and is left out.
IsAdds(i) == i.f.opc = 1 /\ MaySetFlags(i)

ZeroFlagOfResult ==
  [][/\ steps' # steps /\ MaySetFlags(instruction')
     /\ instruction'.f.rd # ZrSp
     /\ ~(IsAdds(instruction') /\ instruction'.f.sf = 0)
     => (pstate'.Z <=> R'[instruction'.f.rd] = 0)]_vars

\* What a condition says of the operands that were compared.
Compares(d, a, b) ==
  (CASE d.tag = 0 -> a = b
     [] d.tag = 5 -> a >= b
     [] d.tag = 6 -> a > b
     [] d.tag = 7 -> TRUE) # (d.neg = 1)

\* A conditional branch that finds the flags of a subtraction goes where the
\* signed comparison of its operands says, however many instructions lie
\* between.  V is lost for zero less the least value (execute.c:36), and for
\* that pair alone.
VIsLost(c) == c.a = 0 /\ c.b = -(2^(Width(c.sf) - 1))

BranchFollowsComparison ==
  [][/\ Executed("B") /\ instruction'.f.type = 1
     /\ compared.set /\ ~VIsLost(compared)
     => LET d == instruction'.f
        IN  PC' = Doubleword(PC + InstrBytes
                    * (IF Compares(d, compared.a, compared.b) THEN d.simm19 ELSE 1))]_vars
=============================================================================
