--------------------------- MODULE EmulatorProofs ---------------------------
(***************************************************************************)
(* The emulator for every width, number of registers, memory and set of    *)
(* instructions that decode accepts: which state an instruction may touch; *)
(* when the overflow flag and the signed conditions are right; types; that *)
(* stores are loaded; the zero flag; and that a branch follows the last    *)
(* comparison, by the invariant ComparedInv.  Numbers and their bits are   *)
(* in SharedProofs.                                                        *)
(***************************************************************************)
EXTENDS Emulator, SharedProofs

\* R is always a function on the registers, whatever it holds.
HasRegisters == R = [n \in Registers |-> R[n]]

LEMMA RegistersInit == Init => HasRegisters
  BY DEF Init, HasRegisters

LEMMA RegistersStep == HasRegisters /\ [Next]_vars => HasRegisters'
<1>. SUFFICES ASSUME HasRegisters, [Next]_vars PROVE HasRegisters'
  OBVIOUS
<1>. USE DEF HasRegisters
<1>1. CASE ExecuteDPIArithmetic
  BY <1>1 DEF ExecuteDPIArithmetic
<1>2. CASE ExecuteWideMove
  BY <1>2 DEF ExecuteWideMove
<1>3. CASE ExecuteDPRArithmetic
  BY <1>3 DEF ExecuteDPRArithmetic, PutRd
<1>4. CASE ExecuteLogical
  BY <1>4 DEF ExecuteLogical, PutRd
<1>5. CASE ExecuteMultiply
  BY <1>5 DEF ExecuteMultiply, PutRd
<1>6. CASE ExecuteTransfer
  BY <1>6 DEF ExecuteTransfer, WriteBack, Masked
<1>7. CASE ExecuteLoadLiteral
  BY <1>7 DEF ExecuteLoadLiteral
<1>8. CASE UNCHANGED R
  BY <1>8
<1>. QED
  BY <1>1, <1>2, <1>3, <1>4, <1>5, <1>6, <1>7, <1>8
     DEF Next, vars, machine, ExecuteOutOfMemory, ExecuteBranch, FetchOutOfMemory,
         ExitProgram, Halt

\* What each action does to the registers: the instruction it decodes names
\* every register, every flag and SP that changes.
LEMMA StepNames ==
  ASSUME HasRegisters, Next
  PROVE  /\ \A n \in Registers : R'[n] # R[n] => MayWrite(instruction', n)
         /\ SP' # SP => MayWriteSP(instruction')
         /\ pstate' # pstate => MaySetFlags(instruction')
<1>1. CASE ExecuteDPIArithmetic
  BY <1>1 DEF ExecuteDPIArithmetic, Decodes, HasRegisters, MayWrite, MayWriteSP, MaySetFlags
<1>2. CASE ExecuteWideMove
  BY <1>2 DEF ExecuteWideMove, Decodes, HasRegisters, MayWrite, MayWriteSP, MaySetFlags
<1>3. CASE ExecuteDPRArithmetic
  BY <1>3 DEF ExecuteDPRArithmetic, PutRd, Decodes, HasRegisters, MayWrite, MaySetFlags
<1>4. CASE ExecuteLogical
  BY <1>4 DEF ExecuteLogical, PutRd, Decodes, HasRegisters, MayWrite, MaySetFlags
<1>5. CASE ExecuteMultiply
  BY <1>5 DEF ExecuteMultiply, PutRd, Decodes, HasRegisters, MayWrite
<1>6. CASE ExecuteTransfer
  BY <1>6 DEF ExecuteTransfer, WriteBack, WriteBackSP, Masked, Decodes, HasRegisters, MayWrite,
              MayWriteSP
<1>7. CASE ExecuteLoadLiteral
  BY <1>7 DEF ExecuteLoadLiteral, Decodes, HasRegisters, MayWrite
<1>8. CASE UNCHANGED <<R, SP, pstate>>
  BY <1>8
<1>. QED
  BY <1>1, <1>2, <1>3, <1>4, <1>5, <1>6, <1>7, <1>8
     DEF Next, machine, ExecuteOutOfMemory, ExecuteBranch, FetchOutOfMemory,
         ExitProgram, Halt

\* executeDPI, executeDPR, executeSDT: an instruction changes only the registers
\* its fields name, ZR and SP included, and sets the flags only when its opcode
\* says so.
THEOREM OnlyNamed == Spec => OnlyNamedChange
<1>1. Init => HasRegisters
  BY RegistersInit
<1>2. HasRegisters /\ [Next]_vars => HasRegisters'
  BY RegistersStep
<1>3. HasRegisters /\ [Next]_vars =>
        [/\ \A n \in Registers : R'[n] # R[n] => MayWrite(instruction', n)
         /\ SP' # SP => MayWriteSP(instruction')
         /\ pstate' # pstate => MaySetFlags(instruction')]_vars
  BY StepNames
<1>. QED
  BY <1>1, <1>2, <1>3, PTL DEF Spec, OnlyNamedChange
-----------------------------------------------------------------------------
(* Flags.                                                                    *)

SignedRange(h) == -h .. h-1

\* A result that does not fit the width.
OutOfRange(x, h) == x >= h \/ x < -h

\* updateFlagsArithmetic, addition: V is the overflow, except for the least
\* value added to itself, where it stays clear.
THEOREM AddOverflowExact ==
  ASSUME NEW h \in Nat, h > 0, NEW a \in SignedRange(h), NEW b \in SignedRange(h),
         ~(a = -h /\ b = -h)
  PROVE  AddOverflow(a, b, WrapSigned(a + b, h)) <=> OutOfRange(a + b, h)
  BY DEF AddOverflow, WrapSigned, OutOfRange, SignedRange

\* updateFlagsArithmetic, subtraction: V is the overflow, except for zero less
\* the least value, where it stays clear.
THEOREM SubOverflowExact ==
  ASSUME NEW h \in Nat, h > 0, NEW a \in SignedRange(h), NEW b \in SignedRange(h),
         ~(a = 0 /\ b = -h)
  PROVE  SubOverflow(a, b, WrapSigned(a - b, h)) <=> OutOfRange(a - b, h)
  BY DEF SubOverflow, WrapSigned, OutOfRange, SignedRange

\* The two exceptions are real: the flag is clear although both overflow.
THEOREM OverflowMissed ==
  ASSUME NEW h \in Nat, h > 0
  PROVE  /\ OutOfRange(-h + -h, h) /\ ~AddOverflow(-h, -h, WrapSigned(-h + -h, h))
         /\ OutOfRange(0 - -h, h) /\ ~SubOverflow(0, -h, WrapSigned(0 - -h, h))
  BY DEF AddOverflow, SubOverflow, WrapSigned, OutOfRange

\* executeB after a comparison of a with b: ge and gt (and lt and le, their
\* negations) hold exactly when a >= b and a > b, except for zero compared with
\* the least value.
THEOREM ConditionsExact ==
  ASSUME NEW h \in Nat, h > 0, NEW a \in SignedRange(h), NEW b \in SignedRange(h),
         ~(a = 0 /\ b = -h)
  PROVE  LET res == WrapSigned(a - b, h)
             n == res < 0
             v == SubOverflow(a, b, res)
         IN  /\ IsGe(n, v) <=> a >= b
             /\ IsGt(n, res = 0, v) <=> a > b
<1>. DEFINE res == WrapSigned(a - b, h)
            n == res < 0
            v == SubOverflow(a, b, res)
<1>1. v <=> OutOfRange(a - b, h)
  BY SubOverflowExact
<1>2. n <=> (a - b < 0 /\ ~OutOfRange(a - b, h)) \/ a - b >= h
  BY DEF WrapSigned, OutOfRange, SignedRange
<1>3. res = 0 <=> a = b
  BY DEF WrapSigned, SignedRange
<1>4. (n <=> v) <=> a >= b
  BY <1>1, <1>2 DEF OutOfRange, SignedRange
<1>5. n \in BOOLEAN /\ v \in BOOLEAN
  BY DEF SubOverflow
<1>6. (n = v) <=> a >= b
  BY <1>4, <1>5
<1>7. (~(res = 0) /\ n = v) <=> a > b
  BY <1>3, <1>6 DEF SignedRange
<1>. QED
  BY <1>6, <1>7 DEF IsGe, IsGt
-----------------------------------------------------------------------------
(* Types. *)

LEMMA WidthIn ==
  ASSUME NEW sf
  PROVE  /\ Width(sf) \in Nat \ {0} /\ 2^Width(sf) \in Nat \ {0}
         /\ Mode32 \in Nat \ {0} /\ 2^Mode32 \in Nat \ {0}
         /\ Mode64 \in Nat \ {0} /\ 2^Mode64 \in Nat \ {0}
         /\ 2^Mode64 = 2^Mode32 * 2^Mode32
         /\ 2^Width(sf) <= 2^Mode64 /\ 2^Mode32 <= 2^Width(sf)
<1>1. Mode32 \in Nat \ {0} /\ Mode64 = Mode32 + Mode32 /\ Mode64 \in Nat \ {0} /\ Mode32 <= Mode64
  BY WidthsAssumption DEF Mode64
<1>2. Width(sf) \in {Mode32, Mode64}
  BY DEF Width
<1>3. Width(sf) \in Nat \ {0} /\ Width(sf) <= Mode64 /\ Mode32 <= Width(sf)
  BY <1>1, <1>2
<1>4. 2^Mode64 = 2^Mode32 * 2^Mode32
  BY <1>1, PowerSum
<1>. QED
  BY <1>1, <1>3, <1>4, PowerPositive, PowerOrder

LEMMA ValuesIn ==
  ASSUME NEW x \in Values
  PROVE  x \in Nat /\ x < 2^Mode64
  BY WidthIn DEF Values

LEMMA MaskIn ==
  ASSUME NEW sf, NEW x \in Int
  PROVE  Mask(sf, x) \in 0 .. 2^Width(sf) - 1 /\ Mask(sf, x) \in Values /\ Mask(sf, x) \in Nat
<1>1. x % 2^Width(sf) \in 0 .. 2^Width(sf) - 1
  BY WidthIn
<1>. QED
  BY <1>1, WidthIn DEF Mask, Values

LEMMA DoublewordIn ==
  ASSUME NEW x \in Int
  PROVE  Doubleword(x) \in Values
  BY WidthIn DEF Doubleword, Values

LEMMA BitsOf ==
  ASSUME NEW x \in Int, NEW n \in Nat, NEW k \in 0 .. n - 1
  PROVE  Bits(x, n)[k] \in {0, 1} /\ Bits(x, n)[k] = (x \div 2^k) % 2
  BY BitIn DEF Bits

\* The bit by bit operations give doublewords.
LEMMA AndIn ==
  ASSUME NEW x \in Int, NEW y \in Int
  PROVE  And(x, y) \in Values
<1>. DEFINE bits == [k \in 0 .. Mode64 - 1 |-> Bits(x, Mode64)[k] * Bits(y, Mode64)[k]]
<1>1. And(x, y) = Unsigned(bits, Mode64)
  BY DEF And, BitWise
<1>2. \A k \in 0 .. Mode64 - 1 : bits[k] \in {0, 1}
  <2>1. SUFFICES ASSUME NEW k \in 0 .. Mode64 - 1
                 PROVE  Bits(x, Mode64)[k] * Bits(y, Mode64)[k] \in {0, 1}
    OBVIOUS
  <2>2. Bits(x, Mode64)[k] \in {0, 1} /\ Bits(y, Mode64)[k] \in {0, 1}
    BY WidthIn, BitsOf
  <2>. QED
    BY <2>2
<1>. HIDE DEF bits
<1>. QED
  BY <1>1, <1>2, WidthIn, UnsignedIn DEF Values

LEMMA OrIn ==
  ASSUME NEW x \in Int, NEW y \in Int
  PROVE  Or(x, y) \in Values
<1>. DEFINE Op(p, q) == p + q - p * q
            bits == [k \in 0 .. Mode64 - 1 |-> Op(Bits(x, Mode64)[k], Bits(y, Mode64)[k])]
<1>1. Or(x, y) = Unsigned(bits, Mode64)
  BY DEF Or, BitWise
<1>2. \A k \in 0 .. Mode64 - 1 : bits[k] \in {0, 1}
  <2>1. SUFFICES ASSUME NEW k \in 0 .. Mode64 - 1
                 PROVE  Op(Bits(x, Mode64)[k], Bits(y, Mode64)[k]) \in {0, 1}
    OBVIOUS
  <2>2. Bits(x, Mode64)[k] \in {0, 1} /\ Bits(y, Mode64)[k] \in {0, 1}
    BY WidthIn, BitsOf
  <2>3. \A p, q \in {0, 1} : Op(p, q) \in {0, 1}
    OBVIOUS
  <2>. QED
    BY <2>2, <2>3
<1>. HIDE DEF bits
<1>. QED
  BY <1>1, <1>2, WidthIn, UnsignedIn DEF Values

LEMMA XorIn ==
  ASSUME NEW x \in Int, NEW y \in Int
  PROVE  Xor(x, y) \in Values
<1>. DEFINE Op(p, q) == (p + q) % 2
            bits == [k \in 0 .. Mode64 - 1 |-> Op(Bits(x, Mode64)[k], Bits(y, Mode64)[k])]
<1>1. Xor(x, y) = Unsigned(bits, Mode64)
  BY DEF Xor, BitWise
<1>2. \A k \in 0 .. Mode64 - 1 : bits[k] \in {0, 1}
  <2>1. SUFFICES ASSUME NEW k \in 0 .. Mode64 - 1
                 PROVE  Op(Bits(x, Mode64)[k], Bits(y, Mode64)[k]) \in {0, 1}
    OBVIOUS
  <2>2. Bits(x, Mode64)[k] \in {0, 1} /\ Bits(y, Mode64)[k] \in {0, 1}
    BY WidthIn, BitsOf
  <2>3. \A p, q \in {0, 1} : Op(p, q) \in {0, 1}
    OBVIOUS
  <2>. QED
    BY <2>2, <2>3
<1>. HIDE DEF bits
<1>. QED
  BY <1>1, <1>2, WidthIn, UnsignedIn DEF Values

\* A word and anything have in common what fits a word.
LEMMA AndBelow ==
  ASSUME NEW sf, NEW x \in 0 .. 2^Width(sf) - 1, NEW y \in Int
  PROVE  And(x, y) \in 0 .. 2^Width(sf) - 1
<1>. DEFINE bits == [k \in 0 .. Mode64 - 1 |-> Bits(x, Mode64)[k] * Bits(y, Mode64)[k]]
            w == Width(sf)
<1>1. And(x, y) = Unsigned(bits, Mode64)
  BY DEF And, BitWise
<1>2. w \in 0 .. Mode64 /\ w \in Nat /\ x \in Int /\ Mode64 \in Nat
  BY WidthIn, WidthsAssumption DEF Width, Mode64
<1>3. \A k \in 0 .. Mode64 - 1 : bits[k] \in {0, 1}
  <2>1. SUFFICES ASSUME NEW k \in 0 .. Mode64 - 1
                 PROVE  Bits(x, Mode64)[k] * Bits(y, Mode64)[k] \in {0, 1}
    OBVIOUS
  <2>2. Bits(x, Mode64)[k] \in {0, 1} /\ Bits(y, Mode64)[k] \in {0, 1}
    BY <1>2, BitsOf
  <2>. QED
    BY <2>2
<1>4. \A k \in w .. Mode64 - 1 : bits[k] = 0
  <2>1. SUFFICES ASSUME NEW k \in w .. Mode64 - 1
                 PROVE  Bits(x, Mode64)[k] * Bits(y, Mode64)[k] = 0
    BY <1>2
  <2>2. k \in 0 .. Mode64 - 1 /\ k \in Nat /\ w <= k
    BY <1>2
  <2>3. Bits(x, Mode64)[k] = 0
    <3>1. x \in 0 .. 2^w - 1
      OBVIOUS
    <3>. HIDE DEF w
    <3>2. (x \div 2^k) % 2 = 0
      BY <1>2, <2>2, <3>1, BitAbove
    <3>. QED
      BY <1>2, <2>2, <3>2, BitsOf
  <2>4. Bits(y, Mode64)[k] \in {0, 1}
    BY <1>2, <2>2, BitsOf
  <2>. QED
    BY <2>3, <2>4
<1>. HIDE DEF bits, w
<1>5. Unsigned(bits, Mode64) \in 0 .. 2^w - 1
  BY <1>2, <1>3, <1>4, UnsignedBelow
<1>. QED
  BY <1>1, <1>5 DEF w

LEMMA NotIn ==
  ASSUME NEW x \in Int
  PROVE  Not(x) \in Int
  BY WidthIn DEF Not

LEMMA SignedIn ==
  ASSUME NEW sf, NEW x \in Int
  PROVE  Signed(sf, x) \in Int
<1>1. Mask(sf, x) \in Int
  BY MaskIn
<1>. QED
  BY <1>1, WidthIn DEF Signed, SignExtend

\* Each shift of a value of the width gives one.
LEMMA ShiftIn ==
  ASSUME NEW sf, NEW x \in 0 .. 2^Width(sf) - 1, NEW amount \in Nat, NEW mode \in 0..3
  PROVE  Shift(x, amount, mode, sf) \in 0 .. 2^Width(sf) - 1
<1>. DEFINE by == amount % Width(sf)
            p == 2^by
            q == 2^(Width(sf) - by)
            d == x \div p
<1>1. by \in Nat /\ Width(sf) - by \in Nat
  BY WidthIn
<1>2. p \in Nat \ {0} /\ q \in Nat \ {0} /\ x \in Nat
  BY <1>1, WidthIn, PowerPositive
<1>3. Shift(x, amount, mode, sf) =
        CASE mode = 0 -> Mask(sf, x * p)
          [] mode = 1 -> d
          [] mode = 2 -> Mask(sf, Signed(sf, x) \div p)
          [] mode = 3 -> Mask(sf, d + x * q)
  BY DEF Shift
<1>. HIDE DEF p, q
<1>4. d \in Nat /\ d <= x
  <2>1. d \in Int /\ x % p \in 0 .. p - 1 /\ x = p * d + (x % p)
    BY <1>2, Division
  <2>. HIDE DEF d
  <2>2. d >= 0
    <3>1. d < 0 => p * d <= -p
      BY <1>2, <2>1
    <3>. QED
      BY <1>2, <2>1, <3>1
  <2>3. p * d >= d
    BY <1>2, <2>1, <2>2
  <2>. QED
    BY <1>2, <2>1, <2>2, <2>3
<1>5. /\ x * p \in Int
      /\ Signed(sf, x) \div p \in Int
      /\ d + x * q \in Int
  BY <1>2, <1>4, SignedIn
<1>6. /\ Mask(sf, x * p) \in 0 .. 2^Width(sf) - 1
      /\ Mask(sf, Signed(sf, x) \div p) \in 0 .. 2^Width(sf) - 1
      /\ Mask(sf, d + x * q) \in 0 .. 2^Width(sf) - 1
  BY <1>5, MaskIn
<1>7. d \in 0 .. 2^Width(sf) - 1
  BY <1>4, WidthIn
<1>. HIDE DEF d
<1>. QED
  BY <1>3, <1>6, <1>7

Memories == [0..MemorySize-1 -> 0 .. 2^ByteSize - 1]

LEMMA BytesIn ==
  ASSUME NEW sf
  PROVE  Bytes(sf) \in Nat \ {0} /\ Width(sf) = ByteSize * Bytes(sf)
<1>1. ByteSize \in Nat \ {0} /\ Mode32 \in Nat \ {0} /\ Mode32 % ByteSize = 0
  BY WidthsAssumption
<1>. DEFINE b == Mode32 \div ByteSize
<1>2. b \in Int /\ Mode32 = ByteSize * b
  BY <1>1, Division
<1>. HIDE DEF b
<1>3. b > 0
  BY <1>1, <1>2
<1>4. Mode64 = ByteSize * (2 * b)
  BY <1>1, <1>2 DEF Mode64
<1>5. PICK c \in Nat \ {0} : Width(sf) = ByteSize * c
  <2>1. b \in Nat \ {0} /\ 2 * b \in Nat \ {0}
    BY <1>2, <1>3
  <2>. QED
    BY <1>2, <1>4, <2>1 DEF Width
<1>6. Width(sf) = ByteSize * c + 0 /\ 0 \in 0 .. ByteSize - 1 /\ Width(sf) \in Int
  BY <1>1, <1>5
<1>7. Width(sf) \div ByteSize = c
  BY <1>1, <1>6, DivisionUnique
<1>. QED
  BY <1>5, <1>7 DEF Bytes

\* The byte and the bit in it of each bit of a transfer.
LEMMA ByteOfBit ==
  ASSUME NEW sf, NEW k \in 0 .. Width(sf) - 1
  PROVE  /\ k \div ByteSize \in 0 .. Bytes(sf) - 1 /\ k % ByteSize \in 0 .. ByteSize - 1
         /\ k = ByteSize * (k \div ByteSize) + (k % ByteSize)
<1>. DEFINE q == k \div ByteSize
            r == k % ByteSize
<1>1. ByteSize \in Nat \ {0} /\ k \in Int /\ k >= 0 /\ k < Width(sf)
  BY WidthsAssumption, WidthIn
<1>2. q \in Int /\ r \in 0 .. ByteSize - 1 /\ k = ByteSize * q + r
  BY <1>1, Division
<1>3. Bytes(sf) \in Nat \ {0} /\ Width(sf) = ByteSize * Bytes(sf)
  BY BytesIn
<1>. HIDE DEF q, r
<1>4. q >= 0
  <2>1. q < 0 => ByteSize * q <= -ByteSize
    BY <1>1, <1>2
  <2>. QED
    BY <1>1, <1>2, <2>1
<1>5. q < Bytes(sf)
  <2>1. q >= Bytes(sf) => ByteSize * q >= ByteSize * Bytes(sf)
    BY <1>1, <1>2, <1>3
  <2>. QED
    BY <1>1, <1>2, <1>3, <2>1
<1>. QED
  BY <1>2, <1>3, <1>4, <1>5 DEF q, r

LEMMA LoadIn ==
  ASSUME NEW m \in Memories, NEW addr \in Nat, NEW sf, InMemory(addr, Bytes(sf))
  PROVE  LoadFromMemory(m, addr, sf) \in 0 .. 2^Width(sf) - 1
<1>. DEFINE bits == [k \in 0..Width(sf)-1 |->
                       Bits(m[addr + k \div ByteSize], ByteSize)[k % ByteSize]]
<1>1. LoadFromMemory(m, addr, sf) = Unsigned(bits, Width(sf))
  BY DEF LoadFromMemory
<1>2. \A k \in 0 .. Width(sf) - 1 : bits[k] \in {0, 1}
  <2>1. SUFFICES ASSUME NEW k \in 0 .. Width(sf) - 1
                 PROVE  Bits(m[addr + k \div ByteSize], ByteSize)[k % ByteSize] \in {0, 1}
    OBVIOUS
  <2>2. k \div ByteSize \in 0 .. Bytes(sf) - 1 /\ k % ByteSize \in 0 .. ByteSize - 1
    BY ByteOfBit
  <2>3. addr + (k \div ByteSize) \in 0 .. MemorySize - 1
    BY <2>2, BytesIn, WidthsAssumption DEF InMemory
  <2>4. m[addr + (k \div ByteSize)] \in Int
    BY <2>3, WidthsAssumption, PowerPositive DEF Memories
  <2>. QED
    BY <2>2, <2>4, BitsOf, WidthsAssumption
<1>. HIDE DEF bits
<1>. QED
  BY <1>1, <1>2, WidthIn, UnsignedIn

LEMMA MaskedIn ==
  ASSUME NEW r \in [Registers -> Values], NEW n \in Registers, NEW sf
  PROVE  /\ r[n] \in Values /\ r[n] \in Int
         /\ Mask(sf, r[n]) \in Nat /\ Mask(sf, r[n]) \in 0 .. 2^Width(sf) - 1
         /\ Mask(sf, r[n]) \in Values
<1>1. r[n] \in Values /\ r[n] \in Int
  BY ValuesIn
<1>. QED
  BY <1>1, MaskIn

\* The registers after one of them is written.
LEMMA WrittenIn ==
  ASSUME NEW r \in [Registers -> Values], NEW n \in Registers, NEW v \in Values
  PROVE  [r EXCEPT ![n] = v] \in [Registers -> Values]
  OBVIOUS

LEMMA ZrSpIn == ZrSp \in Registers
  BY WidthsAssumption DEF Registers

LEMMA AddOrSubIn ==
  ASSUME NEW opc, NEW a \in Int, NEW b \in Int
  PROVE  AddOrSub(opc, a, b) \in Values
<1>1. a + b \in Int /\ a - b \in Int
  OBVIOUS
<1>. QED
  BY <1>1, DoublewordIn DEF AddOrSub

\* Zero is not negative in any width.
LEMMA SignedZero ==
  ASSUME NEW sf
  PROVE  Signed(sf, 0) = 0
<1>1. Width(sf) \in Nat \ {0} /\ Width(sf) - 1 \in Nat
  BY WidthIn
<1>2. 2^Width(sf) \in Nat \ {0} /\ 2^(Width(sf) - 1) \in Nat \ {0}
  BY <1>1, PowerPositive
<1>3. Mask(sf, 0) = 0
  BY <1>2 DEF Mask
<1>. QED
  BY <1>2, <1>3 DEF Signed, SignExtend

LEMMA FlagsIn ==
  ASSUME NEW opc, NEW sf, NEW a, NEW b
  PROVE  FlagsArithmetic(opc, sf, a, b) \in States /\ FlagsAnd(sf, a, b) \in States
<1>1. \A x, y, z : AddOverflow(x, y, z) \in BOOLEAN /\ SubOverflow(x, y, z) \in BOOLEAN
  BY DEF AddOverflow, SubOverflow
<1>2. ZeroFlag(opc, sf, a, b) \in BOOLEAN
  BY DEF ZeroFlag
<1>. DEFINE res == AddOrSub(opc, a, b)
            n == Signed(sf, res) < 0
            c == IF opc = 1 THEN Mask(sf, res) < Mask(sf, a) ELSE Mask(sf, a) >= Mask(sf, b)
            v == IF opc = 1 THEN AddOverflow(Signed(sf, a), Signed(sf, b), Signed(sf, res))
                            ELSE SubOverflow(Signed(sf, a), Signed(sf, b), Signed(sf, res))
<1>3. FlagsArithmetic(opc, sf, a, b) \in States
  <2>1. n \in BOOLEAN
    OBVIOUS
  <2>2. c \in BOOLEAN
    <3>1. CASE opc = 1
      BY <3>1
    <3>2. CASE opc # 1
      BY <3>2
    <3>. QED
      BY <3>1, <3>2
  <2>3. v \in BOOLEAN
    BY <1>1
  <2>4. FlagsArithmetic(opc, sf, a, b) =
          [N |-> n, Z |-> ZeroFlag(opc, sf, a, b), C |-> c, V |-> v]
    BY DEF FlagsArithmetic
  <2>5. ~(n /\ ZeroFlag(opc, sf, a, b))
    BY SignedZero DEF ZeroFlag
  <2>. HIDE DEF n, c, v
  <2>. QED
    BY <1>2, <2>1, <2>2, <2>3, <2>4, <2>5 DEF States
<1>4. FlagsAnd(sf, a, b) \in States
  <2>. DEFINE both == And(a, b)
              neg == Signed(sf, both) < 0
              zero == both = 0
  <2>1. ~(neg /\ zero) /\ neg \in BOOLEAN /\ zero \in BOOLEAN
    BY SignedZero
  <2>2. FlagsAnd(sf, a, b) = [N |-> neg, Z |-> zero, C |-> FALSE, V |-> FALSE]
    BY DEF FlagsAnd
  <2>. HIDE DEF neg, zero
  <2>. QED
    BY <2>1, <2>2 DEF States
<1>. QED
  BY <1>3, <1>4

\* What every instruction leaves typed.
LEMMA DecodesIn ==
  ASSUME NEW class, TypeOK, Decodes(class)
  PROVE  /\ instruction' \in Instructions /\ instruction'.class = class
         /\ steps' \in 0..MaxSteps
         /\ R \in [Registers -> Values] /\ SP \in Values /\ PC \in Values
         /\ SP \in Int /\ PC \in Int /\ pstate \in States /\ mem \in Memories
<1>1. instruction' \in Instructions /\ instruction'.class = class
  BY DEF Decodes
<1>2. steps' \in 0..MaxSteps
  BY WidthsAssumption DEF Decodes, TypeOK
<1>3. SP \in Int /\ PC \in Int
  BY ValuesIn DEF TypeOK
<1>. QED
  BY <1>1, <1>2, <1>3 DEF TypeOK, States, Memories

LEMMA UpdatePCIn ==
  ASSUME PC \in Int, UpdatePC
  PROVE  PC' \in Values
<1>1. InstrBytes \in Int
  BY WidthsAssumption DEF InstrBytes
<1>2. PC + InstrBytes \in Int
  BY <1>1
<1>. QED
  BY <1>2, DoublewordIn DEF UpdatePC

\* The operands of an operation on registers.
LEMMA OperandsIn ==
  ASSUME NEW d, R \in [Registers -> Values], IsRegisters(d), d.m = 0
  PROVE  /\ FirstOperand(d) \in 0 .. 2^Width(d.sf) - 1 /\ FirstOperand(d) \in Int
         /\ SecondOperand(d) \in Int
         /\ d.armOrLog = 1 => SecondOperand(d) \in 0 .. 2^Width(d.sf) - 1
<1>1. d.rm \in Registers /\ d.rn \in Registers /\ d.operand \in Nat /\ d.shift \in 0..3
  BY DEF IsRegisters
<1>2. FirstOperand(d) \in 0 .. 2^Width(d.sf) - 1
  BY <1>1, MaskedIn, ZrSpIn DEF FirstOperand
<1>3. Mask(d.sf, R[d.rm]) \in 0 .. 2^Width(d.sf) - 1
  BY <1>1, MaskedIn
<1>. DEFINE op2 == Shift(Mask(d.sf, R[d.rm]), d.operand, d.shift, d.sf)
<1>4. op2 \in 0 .. 2^Width(d.sf) - 1
  BY <1>1, <1>3, ShiftIn
<1>5. SecondOperand(d) = IF d.armOrLog = 0 /\ d.n = 1 THEN Not(op2) ELSE op2
  BY DEF SecondOperand
<1>. HIDE DEF op2
<1>6. op2 \in Int /\ Not(op2) \in Int
  BY <1>4, WidthIn, NotIn
<1>. QED
  BY <1>2, <1>4, <1>5, <1>6, WidthIn

LEMMA ArithmeticTypes ==
  ASSUME TypeOK, ExecuteDPIArithmetic
  PROVE  TypeOK'
<1>. DEFINE d == instruction'.f
            a == Mask(d.sf, IF d.rn = ZrSp THEN SP ELSE R[d.rn])
            b == d.imm12 * 2^(d.sh * ArithmeticShift)
            result == AddOrSub(d.opc, a, b)
<1>1. Decodes("DPI") /\ UpdatePC /\ UNCHANGED <<mem, status>> /\ d.opi = 2
  BY DEF ExecuteDPIArithmetic
<1>2. PICK i \in Instructions : i = instruction' /\ i.class = "DPI"
  BY <1>1, DecodesIn
<1>3. IsArithmetic(d) /\ d.rd \in Registers /\ d.rn \in Registers
  BY <1>1, <1>2, InstructionsAssumption DEF IsArithmetic, IsWideMove
<1>4. /\ steps' \in 0..MaxSteps /\ PC' \in Values
      /\ R \in [Registers -> Values] /\ SP \in Values /\ SP \in Int /\ pstate \in States
  BY <1>1, DecodesIn, UpdatePCIn
<1>5. a \in Int
  <2>1. Mask(d.sf, SP) \in Int /\ Mask(d.sf, R[d.rn]) \in Int
    BY <1>3, <1>4, MaskIn, MaskedIn
  <2>. QED
    BY <2>1
<1>6. b \in Int
  <2>1. d.sh * ArithmeticShift \in Nat
    BY <1>3, WidthsAssumption DEF IsArithmetic
  <2>2. 2^(d.sh * ArithmeticShift) \in Nat
    BY <2>1, PowerPositive
  <2>. QED
    BY <1>3, <2>2 DEF IsArithmetic
<1>7. IF d.rd = ZrSp
      THEN SP' = Mask(d.sf, IF SetsFlags(d.opc) THEN SP ELSE result) /\ UNCHANGED R
      ELSE R' = [R EXCEPT ![d.rd] = Mask(d.sf, result)] /\ UNCHANGED SP
  BY DEF ExecuteDPIArithmetic
<1>8. pstate' = IF SetsFlags(d.opc) THEN FlagsArithmetic(d.opc, d.sf, a, b) ELSE pstate
  BY DEF ExecuteDPIArithmetic
<1>. HIDE DEF a, b, d
<1>9. result \in Int
  BY <1>5, <1>6, AddOrSubIn, ValuesIn
<1>. HIDE DEF result
<1>10. Mask(d.sf, result) \in Values /\ Mask(d.sf, SP) \in Values
  BY <1>4, <1>9, MaskIn
<1>11. R' \in [Registers -> Values] /\ SP' \in Values
  BY <1>3, <1>4, <1>7, <1>10
<1>12. pstate' \in States
  BY <1>4, <1>8, FlagsIn
<1>. QED
  BY <1>1, <1>4, <1>11, <1>12 DEF TypeOK, States

LEMMA WideMoveTypes ==
  ASSUME TypeOK, ExecuteWideMove
  PROVE  TypeOK'
<1>. DEFINE d == instruction'.f
<1>1. Decodes("DPI") /\ UpdatePC /\ UNCHANGED <<pstate, mem, status>> /\ d.opi = 5
  BY DEF ExecuteWideMove
<1>2. PICK i \in Instructions : i = instruction' /\ i.class = "DPI"
  BY <1>1, DecodesIn
<1>3. IsWideMove(d) /\ d.rd \in Registers
  BY <1>1, <1>2, InstructionsAssumption DEF IsArithmetic, IsWideMove
<1>4. /\ steps' \in 0..MaxSteps /\ PC' \in Values
      /\ R \in [Registers -> Values] /\ SP \in Values /\ SP \in Int
  BY <1>1, DecodesIn, UpdatePCIn
<1>5. IF d.rd = ZrSp
      THEN SP' = Mask(d.sf, SP) /\ UNCHANGED R
      ELSE R' = [R EXCEPT ![d.rd] = Mask(d.sf, WideMove(d))] /\ UNCHANGED SP
  BY DEF ExecuteWideMove
<1>. HIDE DEF d
<1>6. WideMove(d) \in Int
  <2>. DEFINE unit == 2^(d.hw * WideMoveShift)
              imm == Doubleword(d.imm16 * unit)
              chunk == (R[d.rd] \div unit) % 2^WideMoveShift
  <2>1. WideMoveShift \in Nat
    <3>1. Mode64 \in Nat
      BY WidthIn
    <3>. QED
      BY <3>1 DEF WideMoveShift
  <2>2. d.hw * WideMoveShift \in Nat /\ d.imm16 \in Nat /\ d.opc \in {0, 2, 3}
    BY <1>3, <2>1 DEF IsWideMove
  <2>3. unit \in Nat \ {0} /\ 2^WideMoveShift \in Nat \ {0}
    BY <2>1, <2>2, PowerPositive
  <2>4. WideMove(d) = CASE d.opc = 0 -> Not(imm)
                        [] d.opc = 2 -> imm
                        [] d.opc = 3 -> R[d.rd] - chunk * unit + imm
    BY DEF WideMove
  <2>. HIDE DEF unit
  <2>5. imm \in Int
    <3>1. d.imm16 * unit \in Int
      BY <2>2, <2>3
    <3>. QED
      BY <3>1, DoublewordIn, ValuesIn
  <2>6. R[d.rd] \in Int /\ chunk \in Int
    <3>1. R[d.rd] \in Values
      BY <1>3, <1>4
    <3>2. R[d.rd] \in Int
      BY <3>1, ValuesIn
    <3>. QED
      BY <2>3, <3>2
  <2>. HIDE DEF imm, chunk
  <2>7. Not(imm) \in Int /\ R[d.rd] - chunk * unit + imm \in Int
    BY <2>3, <2>5, <2>6, NotIn
  <2>. QED
    BY <2>2, <2>4, <2>5, <2>7
<1>7. Mask(d.sf, WideMove(d)) \in Values /\ Mask(d.sf, SP) \in Values
  BY <1>4, <1>6, MaskIn
<1>8. R' \in [Registers -> Values] /\ SP' \in Values
  BY <1>3, <1>4, <1>5, <1>7
<1>. QED
  BY <1>1, <1>4, <1>8 DEF TypeOK, States

\* The end of executeDPR.
LEMMA PutRdIn ==
  ASSUME NEW d, NEW result \in Int, NEW skipped,
         R \in [Registers -> Values], d.rd \in Registers, PutRd(d, result, skipped)
  PROVE  R' \in [Registers -> Values]
<1>1. Mask(d.sf, R[d.rd]) \in Values /\ Mask(d.sf, result) \in Values
  BY MaskIn, MaskedIn
<1>2. R' = [R EXCEPT ![d.rd] = IF d.rd = ZrSp /\ skipped THEN Mask(d.sf, R[d.rd])
                                                           ELSE Mask(d.sf, result)]
  BY DEF PutRd
<1>. QED
  BY <1>1, <1>2

LEMMA RegisterTypes ==
  ASSUME TypeOK, ExecuteDPRArithmetic \/ ExecuteLogical \/ ExecuteMultiply
  PROVE  TypeOK'
<1>. DEFINE d == instruction'.f
            a == FirstOperand(d)
            b == SecondOperand(d)
<1>1. Decodes("DPR") /\ UpdatePC /\ UNCHANGED <<SP, mem, status>>
  BY DEF ExecuteDPRArithmetic, ExecuteLogical, ExecuteMultiply
<1>2. PICK i \in Instructions : i = instruction' /\ i.class = "DPR"
  BY <1>1, DecodesIn
<1>3. IsRegisters(d) /\ d.rd \in Registers
  BY <1>1, <1>2, InstructionsAssumption DEF IsRegisters
<1>4. /\ steps' \in 0..MaxSteps /\ PC' \in Values
      /\ R \in [Registers -> Values] /\ pstate \in States
  BY <1>1, DecodesIn, UpdatePCIn
<1>5. R' \in [Registers -> Values] /\ pstate' \in States
  <2>1. CASE ExecuteDPRArithmetic
    <3>1. /\ d.m = 0
          /\ PutRd(d, AddOrSub(d.opc, a, b), SetsFlags(d.opc))
          /\ pstate' = IF SetsFlags(d.opc) THEN FlagsArithmetic(d.opc, d.sf, a, b) ELSE pstate
      BY <2>1 DEF ExecuteDPRArithmetic
    <3>. HIDE DEF d
    <3>2. a \in Int /\ b \in Int
      BY <1>3, <1>4, <3>1, OperandsIn
    <3>3. AddOrSub(d.opc, a, b) \in Int
      BY <3>2, AddOrSubIn, ValuesIn
    <3>. HIDE DEF a, b
    <3>. QED
      BY <1>3, <1>4, <3>1, <3>3, PutRdIn, FlagsIn
  <2>2. CASE ExecuteLogical
    <3>1. /\ d.m = 0
          /\ PutRd(d, Logic(d.opc, a, b), d.opc = 3)
          /\ pstate' = IF d.opc = 3 THEN FlagsAnd(d.sf, a, b) ELSE pstate
      BY <2>2 DEF ExecuteLogical
    <3>. HIDE DEF d
    <3>2. a \in Int /\ b \in Int /\ d.opc \in 0..3
      BY <1>3, <1>4, <3>1, OperandsIn DEF IsRegisters
    <3>3. And(a, b) \in Int /\ Or(a, b) \in Int /\ Xor(a, b) \in Int
      BY <3>2, AndIn, OrIn, XorIn, ValuesIn
    <3>4. Logic(d.opc, a, b) \in Int
      BY <3>2, <3>3 DEF Logic
    <3>. HIDE DEF a, b
    <3>. QED
      BY <1>3, <1>4, <3>1, <3>4, PutRdIn, FlagsIn
  <2>3. CASE ExecuteMultiply
    <3>. DEFINE c == FirstOperand(d) * Mask(d.sf, R[d.rm])
    <3>1. /\ d.m = 1
          /\ PutRd(d, R[d.ra] + (IF d.x = 0 THEN c ELSE -c), TRUE)
          /\ UNCHANGED pstate
      BY <2>3 DEF ExecuteMultiply
    <3>. HIDE DEF d
    <3>2. d.ra \in Registers /\ d.rm \in Registers /\ d.rn \in Registers
      BY <1>3, <3>1 DEF IsRegisters
    <3>3. R[d.ra] \in Int /\ Mask(d.sf, R[d.rm]) \in Int
      <4>1. R[d.ra] \in Values
        BY <1>4, <3>2
      <4>. QED
        BY <1>4, <3>2, <4>1, ValuesIn, MaskedIn
    <3>4. FirstOperand(d) \in Int
      <4>1. Mask(d.sf, R[d.rn]) \in Nat /\ Mask(d.sf, R[ZrSp]) \in Nat
        BY <1>4, <3>2, MaskedIn, ZrSpIn
      <4>. QED
        BY <4>1 DEF FirstOperand
    <3>5. c \in Int
      BY <3>3, <3>4
    <3>. HIDE DEF c
    <3>6. R[d.ra] + (IF d.x = 0 THEN c ELSE -c) \in Int
      BY <3>3, <3>5
    <3>. QED
      BY <1>3, <1>4, <3>1, <3>6, PutRdIn
  <2>. QED
    BY <2>1, <2>2, <2>3
<1>. QED
  BY <1>1, <1>4, <1>5 DEF TypeOK, States

\* The address of a transfer and the registers it leaves.
LEMMA TransferIn ==
  ASSUME NEW d, IsTransfer(d), d.mode = 1, R \in [Registers -> Values], SP \in Values
  PROVE  /\ TargetAddress(d) \in Nat
         /\ WriteBack(d) \in [Registers -> Values]
         /\ WriteBackSP(d) \in Values
<1>1. d.rt \in Registers /\ d.xn \in Registers /\ SP \in Int
  BY ValuesIn DEF IsTransfer
<1>2. Mask(d.sf, R[d.rt]) \in Values
  BY <1>1, MaskedIn
<1>3. Masked(d) \in [Registers -> Values]
  BY <1>1, <1>2 DEF Masked
<1>4. \A n \in Registers : Masked(d)[n] \in Values /\ Masked(d)[n] \in Int
  BY <1>3, ValuesIn
<1>5. Base(d) \in Int
  BY <1>1, <1>4 DEF Base
<1>6. Bytes(d.sf) \in Nat
  BY BytesIn
<1>7. TargetAddress(d) \in Nat
  <2>1. CASE d.u = 1
    <3>1. d.imm12 * Bytes(d.sf) \in Int
      BY <1>6, <2>1 DEF IsTransfer
    <3>2. TargetAddress(d) = Mask(0, Base(d) + d.imm12 * Bytes(d.sf))
      BY <2>1 DEF TargetAddress, IsIndexed
    <3>3. Base(d) + d.imm12 * Bytes(d.sf) \in Int
      BY <1>5, <3>1
    <3>. QED
      BY <3>2, <3>3, MaskIn
  <2>2. CASE d.u = 0 /\ d.offmode = 0
    <3>. DEFINE off == IF d.i = 1 THEN d.simm9 ELSE 0
    <3>1. d.simm9 \in Int
      BY <2>2 DEF IsTransfer
    <3>2. TargetAddress(d) = Mask(0, Base(d) + off)
      BY <2>2 DEF TargetAddress, IsIndexed
    <3>3. Base(d) + off \in Int
      BY <1>5, <3>1
    <3>. QED
      BY <3>2, <3>3, MaskIn
  <2>3. CASE d.u = 0 /\ d.offmode = 1
    <3>. DEFINE off == IF d.xn = ZrSp THEN SP ELSE Masked(d)[d.xm]
    <3>1. d.xm \in Registers
      BY <2>3 DEF IsTransfer
    <3>2. TargetAddress(d) = Mask(0, Base(d) + off)
      BY <2>3 DEF TargetAddress, IsIndexed
    <3>3. off \in Int
      BY <1>1, <1>4, <3>1
    <3>4. Base(d) + off \in Int
      BY <1>5, <3>3
    <3>. QED
      BY <3>2, <3>4, MaskIn
  <2>. QED
    BY <2>1, <2>2, <2>3 DEF IsTransfer
<1>8. IsIndexed(d) => /\ Doubleword(Masked(d)[d.xn] + d.simm9) \in Values
                      /\ Doubleword(SP + d.simm9) \in Values
  <2>1. SUFFICES ASSUME IsIndexed(d)
                 PROVE  /\ Doubleword(Masked(d)[d.xn] + d.simm9) \in Values
                        /\ Doubleword(SP + d.simm9) \in Values
    OBVIOUS
  <2>2. d.simm9 \in Int
    BY <2>1 DEF IsIndexed, IsTransfer
  <2>3. Masked(d)[d.xn] + d.simm9 \in Int /\ SP + d.simm9 \in Int
    BY <1>1, <1>4, <2>2
  <2>. QED
    BY <2>3, DoublewordIn
<1>9. WriteBackSP(d) \in Values
  BY <1>8 DEF WriteBackSP
<1>10. WriteBack(d) \in [Registers -> Values]
  <2>. DEFINE v == IF IsIndexed(d) /\ d.xn # ZrSp
                   THEN Doubleword(Masked(d)[d.xn] + d.simm9) ELSE Masked(d)[d.xn]
  <2>1. v \in Values
    BY <1>1, <1>4, <1>8
  <2>2. WriteBack(d) = [Masked(d) EXCEPT ![d.xn] = v]
    BY DEF WriteBack
  <2>. HIDE DEF v
  <2>. QED
    BY <1>1, <1>3, <2>1, <2>2
<1>. QED
  BY <1>7, <1>9, <1>10

LEMMA StoreIn ==
  ASSUME mem \in Memories, NEW addr \in Int, NEW x \in Int, NEW sf
  PROVE  StoreToMemory(addr, x, sf) \in Memories
<1>1. DOMAIN mem = 0 .. MemorySize - 1
  BY DEF Memories
<1>2. ASSUME NEW at \in 0 .. MemorySize - 1
      PROVE  StoreToMemory(addr, x, sf)[at] \in 0 .. 2^ByteSize - 1
  <2>1. StoreToMemory(addr, x, sf)[at] =
          IF at \in addr .. addr + Bytes(sf) - 1
          THEN (x \div 2^(ByteSize * (at - addr))) % 2^ByteSize
          ELSE mem[at]
    BY <1>1 DEF StoreToMemory
  <2>2. ASSUME at \in addr .. addr + Bytes(sf) - 1
        PROVE  (x \div 2^(ByteSize * (at - addr))) % 2^ByteSize \in 0 .. 2^ByteSize - 1
    <3>1. ByteSize * (at - addr) \in Nat /\ ByteSize \in Nat
      BY <2>2, BytesIn, WidthsAssumption
    <3>. DEFINE p == 2^(ByteSize * (at - addr))
                q == 2^ByteSize
    <3>2. p \in Nat \ {0} /\ q \in Nat \ {0}
      BY <3>1, PowerPositive
    <3>. HIDE DEF p, q
    <3>3. (x \div p) % q \in 0 .. q - 1
      BY <3>2
    <3>. QED
      BY <3>3 DEF p, q
  <2>3. mem[at] \in 0 .. 2^ByteSize - 1
    BY DEF Memories
  <2>. QED
    BY <2>1, <2>2, <2>3
<1>3. StoreToMemory(addr, x, sf) =
        [at \in 0 .. MemorySize - 1 |-> StoreToMemory(addr, x, sf)[at]]
  BY <1>1 DEF StoreToMemory
<1>. QED
  BY <1>2, <1>3 DEF Memories

LEMMA TransferTypes ==
  ASSUME TypeOK, ExecuteTransfer
  PROVE  TypeOK'
<1>. DEFINE d == instruction'.f
            addr == TargetAddress(d)
<1>1. Decodes("SDT") /\ UpdatePC /\ UNCHANGED <<pstate, status>> /\ d.mode = 1
  BY DEF ExecuteTransfer
<1>2. PICK i \in Instructions : i = instruction' /\ i.class = "SDT"
  BY <1>1, DecodesIn
<1>3. IsTransfer(d) /\ d.rt \in Registers
  BY <1>1, <1>2, InstructionsAssumption DEF IsTransfer
<1>4. /\ steps' \in 0..MaxSteps /\ PC' \in Values /\ mem \in Memories
      /\ R \in [Registers -> Values] /\ SP \in Values
  BY <1>1, DecodesIn, UpdatePCIn
<1>5. /\ InMemory(addr, Bytes(d.sf))
      /\ SP' = WriteBackSP(d)
      /\ IF d.l = 1
         THEN /\ R' = [WriteBack(d) EXCEPT ![d.rt] = LoadFromMemory(mem, addr, d.sf)]
              /\ UNCHANGED mem
         ELSE /\ R' = WriteBack(d)
              /\ mem' = StoreToMemory(addr, WriteBack(d)[d.rt], d.sf)
  BY DEF ExecuteTransfer
<1>. HIDE DEF d
<1>6. addr \in Nat /\ WriteBack(d) \in [Registers -> Values] /\ WriteBackSP(d) \in Values
  BY <1>1, <1>3, <1>4, TransferIn
<1>. HIDE DEF addr
<1>7. LoadFromMemory(mem, addr, d.sf) \in Values
  <2>1. LoadFromMemory(mem, addr, d.sf) \in 0 .. 2^Width(d.sf) - 1
    BY <1>4, <1>5, <1>6, LoadIn
  <2>. QED
    BY <2>1, WidthIn DEF Values
<1>8. StoreToMemory(addr, WriteBack(d)[d.rt], d.sf) \in Memories
  <2>1. WriteBack(d)[d.rt] \in Values
    BY <1>3, <1>6
  <2>2. WriteBack(d)[d.rt] \in Int
    BY <2>1, ValuesIn
  <2>. QED
    BY <1>4, <1>6, <2>2, StoreIn
<1>9. R' \in [Registers -> Values] /\ SP' \in Values /\ mem' \in Memories
  BY <1>3, <1>4, <1>5, <1>6, <1>7, <1>8
<1>. QED
  BY <1>1, <1>4, <1>9 DEF TypeOK, Memories

LEMMA LiteralTypes ==
  ASSUME TypeOK, ExecuteLoadLiteral
  PROVE  TypeOK'
<1>. DEFINE d == instruction'.f
            addr == Mask(0, PC + d.simm19 * InstrBytes)
<1>1. Decodes("SDT") /\ UpdatePC /\ UNCHANGED <<SP, pstate, mem, status>> /\ d.mode = 0
  BY DEF ExecuteLoadLiteral
<1>2. PICK i \in Instructions : i = instruction' /\ i.class = "SDT"
  BY <1>1, DecodesIn
<1>3. d.rt \in Registers /\ d.simm19 \in Int
  BY <1>1, <1>2, InstructionsAssumption DEF IsTransfer
<1>4. /\ steps' \in 0..MaxSteps /\ PC' \in Values /\ PC \in Int /\ mem \in Memories
      /\ R \in [Registers -> Values] /\ SP \in Values
  BY <1>1, DecodesIn, UpdatePCIn
<1>5. /\ InMemory(addr, Bytes(d.sf))
      /\ R' = [R EXCEPT ![d.rt] = LoadFromMemory(mem, addr, d.sf)]
  BY DEF ExecuteLoadLiteral
<1>. HIDE DEF d
<1>6. addr \in Nat
  <2>1. InstrBytes \in Int
    BY WidthsAssumption DEF InstrBytes
  <2>2. PC + d.simm19 * InstrBytes \in Int
    BY <1>3, <1>4, <2>1
  <2>. QED
    BY <2>2, MaskIn
<1>. HIDE DEF addr
<1>7. LoadFromMemory(mem, addr, d.sf) \in Values
  <2>1. LoadFromMemory(mem, addr, d.sf) \in 0 .. 2^Width(d.sf) - 1
    BY <1>4, <1>5, <1>6, LoadIn
  <2>. QED
    BY <2>1, WidthIn DEF Values
<1>8. R' \in [Registers -> Values]
  BY <1>3, <1>4, <1>5, <1>7
<1>. QED
  BY <1>1, <1>4, <1>8 DEF TypeOK, Memories

LEMMA BranchTypes ==
  ASSUME TypeOK, ExecuteBranch
  PROVE  TypeOK'
<1>. DEFINE d == instruction'.f
<1>1. Decodes("B") /\ UNCHANGED <<R, SP, pstate, mem, status>>
  BY DEF ExecuteBranch
<1>2. PICK i \in Instructions : i = instruction' /\ i.class = "B"
  BY <1>1, DecodesIn
<1>3. IsBranch(d)
  BY <1>1, <1>2, InstructionsAssumption
<1>4. steps' \in 0..MaxSteps /\ PC \in Int /\ R \in [Registers -> Values]
  BY <1>1, DecodesIn
<1>5. PC' = CASE d.type = 0 -> Doubleword(PC + d.simm26 * InstrBytes)
              [] d.type = 1 -> Doubleword(PC + InstrBytes
                                 * (IF ToBranch(d) THEN d.simm19 ELSE 1))
              [] d.type = 3 -> R[d.xn]
  BY DEF ExecuteBranch
<1>. HIDE DEF d
<1>6. InstrBytes \in Int
  BY WidthsAssumption DEF InstrBytes
<1>7. PC' \in Values
  <2>1. CASE d.type = 0
    <3>1. PC + d.simm26 * InstrBytes \in Int
      BY <1>3, <1>4, <1>6, <2>1 DEF IsBranch
    <3>. QED
      BY <1>5, <2>1, <3>1, DoublewordIn
  <2>2. CASE d.type = 1
    <3>. DEFINE off == IF ToBranch(d) THEN d.simm19 ELSE 1
    <3>1. off \in Int
      BY <1>3, <2>2 DEF IsBranch
    <3>2. PC' = Doubleword(PC + InstrBytes * off)
      BY <1>5, <2>2
    <3>. HIDE DEF off
    <3>3. PC + InstrBytes * off \in Int
      BY <1>4, <1>6, <3>1
    <3>. QED
      BY <3>2, <3>3, DoublewordIn
  <2>3. CASE d.type = 3
    BY <1>3, <1>4, <1>5, <2>3 DEF IsBranch
  <2>. QED
    BY <1>3, <2>1, <2>2, <2>3 DEF IsBranch
<1>. QED
  BY <1>1, <1>4, <1>7 DEF TypeOK

\* executeDPI, executeDPR, executeSDT, executeB: registers, SP and PC hold
\* doublewords, the bytes of the memory are bytes, and its size stays.
THEOREM TypeCorrect == Spec => []TypeOK
<1>1. Init => TypeOK
  <2>1. 0 \in Values /\ 0 \in 0..MaxSteps
    BY WidthIn, WidthsAssumption DEF Values
  <2>. QED
    BY <2>1, ImagesAssumption DEF Init, TypeOK, States
<1>2. TypeOK /\ [Next]_vars => TypeOK'
  <2>. SUFFICES ASSUME TypeOK, [Next]_vars PROVE TypeOK'
    OBVIOUS
  <2>1. CASE ExecuteOutOfMemory
    <3>1. steps' \in 0..MaxSteps
      BY <2>1, DecodesIn DEF ExecuteOutOfMemory
    <3>. QED
      BY <2>1, <3>1 DEF ExecuteOutOfMemory, machine, TypeOK
  <2>2. CASE FetchOutOfMemory \/ ExitProgram \/ Halt
    BY <2>2 DEF FetchOutOfMemory, ExitProgram, Halt, machine, TypeOK
  <2>3. CASE UNCHANGED vars
    BY <2>3 DEF vars, TypeOK
  <2>. QED
    BY <2>1, <2>2, <2>3, ArithmeticTypes, WideMoveTypes, RegisterTypes, TransferTypes,
       LiteralTypes, BranchTypes DEF Next
<1>. QED
  BY <1>1, <1>2, PTL DEF Spec
-----------------------------------------------------------------------------
(* Memory. *)

\* Bit k of a stored value is bit k % ByteSize of byte k \div ByteSize.
LEMMA BitOfByte ==
  ASSUME NEW x \in Int, NEW q \in Nat, NEW r \in 0 .. ByteSize - 1
  PROVE  Bits((x \div 2^(ByteSize * q)) % 2^ByteSize, ByteSize)[r]
           = (x \div 2^(ByteSize * q + r)) % 2
<1>. DEFINE p == 2^(ByteSize * q)
            d == x \div p
            e == d % 2^ByteSize
<1>1. ByteSize \in Nat \ {0} /\ ByteSize * q \in Nat /\ r \in Nat
  BY WidthsAssumption
<1>2. p \in Nat \ {0} /\ 2^r \in Nat \ {0} /\ 2^ByteSize \in Nat \ {0}
  BY <1>1, PowerPositive
<1>3. d \in Int /\ e \in Int
  BY <1>2
<1>4. 2^(ByteSize * q + r) = p * 2^r
  BY <1>1, PowerSum
<1>. HIDE DEF p
<1>5. d \div 2^r = x \div (p * 2^r)
  BY <1>2, DivideTwice
<1>. HIDE DEF d
<1>6. (e \div 2^r) % 2 = (d \div 2^r) % 2
  BY <1>1, <1>3, BitOfLow
<1>. HIDE DEF e
<1>7. Bits(e, ByteSize)[r] = (e \div 2^r) % 2
  BY <1>1, <1>3, BitsOf
<1>8. Bits(e, ByteSize)[r] = (x \div 2^(ByteSize * q + r)) % 2
  BY <1>4, <1>5, <1>6, <1>7
<1>. QED
  BY <1>8 DEF e, d, p

LEMMA StoreThenLoad ==
  ASSUME mem \in Memories, NEW addr \in Nat, NEW x \in Int, NEW sf, InMemory(addr, Bytes(sf))
  PROVE  LoadFromMemory(StoreToMemory(addr, x, sf), addr, sf) = Mask(sf, x)
<1>. DEFINE m == StoreToMemory(addr, x, sf)
            bits == [k \in 0..Width(sf)-1 |-> Bits(m[addr + k \div ByteSize], ByteSize)[k % ByteSize]]
<1>1. ASSUME NEW k \in 0 .. Width(sf) - 1
      PROVE  Bits(m[addr + k \div ByteSize], ByteSize)[k % ByteSize] = (x \div 2^k) % 2
  <2>. DEFINE q == k \div ByteSize
              r == k % ByteSize
              at == addr + q
  <2>1. q \in 0 .. Bytes(sf) - 1 /\ r \in 0 .. ByteSize - 1 /\ k = ByteSize * q + r
    BY ByteOfBit
  <2>. HIDE DEF q, r
  <2>2. /\ Bytes(sf) \in Nat /\ q \in Nat
        /\ at \in addr .. addr + Bytes(sf) - 1 /\ at - addr = q /\ at \in 0 .. MemorySize - 1
    BY <2>1, BytesIn, WidthsAssumption DEF InMemory
  <2>3. DOMAIN mem = 0 .. MemorySize - 1
    BY DEF Memories
  <2>. HIDE DEF at
  <2>4. m[at] = (x \div 2^(ByteSize * (at - addr))) % 2^ByteSize
    BY <2>2, <2>3 DEF StoreToMemory
  <2>5. Bits((x \div 2^(ByteSize * q)) % 2^ByteSize, ByteSize)[r] = (x \div 2^(ByteSize * q + r)) % 2
    BY <2>1, <2>2, BitOfByte
  <2>6. Bits(m[at], ByteSize)[r] = (x \div 2^k) % 2
    BY <2>1, <2>2, <2>4, <2>5
  <2>. QED
    BY <2>6 DEF at, q, r
<1>. HIDE DEF m
<1>2. bits = Bits(x, Width(sf))
  BY <1>1 DEF Bits
<1>3. LoadFromMemory(m, addr, sf) = Unsigned(bits, Width(sf))
  BY DEF LoadFromMemory
<1>4. Unsigned(Bits(x, Width(sf)), Width(sf)) = x % 2^Width(sf)
  BY WidthIn, UnsignedBits
<1>. QED
  BY <1>2, <1>3, <1>4 DEF Mask, m

\* storeToMemory, loadFromMemory: what a store leaves is what a load of the same
\* width gives back, for every size of word and byte, and the bytes around it
\* stay.
THEOREM StoresLoad == Spec => StoredIsLoaded
<1>. DEFINE d == instruction'.f
            addr == TargetAddress(d)
            Good == Executed("SDT") /\ d.mode = 1 /\ d.l = 0 =>
                      /\ LoadFromMemory(mem', addr, d.sf) = Mask(d.sf, R'[d.rt])
                      /\ \A at \in DOMAIN mem \ (addr .. addr + Bytes(d.sf) - 1) :
                           mem'[at] = mem[at]
<1>1. TypeOK /\ [Next]_vars => [Good]_vars
  <2>. SUFFICES ASSUME TypeOK, Next, Executed("SDT"), d.mode = 1, d.l = 0
                PROVE  /\ LoadFromMemory(mem', addr, d.sf) = Mask(d.sf, R'[d.rt])
                       /\ \A at \in DOMAIN mem \ (addr .. addr + Bytes(d.sf) - 1) :
                            mem'[at] = mem[at]
    OBVIOUS
  <2>1. ExecuteTransfer
    <3>1. steps \in Nat /\ steps' = steps + 1 /\ status' = "running" /\ instruction'.class = "SDT"
      BY WidthsAssumption DEF TypeOK, Executed
    <3>2. steps' # steps
      BY <3>1
    <3>3. ~FetchOutOfMemory /\ ~ExitProgram /\ ~Halt
      BY <3>2 DEF FetchOutOfMemory, ExitProgram, Halt
    <3>4. ~ExecuteOutOfMemory
      BY <3>1 DEF ExecuteOutOfMemory
    <3>5. ~ExecuteLoadLiteral
      BY DEF ExecuteLoadLiteral
    <3>6. \A class : Decodes(class) => class = "SDT"
      BY <3>1 DEF Decodes
    <3>7. /\ ~ExecuteDPIArithmetic /\ ~ExecuteWideMove /\ ~ExecuteDPRArithmetic
          /\ ~ExecuteLogical /\ ~ExecuteMultiply /\ ~ExecuteBranch
      BY <3>6 DEF ExecuteDPIArithmetic, ExecuteWideMove, ExecuteDPRArithmetic, ExecuteLogical,
                  ExecuteMultiply, ExecuteBranch
    <3>. QED
      BY <3>3, <3>4, <3>5, <3>7 DEF Next
  <2>2. Decodes("SDT")
    BY <2>1 DEF ExecuteTransfer
  <2>3. PICK i \in Instructions : i = instruction' /\ i.class = "SDT"
    BY <2>2, DecodesIn
  <2>4. IsTransfer(d) /\ d.rt \in Registers
    BY <2>3, InstructionsAssumption DEF IsTransfer
  <2>5. mem \in Memories /\ R \in [Registers -> Values] /\ SP \in Values
    BY <2>2, DecodesIn
  <2>6. /\ InMemory(addr, Bytes(d.sf)) /\ R' = WriteBack(d)
        /\ mem' = StoreToMemory(addr, WriteBack(d)[d.rt], d.sf)
    BY <2>1 DEF ExecuteTransfer
  <2>. HIDE DEF d
  <2>7. addr \in Nat /\ WriteBack(d) \in [Registers -> Values]
    BY <2>4, <2>5, TransferIn
  <2>. DEFINE x == WriteBack(d)[d.rt]
  <2>8. x \in Int
    <3>1. x \in Values
      BY <2>4, <2>7
    <3>. QED
      BY <3>1, ValuesIn
  <2>9. R'[d.rt] = x /\ mem' = StoreToMemory(addr, x, d.sf)
    BY <2>6
  <2>. HIDE DEF x, addr
  <2>10. LoadFromMemory(StoreToMemory(addr, x, d.sf), addr, d.sf) = Mask(d.sf, x)
    BY <2>5, <2>6, <2>7, <2>8, StoreThenLoad
  <2>11. LoadFromMemory(mem', addr, d.sf) = Mask(d.sf, R'[d.rt])
    BY <2>9, <2>10
  <2>12. \A at \in DOMAIN mem \ (addr .. addr + Bytes(d.sf) - 1) : mem'[at] = mem[at]
    BY <2>9 DEF StoreToMemory
  <2>. QED
    BY <2>11, <2>12
<1>. QED
  BY <1>1, TypeCorrect, PTL DEF Spec, StoredIsLoaded
-----------------------------------------------------------------------------
(* Flags and the registers and branches that depend on them. *)

\* Cutting a doubleword to a width is cutting the number.
LEMMA MaskOfDoubleword ==
  ASSUME NEW sf, NEW x \in Int
  PROVE  Mask(sf, Doubleword(x)) = Mask(sf, x)
<1>1. PICK q \in Nat \ {0} : 2^Mode64 = 2^Width(sf) * q
  <2>1. Width(sf) \in {Mode32, Mode64}
    BY DEF Width
  <2>2. /\ 2^Mode64 = 2^Mode32 * 2^Mode32 /\ 2^Mode64 = 2^Mode64 * 1
        /\ 2^Mode32 \in Nat \ {0} /\ 1 \in Nat \ {0}
    BY WidthIn
  <2>. QED
    BY <2>1, <2>2
<1>. DEFINE p == 2^Width(sf)
<1>2. p \in Nat \ {0}
  BY WidthIn
<1>. HIDE DEF p
<1>3. (x % (p * q)) % p = x % p
  BY <1>2, DivideTwice
<1>. QED
  BY <1>1, <1>3 DEF Mask, Doubleword, p

LEMMA MaskOfMasked ==
  ASSUME NEW sf, NEW x \in 0 .. 2^Width(sf) - 1
  PROVE  Mask(sf, x) = x
<1>. DEFINE p == 2^Width(sf)
<1>1. p \in Nat \ {0}
  BY WidthIn
<1>2. x \in 0 .. p - 1
  OBVIOUS
<1>. HIDE DEF p
<1>3. x % p = x
  BY <1>1, <1>2
<1>. QED
  BY <1>3 DEF Mask, p

\* Two values of a width have no difference that is cut away.
LEMMA DifferenceIsZero ==
  ASSUME NEW sf, NEW a \in 0 .. 2^Width(sf) - 1, NEW b \in 0 .. 2^Width(sf) - 1
  PROVE  /\ AddOrSub(3, a, b) = 0 <=> a = b
         /\ Mask(sf, AddOrSub(3, a, b)) = 0 <=> a = b
<1>. DEFINE p == 2^Width(sf)
            q == 2^Mode64
<1>1. p \in Nat \ {0} /\ q \in Nat \ {0} /\ p <= q
  BY WidthIn
<1>2. a \in 0 .. p - 1 /\ b \in 0 .. p - 1
  OBVIOUS
<1>3. AddOrSub(3, a, b) = Doubleword(a - b)
  BY DEF AddOrSub
<1>4. a - b \in Int
  BY <1>1, <1>2
<1>5. Mask(sf, AddOrSub(3, a, b)) = (a - b) % p
  BY <1>3, <1>4, MaskOfDoubleword DEF Mask
<1>6. AddOrSub(3, a, b) = (a - b) % q
  BY <1>3 DEF Doubleword
<1>. HIDE DEF p, q
<1>7. ASSUME NEW n \in Nat \ {0}, p <= n
      PROVE  (a - b) % n = 0 <=> a = b
  <2>1. a - b = IF a >= b THEN n * 0 + (a - b) ELSE n * (-1) + (a - b + n)
    BY <1>1, <1>2
  <2>2. CASE a >= b
    <3>1. a - b \in 0 .. n - 1 /\ a - b = n * 0 + (a - b)
      BY <1>1, <1>2, <1>7, <2>2
    <3>2. (a - b) % n = a - b
      BY <1>4, <3>1
    <3>. QED
      BY <1>1, <1>2, <3>2
  <2>3. CASE a < b
    <3>1. a - b + n \in 1 .. n - 1
      BY <1>1, <1>2, <1>7, <2>3
    <3>2. a - b = n * (-1) + (a - b + n) /\ a - b + n \in 0 .. n - 1 /\ -1 \in Int
      BY <1>4, <3>1
    <3>3. (a - b) % n = a - b + n
      BY <1>4, <3>2, DivisionUnique
    <3>. QED
      BY <1>1, <1>2, <2>3, <3>1, <3>3
  <2>. QED
    BY <1>1, <1>2, <2>2, <2>3
<1>8. p <= p
  BY <1>1
<1>. QED
  BY <1>1, <1>5, <1>6, <1>7, <1>8

\* The zero flag of an operation of a width, but for additions of words.
LEMMA ZeroFlagExact ==
  ASSUME NEW sf \in {0, 1}, NEW opc \in {1, 3}, ~(opc = 1 /\ sf = 0),
         NEW a \in 0 .. 2^Width(sf) - 1, NEW b \in 0 .. 2^Width(sf) - 1
  PROVE  FlagsArithmetic(opc, sf, a, b).Z <=> Mask(sf, AddOrSub(opc, a, b)) = 0
<1>1. FlagsArithmetic(opc, sf, a, b).Z = (AddOrSub(opc, a, b) = 0)
  BY DEF FlagsArithmetic, ZeroFlag
<1>2. CASE opc = 3
  BY <1>1, <1>2, DifferenceIsZero
<1>3. CASE opc = 1 /\ sf = 1
  <2>1. a \in Int /\ b \in Int
    BY WidthIn
  <2>2. AddOrSub(opc, a, b) \in 0 .. 2^Width(sf) - 1
    BY <1>3, <2>1, AddOrSubIn DEF Values, Width
  <2>3. Mask(sf, AddOrSub(opc, a, b)) = AddOrSub(opc, a, b)
    BY <2>2, MaskOfMasked
  <2>. QED
    BY <1>1, <2>3
<1>. QED
  BY <1>2, <1>3

\* The operands of an arithmetic operation on an immediate.
LEMMA ImmediateOperands ==
  ASSUME NEW d, IsArithmetic(d), R \in [Registers -> Values], SP \in Values
  PROVE  /\ Mask(d.sf, IF d.rn = ZrSp THEN SP ELSE R[d.rn]) \in 0 .. 2^Width(d.sf) - 1
         /\ d.imm12 * 2^(d.sh * ArithmeticShift) \in 0 .. 2^Width(d.sf) - 1
<1>1. (IF d.rn = ZrSp THEN SP ELSE R[d.rn]) \in Int
  <2>1. R[d.rn] \in Values
    BY DEF IsArithmetic
  <2>. QED
    BY <2>1, ValuesIn
<1>2. d.imm12 * 2^(d.sh * ArithmeticShift) \in Nat
  <2>1. d.sh * ArithmeticShift \in Nat
    BY WidthsAssumption DEF IsArithmetic
  <2>2. 2^(d.sh * ArithmeticShift) \in Nat
    BY <2>1, PowerPositive
  <2>. QED
    BY <2>2 DEF IsArithmetic
<1>3. d.imm12 * 2^(d.sh * ArithmeticShift) < 2^Mode32
  BY DEF IsArithmetic
<1>. QED
  BY <1>1, <1>2, <1>3, MaskIn, WidthIn

\* The step that executed an instruction is the action of its class.
LEMMA ActionOf ==
  ASSUME Next, steps' # steps
  PROVE  /\ instruction' \in Instructions
         /\ \/ instruction'.class = "DPI" /\ (ExecuteDPIArithmetic \/ ExecuteWideMove)
            \/ /\ instruction'.class = "DPR"
               /\ ExecuteDPRArithmetic \/ ExecuteLogical \/ ExecuteMultiply
            \/ /\ instruction'.class = "SDT"
               /\ ExecuteTransfer \/ ExecuteLoadLiteral \/ ExecuteOutOfMemory
            \/ instruction'.class = "B" /\ ExecuteBranch
<1>1. ~FetchOutOfMemory /\ ~ExitProgram /\ ~Halt
  BY DEF FetchOutOfMemory, ExitProgram, Halt
<1>2. \A class : Decodes(class) => instruction' \in Instructions /\ instruction'.class = class
  BY DEF Decodes
<1>3. ExecuteDPIArithmetic \/ ExecuteWideMove => Decodes("DPI")
  BY DEF ExecuteDPIArithmetic, ExecuteWideMove
<1>4. ExecuteDPRArithmetic \/ ExecuteLogical \/ ExecuteMultiply => Decodes("DPR")
  BY DEF ExecuteDPRArithmetic, ExecuteLogical, ExecuteMultiply
<1>5. ExecuteTransfer \/ ExecuteLoadLiteral \/ ExecuteOutOfMemory => Decodes("SDT")
  BY DEF ExecuteTransfer, ExecuteLoadLiteral, ExecuteOutOfMemory
<1>6. ExecuteBranch => Decodes("B")
  BY DEF ExecuteBranch
<1>. QED
  BY <1>1, <1>2, <1>3, <1>4, <1>5, <1>6 DEF Next

\* updateFlagsArithmetic, updateFlagsAnd: after an instruction that sets the
\* flags, Z tells whether its result, as its register has it, is zero, additions
\* of words left out.
THEOREM ZeroFlagRight == Spec => ZeroFlagOfResult
<1>. DEFINE i == instruction'
            d == i.f
            Exact == /\ steps' # steps /\ MaySetFlags(i) /\ d.rd # ZrSp
                     /\ ~(IsAdds(i) /\ d.sf = 0)
                     => (pstate'.Z <=> R'[d.rd] = 0)
<1>1. TypeOK /\ [Next]_vars => [Exact]_vars
  <2>. SUFFICES ASSUME TypeOK, Next, steps' # steps, MaySetFlags(i), d.rd # ZrSp,
                       ~(IsAdds(i) /\ d.sf = 0)
                PROVE  pstate'.Z <=> R'[d.rd] = 0
    OBVIOUS
  <2>1. PICK j \in Instructions : j = i
    BY ActionOf
  <2>2. R \in [Registers -> Values] /\ SP \in Values
    BY DEF TypeOK
  <2>3. \/ i.class = "DPI" /\ ExecuteDPIArithmetic
        \/ i.class = "DPR" /\ (ExecuteDPRArithmetic \/ ExecuteLogical)
    <3>1. i.class \in {"DPI", "DPR"}
      BY DEF MaySetFlags
    <3>2. ExecuteWideMove => d.opi = 5
      BY DEF ExecuteWideMove
    <3>3. ExecuteMultiply => d.m = 1
      BY DEF ExecuteMultiply
    <3>4. i.class = "DPI" => d.opi = 2
      BY DEF MaySetFlags
    <3>5. i.class = "DPR" => d.m = 0
      BY DEF MaySetFlags
    <3>. HIDE DEF i, d
    <3>. QED
      BY <3>1, <3>2, <3>3, <3>4, <3>5, ActionOf DEF i
  <2>4. d.opc = 1 => d.sf # 0
    BY DEF IsAdds
  <2>5. CASE i.class = "DPI" /\ ExecuteDPIArithmetic
    <3>. DEFINE a == Mask(d.sf, IF d.rn = ZrSp THEN SP ELSE R[d.rn])
                b == d.imm12 * 2^(d.sh * ArithmeticShift)
    <3>1. IsArithmetic(d) /\ d.sf \in {0, 1} /\ d.rd \in Registers
      BY <2>1, <2>5, InstructionsAssumption DEF ExecuteDPIArithmetic, IsArithmetic, IsWideMove
    <3>2. SetsFlags(d.opc) /\ d.opc \in {1, 3}
      BY <2>5 DEF MaySetFlags, SetsFlags
    <3>3. pstate' = FlagsArithmetic(d.opc, d.sf, a, b)
      BY <2>5, <3>2 DEF ExecuteDPIArithmetic
    <3>4. R' = [R EXCEPT ![d.rd] = Mask(d.sf, AddOrSub(d.opc, a, b))]
      BY <2>5 DEF ExecuteDPIArithmetic
    <3>. HIDE DEF d
    <3>5. a \in 0 .. 2^Width(d.sf) - 1 /\ b \in 0 .. 2^Width(d.sf) - 1
      BY <2>2, <3>1, ImmediateOperands
    <3>. HIDE DEF a, b
    <3>6. FlagsArithmetic(d.opc, d.sf, a, b).Z <=> Mask(d.sf, AddOrSub(d.opc, a, b)) = 0
      BY <2>4, <3>1, <3>2, <3>5, ZeroFlagExact
    <3>7. R'[d.rd] = Mask(d.sf, AddOrSub(d.opc, a, b))
      BY <2>2, <3>1, <3>4
    <3>. QED
      BY <3>3, <3>6, <3>7
  <2>. DEFINE a == FirstOperand(d)
              b == SecondOperand(d)
  <2>6. ASSUME i.class = "DPR"
        PROVE  IsRegisters(d) /\ d.sf \in {0, 1} /\ d.rd \in Registers
    BY <2>1, <2>6, InstructionsAssumption DEF IsRegisters
  <2>7. CASE i.class = "DPR" /\ ExecuteDPRArithmetic
    <3>1. d.armOrLog = 1 /\ d.m = 0 /\ PutRd(d, AddOrSub(d.opc, a, b), SetsFlags(d.opc))
      BY <2>7 DEF ExecuteDPRArithmetic
    <3>2. SetsFlags(d.opc) /\ d.opc \in {1, 3}
      BY <2>7, <3>1 DEF MaySetFlags, SetsFlags
    <3>3. pstate' = FlagsArithmetic(d.opc, d.sf, a, b)
      BY <2>7, <3>2 DEF ExecuteDPRArithmetic
    <3>4. IsRegisters(d) /\ d.sf \in {0, 1} /\ d.rd \in Registers
      BY <2>6, <2>7
    <3>. HIDE DEF d
    <3>5. a \in 0 .. 2^Width(d.sf) - 1 /\ b \in 0 .. 2^Width(d.sf) - 1
      BY <2>2, <3>1, <3>4, OperandsIn
    <3>. HIDE DEF a, b
    <3>6. FlagsArithmetic(d.opc, d.sf, a, b).Z <=> Mask(d.sf, AddOrSub(d.opc, a, b)) = 0
      BY <2>4, <3>2, <3>4, <3>5, ZeroFlagExact
    <3>7. R'[d.rd] = Mask(d.sf, AddOrSub(d.opc, a, b))
      BY <2>2, <3>1, <3>4 DEF PutRd
    <3>. QED
      BY <3>3, <3>6, <3>7
  <2>8. CASE i.class = "DPR" /\ ExecuteLogical
    <3>1. d.armOrLog = 0 /\ d.m = 0 /\ PutRd(d, Logic(d.opc, a, b), d.opc = 3)
      BY <2>8 DEF ExecuteLogical
    <3>2. d.opc = 3
      BY <2>8, <3>1 DEF MaySetFlags
    <3>3. pstate' = FlagsAnd(d.sf, a, b)
      BY <2>8, <3>2 DEF ExecuteLogical
    <3>4. IsRegisters(d) /\ d.sf \in {0, 1} /\ d.rd \in Registers
      BY <2>6, <2>8
    <3>. HIDE DEF d
    <3>5. a \in 0 .. 2^Width(d.sf) - 1 /\ b \in Int
      BY <2>2, <3>1, <3>4, OperandsIn
    <3>. HIDE DEF a, b
    <3>6. And(a, b) \in 0 .. 2^Width(d.sf) - 1
      BY <3>5, AndBelow
    <3>7. Mask(d.sf, And(a, b)) = And(a, b)
      BY <3>6, MaskOfMasked
    <3>8. Logic(d.opc, a, b) = And(a, b)
      BY <3>2 DEF Logic
    <3>9. R'[d.rd] = And(a, b)
      BY <2>2, <3>1, <3>4, <3>7, <3>8 DEF PutRd
    <3>10. pstate'.Z = (And(a, b) = 0)
      BY <3>3 DEF FlagsAnd
    <3>. QED
      BY <3>9, <3>10
  <2>. QED
    BY <2>3, <2>5, <2>7, <2>8
<1>. QED
  BY <1>1, TypeCorrect, PTL DEF Spec, ZeroFlagOfResult
-----------------------------------------------------------------------------
\* The flags are those of the comparison that the history remembers.
Half(sf) == 2^(Width(sf) - 1)
Difference(c) == WrapSigned(c.a - c.b, Half(c.sf))

Flagged(c, p) ==
  /\ c.a \in SignedRange(Half(c.sf)) /\ c.b \in SignedRange(Half(c.sf))
  /\ p.N = (Difference(c) < 0)
  /\ p.Z = (Difference(c) = 0)
  /\ p.V = SubOverflow(c.a, c.b, Difference(c))

ComparedInv == compared.set => Flagged(compared, pstate)

LEMMA HalfIn ==
  ASSUME NEW sf
  PROVE  Half(sf) \in Nat \ {0} /\ 2^Width(sf) = 2 * Half(sf)
<1>. DEFINE n == Width(sf) - 1
<1>1. n \in Nat /\ n + 1 = Width(sf)
  BY WidthIn
<1>. HIDE DEF n
<1>2. 2^(n + 1) = 2 * 2^n /\ 2^n \in Nat \ {0}
  BY <1>1, PowerNext, PowerPositive
<1>. QED
  BY <1>1, <1>2 DEF Half, n

\* The signed reading of a difference of two values of a width.
LEMMA SignedDifference ==
  ASSUME NEW h \in Nat \ {0}, NEW a \in 0 .. 2 * h - 1, NEW b \in 0 .. 2 * h - 1
  PROVE  LET S(x) == IF x >= h THEN x - 2 * h ELSE x
         IN  /\ S(a) \in SignedRange(h) /\ S(b) \in SignedRange(h)
             /\ S((a - b) % (2 * h)) = WrapSigned(S(a) - S(b), h)
<1>1. a >= b => (a - b) % (2 * h) = a - b
  OBVIOUS
<1>2. a < b => (a - b) % (2 * h) = a - b + 2 * h
  <2>1. SUFFICES ASSUME a < b PROVE (a - b) % (2 * h) = a - b + 2 * h
    OBVIOUS
  <2>2. /\ a - b = (2 * h) * (-1) + (a - b + 2 * h)
        /\ a - b + 2 * h \in 0 .. (2 * h) - 1 /\ -1 \in Int /\ 2 * h \in Nat \ {0} /\ a - b \in Int
    BY <2>1
  <2>. QED
    BY <2>2, DivisionUnique
<1>. QED
  BY <1>1, <1>2 DEF SignedRange, WrapSigned

LEMMA FlagsOfComparison ==
  ASSUME NEW sf, NEW a \in 0 .. 2^Width(sf) - 1, NEW b \in 0 .. 2^Width(sf) - 1
  PROVE  Flagged([sf |-> sf, a |-> Signed(sf, a), b |-> Signed(sf, b), set |-> TRUE],
                 FlagsArithmetic(3, sf, a, b))
<1>. DEFINE h == Half(sf)
            S(x) == IF x >= h THEN x - 2 * h ELSE x
            res == AddOrSub(3, a, b)
            diff == WrapSigned(S(a) - S(b), h)
<1>1. h \in Nat \ {0} /\ 2^Width(sf) = 2 * h /\ a - b \in Int
  BY HalfIn
<1>2. \A x : Signed(sf, x) = S(Mask(sf, x))
  BY <1>1 DEF Signed, SignExtend, Half
<1>3. Signed(sf, a) = S(a) /\ Signed(sf, b) = S(b)
  BY <1>2, MaskOfMasked
<1>4. Mask(sf, res) = (a - b) % (2 * h)
  <2>1. res = Doubleword(a - b)
    BY DEF AddOrSub
  <2>. HIDE DEF res
  <2>2. Mask(sf, res) = Mask(sf, a - b)
    BY <1>1, <2>1, MaskOfDoubleword
  <2>. QED
    BY <1>1, <2>2 DEF Mask
<1>. HIDE DEF h
<1>5. S(a) \in SignedRange(h) /\ S(b) \in SignedRange(h) /\ S((a - b) % (2 * h)) = diff
  BY <1>1, SignedDifference
<1>6. Signed(sf, res) = diff
  BY <1>2, <1>4, <1>5
<1>7. (res = 0) = (diff = 0)
  <2>1. res = 0 <=> a = b
    BY DifferenceIsZero
  <2>2. a \in 0 .. 2 * h - 1 /\ b \in 0 .. 2 * h - 1
    BY <1>1
  <2>3. diff = 0 <=> a = b
    BY <1>1, <2>2 DEF WrapSigned
  <2>. QED
    BY <2>1, <2>3
<1>. DEFINE f == FlagsArithmetic(3, sf, a, b)
<1>8. /\ f.N = (Signed(sf, res) < 0)
      /\ f.Z = (res = 0)
      /\ f.V = SubOverflow(Signed(sf, a), Signed(sf, b), Signed(sf, res))
  BY DEF FlagsArithmetic, ZeroFlag
<1>. HIDE DEF f, res
<1>. DEFINE c == [sf |-> sf, a |-> Signed(sf, a), b |-> Signed(sf, b), set |-> TRUE]
<1>9. c.sf = sf /\ c.a = S(a) /\ c.b = S(b)
  BY <1>3
<1>. HIDE DEF c, S, diff
<1>10. Difference(c) = WrapSigned(S(a) - S(b), h)
  BY <1>9 DEF Difference, h
<1>11. Difference(c) = diff
  BY <1>10 DEF diff
<1>12. Flagged(c, f)
  BY <1>3, <1>5, <1>6, <1>7, <1>8, <1>9, <1>11 DEF Flagged, h
<1>. QED
  BY <1>12 DEF c, f

LEMMA ComparedStep ==
  ASSUME TypeOK, ComparedInv, [Next]_vars
  PROVE  ComparedInv'
<1>. DEFINE d == instruction'.f
<1>1. CASE ExecuteDPIArithmetic
  <2>. DEFINE a == Mask(d.sf, IF d.rn = ZrSp THEN SP ELSE R[d.rn])
              b == d.imm12 * 2^(d.sh * ArithmeticShift)
  <2>1. PICK i \in Instructions : i = instruction' /\ i.class = "DPI"
    BY <1>1, DecodesIn DEF ExecuteDPIArithmetic
  <2>2. IsArithmetic(d)
    BY <1>1, <2>1, InstructionsAssumption DEF ExecuteDPIArithmetic, IsWideMove
  <2>3. /\ pstate' = IF SetsFlags(d.opc) THEN FlagsArithmetic(d.opc, d.sf, a, b) ELSE pstate
        /\ compared' = Comparison(d.opc, d.sf, a, b)
    BY <1>1 DEF ExecuteDPIArithmetic
  <2>. HIDE DEF d
  <2>4. a \in 0 .. 2^Width(d.sf) - 1 /\ b \in 0 .. 2^Width(d.sf) - 1
    BY <2>2, ImmediateOperands DEF TypeOK
  <2>. HIDE DEF a, b
  <2>5. CASE d.opc = 3
    <3>1. Flagged(compared', pstate')
      BY <2>3, <2>4, <2>5, FlagsOfComparison DEF SetsFlags, Comparison
    <3>. QED
      BY <3>1 DEF ComparedInv
  <2>6. CASE d.opc = 1
    <3>1. ~compared'.set
      BY <2>3, <2>6 DEF Comparison, NotCompared
    <3>. QED
      BY <3>1 DEF ComparedInv
  <2>7. CASE d.opc \notin {1, 3}
    <3>1. compared' = compared /\ pstate' = pstate
      BY <2>3, <2>7 DEF Comparison, SetsFlags
    <3>. QED
      BY <3>1 DEF ComparedInv
  <2>. QED
    BY <2>5, <2>6, <2>7
<1>2. CASE ExecuteDPRArithmetic
  <2>. DEFINE a == FirstOperand(d)
              b == SecondOperand(d)
  <2>1. PICK i \in Instructions : i = instruction' /\ i.class = "DPR"
    BY <1>2, DecodesIn DEF ExecuteDPRArithmetic
  <2>2. IsRegisters(d) /\ d.m = 0 /\ d.armOrLog = 1
    BY <1>2, <2>1, InstructionsAssumption DEF ExecuteDPRArithmetic
  <2>3. /\ pstate' = IF SetsFlags(d.opc) THEN FlagsArithmetic(d.opc, d.sf, a, b) ELSE pstate
        /\ compared' = Comparison(d.opc, d.sf, a, b)
    BY <1>2 DEF ExecuteDPRArithmetic
  <2>. HIDE DEF d
  <2>4. a \in 0 .. 2^Width(d.sf) - 1 /\ b \in 0 .. 2^Width(d.sf) - 1
    BY <2>2, OperandsIn DEF TypeOK
  <2>. HIDE DEF a, b
  <2>5. CASE d.opc = 3
    <3>1. Flagged(compared', pstate')
      BY <2>3, <2>4, <2>5, FlagsOfComparison DEF SetsFlags, Comparison
    <3>. QED
      BY <3>1 DEF ComparedInv
  <2>6. CASE d.opc = 1
    <3>1. ~compared'.set
      BY <2>3, <2>6 DEF Comparison, NotCompared
    <3>. QED
      BY <3>1 DEF ComparedInv
  <2>7. CASE d.opc \notin {1, 3}
    <3>1. compared' = compared /\ pstate' = pstate
      BY <2>3, <2>7 DEF Comparison, SetsFlags
    <3>. QED
      BY <3>1 DEF ComparedInv
  <2>. QED
    BY <2>5, <2>6, <2>7
<1>3. CASE ExecuteLogical
  <2>1. CASE d.opc = 3
    <3>1. ~compared'.set
      BY <1>3, <2>1 DEF ExecuteLogical, NotCompared
    <3>. QED
      BY <3>1 DEF ComparedInv
  <2>2. CASE d.opc # 3
    <3>1. compared' = compared /\ pstate' = pstate
      BY <1>3, <2>2 DEF ExecuteLogical
    <3>. QED
      BY <3>1 DEF ComparedInv
  <2>. QED
    BY <2>1, <2>2
<1>4. CASE UNCHANGED <<compared, pstate>>
  BY <1>4 DEF ComparedInv
<1>. QED
  BY <1>1, <1>2, <1>3, <1>4
     DEF Next, vars, machine, ExecuteWideMove, ExecuteMultiply, ExecuteTransfer,
         ExecuteLoadLiteral, ExecuteOutOfMemory, ExecuteBranch, FetchOutOfMemory,
         ExitProgram, Halt

\* What executeB takes from the flags is the comparison.
LEMMA BranchCompares ==
  ASSUME NEW d, d.tag \in {0, 5, 6, 7}, Flagged(compared, pstate), ~VIsLost(compared)
  PROVE  ToBranch(d) = Compares(d, compared.a, compared.b)
<1>. DEFINE h == Half(compared.sf)
            a == compared.a
            b == compared.b
            res == WrapSigned(a - b, h)
<1>1. /\ h \in Nat /\ h > 0 /\ a \in SignedRange(h) /\ b \in SignedRange(h)
      /\ pstate.N = (res < 0) /\ pstate.Z = (res = 0) /\ pstate.V = SubOverflow(a, b, res)
  BY HalfIn DEF Flagged, Difference
<1>2. ~(a = 0 /\ b = -h)
  BY DEF VIsLost, Half
<1>. HIDE DEF h, a, b
<1>3. /\ IsGe(pstate.N, pstate.V) <=> a >= b
      /\ IsGt(pstate.N, pstate.Z, pstate.V) <=> a > b
  BY <1>1, <1>2, ConditionsExact
<1>4. pstate.Z <=> a = b
  <2>1. res = 0 <=> a = b
    BY <1>1 DEF WrapSigned, SignedRange
  <2>. HIDE DEF res
  <2>. QED
    BY <1>1, <2>1
<1>. DEFINE holds == CASE d.tag = 0 -> pstate.Z
                       [] d.tag = 5 -> IsGe(pstate.N, pstate.V)
                       [] d.tag = 6 -> IsGt(pstate.N, pstate.Z, pstate.V)
                       [] d.tag = 7 -> TRUE
            says == CASE d.tag = 0 -> a = b
                      [] d.tag = 5 -> a >= b
                      [] d.tag = 6 -> a > b
                      [] d.tag = 7 -> TRUE
<1>5. /\ pstate.Z \in BOOLEAN /\ IsGe(pstate.N, pstate.V) \in BOOLEAN
      /\ IsGt(pstate.N, pstate.Z, pstate.V) \in BOOLEAN
  BY <1>1 DEF IsGe, IsGt
<1>6. holds = says
  <2>1. CASE d.tag = 0
    BY <1>4, <1>5, <2>1
  <2>2. CASE d.tag = 5
    BY <1>3, <1>5, <2>2
  <2>3. CASE d.tag = 6
    BY <1>3, <1>5, <2>3
  <2>4. CASE d.tag = 7
    BY <2>4
  <2>. QED
    BY <2>1, <2>2, <2>3, <2>4
<1>7. ToBranch(d) = (holds # (d.neg = 1))
  BY DEF ToBranch
<1>8. Compares(d, a, b) = (says # (d.neg = 1))
  BY DEF Compares
<1>9. Compares(d, a, b) = Compares(d, compared.a, compared.b)
  BY DEF a, b
<1>. HIDE DEF holds, says
<1>. QED
  BY <1>6, <1>7, <1>8, <1>9

\* executeB: a conditional branch that finds the flags of a subtraction goes where
\* the signed comparison of its operands says, at every width and however many
\* instructions lie between, but for the pair whose overflow is lost.
THEOREM BranchesCompare == Spec => BranchFollowsComparison
<1>. DEFINE d == instruction'.f
            Right == /\ Executed("B") /\ d.type = 1
                     /\ compared.set /\ ~VIsLost(compared)
                     => PC' = Doubleword(PC + InstrBytes
                                * (IF Compares(d, compared.a, compared.b) THEN d.simm19 ELSE 1))
<1>1. Init => ComparedInv
  BY DEF Init, ComparedInv, NotCompared
<1>2. TypeOK /\ ComparedInv /\ [Next]_vars => ComparedInv'
  BY ComparedStep
<1>3. TypeOK /\ ComparedInv /\ [Next]_vars => [Right]_vars
  <2>. SUFFICES ASSUME TypeOK, ComparedInv, Next, Executed("B"), d.type = 1,
                       compared.set, ~VIsLost(compared)
                PROVE  PC' = Doubleword(PC + InstrBytes
                                * (IF Compares(d, compared.a, compared.b) THEN d.simm19 ELSE 1))
    OBVIOUS
  <2>1. steps' # steps /\ instruction'.class = "B"
    <3>1. steps \in Nat /\ steps' = steps + 1
      BY WidthsAssumption DEF TypeOK, Executed
    <3>. QED
      BY <3>1 DEF Executed
  <2>2. ExecuteBranch /\ instruction' \in Instructions
    BY <2>1, ActionOf
  <2>3. d.tag \in {0, 5, 6, 7}
    <3>1. PICK i \in Instructions : i = instruction' /\ i.class = "B"
      BY <2>1, <2>2
    <3>2. IsBranch(i.f)
      BY <3>1, InstructionsAssumption
    <3>. QED
      BY <3>1, <3>2 DEF IsBranch
  <2>4. PC' = Doubleword(PC + InstrBytes * (IF ToBranch(d) THEN d.simm19 ELSE 1))
    BY <2>2 DEF ExecuteBranch
  <2>. HIDE DEF d
  <2>5. ToBranch(d) = Compares(d, compared.a, compared.b)
    BY <2>3, BranchCompares DEF ComparedInv
  <2>. QED
    BY <2>4, <2>5
<1>. QED
  BY <1>1, <1>2, <1>3, TypeCorrect, PTL DEF Spec, BranchFollowsComparison
=============================================================================
