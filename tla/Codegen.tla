------------------------------ MODULE Codegen -------------------------------
(***************************************************************************)
(* The compiler of straight-line RaspiPy code: assignments of expressions  *)
(* (extension/ast_to_ir.c, eval.c), GPIO assignments and WAIT calls        *)
(* (rpy.c), with the directives and labels of utils_ir.c.                  *)
(*                                                                         *)
(* The recursion of eval_expression is unrolled: an action for each case,  *)
(* taken in the order in which the recursion reaches it, the results that  *)
(* are still to be used being on the stack pending.  The code emitted is   *)
(* executed as it is emitted: machine holds the low words of the registers *)
(* at the end of the code so far.  (Every operation here gives the same    *)
(* low word from w and from x registers.)                                  *)
(***************************************************************************)
EXTENDS BitFields, Registers

CONSTANTS
  Vars,         \* names of variables
  Pins,         \* a GPIO name is known by its pin
  Ints,         \* integers in the source
  Ops,          \* of the binary operators of eval_expression
  Times,        \* arguments of WAIT
  Address,      \* what stands for the address of a device register
  WAIT_SECOND,
  WordWidth, TokenWidth, MovzWidth,
  StackPointer, \* what create_state drew
  MaxPending, MaxLine   \* bounds on the depth of expressions and on the code

MOVZ_MAX == 2^MovzWidth

ASSUME CodegenAssumption ==
  /\ Vars \cap Pins = {}
  /\ Pins \subseteq 0..10          \* a shift by 3 * pin stays in an int
  /\ Ints \subseteq Nat /\ Times \subseteq Nat \ {0}
  /\ Ops \subseteq {"+", "-", "*", "|", "^", "&"}
  /\ {TokenWidth, MovzWidth, WordWidth, WAIT_SECOND, Address, StackPointer} \subseteq Nat \ {0}
  /\ TokenWidth <= WordWidth      \* a byte and a register
  /\ {MaxPending, MaxLine} \subseteq Nat

Names == Vars \cup Pins

VARIABLES
  map, registers,           \* of the allocator
  line,                     \* instructions emitted
  directives,               \* [name, value]
  symbol_table,             \* [name, address]
  machine,                  \* what the emitted code leaves in the registers
  pending,                  \* results of eval_expression not used yet
  env,                      \* history: what the last assignment left in a variable
  overtaken,                \* history: get_free_register gave a mapped register
  moved,                    \* history: some variable was assigned by a MOV
  devices,                  \* history: the GPIO statements compiled
  lastStores, lastWait      \* history: of the last GPIO statement and WAIT

allocator == <<map, registers>>
tables == <<directives, symbol_table>>
history == <<env, overtaken, moved, devices, lastStores, lastWait>>
vars == <<map, registers, line, directives, symbol_table, machine, pending, env, overtaken,
          moved, devices, lastStores, lastWait>>

Unassigned == -1
NoName == -1

NoWait == [end |-> 0, apart |-> TRUE, at |-> 0, target |-> 0, wanted |-> 0, loaded |-> 0]

\* ast_to_ir before the first statement of a program without functions: the
\* branch to main, the label, the load of SP.
Init ==
  /\ map = <<>>
  /\ registers = [r \in RegisterNumbers |-> NOT_USED]
  /\ line = 2
  /\ directives = << [name |-> <<"stack_pointer", 0>>, value |-> StackPointer] >>
  /\ symbol_table = << [name |-> <<"main", 0>>, address |-> 1] >>
  /\ machine = [r \in RegisterNumbers |-> 0]
  /\ pending = <<>>
  /\ env = [x \in Vars |-> Unassigned]
  /\ overtaken = FALSE
  /\ moved = FALSE
  /\ devices = 0
  /\ lastStores = <<>>
  /\ lastWait = NoWait
-----------------------------------------------------------------------------
\* The low word of a register.
Word(v) == v % 2^WordWidth

\* create_token keeps the low bits of an immediate.
Token(v) == v % 2^TokenWidth

BitOp(op, x, y) ==
  LET b == Bits(x, WordWidth)
      c == Bits(y, WordWidth)
  IN  Unsigned([k \in 0..WordWidth-1 |->
                  IF op = "&" THEN b[k] * c[k]
                  ELSE IF op = "|" THEN b[k] + c[k] - b[k] * c[k]
                  ELSE (b[k] + c[k]) % 2], WordWidth)

Apply(op, x, y) ==
  IF op = "+" THEN x + y
  ELSE IF op = "-" THEN x - y
  ELSE IF op = "*" THEN x * y
  ELSE BitOp(op, x, y)

\* push_directive and get_directive_address, which is always the last one.
HasDirective(ds, name) == \E i \in DOMAIN ds : ds[i].name = name

\* Mutant: the table is not searched for the name.
PushAlways(ds, name, value) == Append(ds, [name |-> name, value |-> value])

PushDirective(ds, name, value) ==
  IF HasDirective(ds, name) THEN ds ELSE Append(ds, [name |-> name, value |-> value])

\* The place an assembler finds a label at: that of its first definition.
AddressOf(labels, name) ==
  LET first == CHOOSE i \in DOMAIN labels :
                 /\ labels[i].name = name
                 /\ \A j \in 1..i-1 : labels[j].name # name
  IN  labels[first].address
-----------------------------------------------------------------------------
(* eval_expression.  A result is [reg, from, value, sound]: value is what   *)
(* the expression means, from what it came from, and sound that the code    *)
(* can compute it: no integer that a token cuts short and no operation      *)
(* between two intermediate results.                                        *)

Top(k) == pending[Len(pending) - k]
Result(reg, from, value, sound) ==
  [reg |-> reg, from |-> from, value |-> value, sound |-> sound]

Below(k) == SubSeq(pending, 1, Len(pending) - k)

\* EXPR_NAME
EvalName(x) ==
  /\ line < MaxLine
  /\ Len(pending) < MaxPending
  /\ env[x] # Unassigned
  /\ CanGet(map, x)
  /\ map' = MapAfterGet(map, x)
  /\ registers' = RegistersAfterGet(map, registers, x)
  /\ pending' = Append(pending, Result(GetRegister(map, x), "name", env[x], TRUE))
  /\ UNCHANGED <<line, tables, machine, history>>

\* EXPR_INT
EvalInt(v) ==
  LET reg == FreeIntermediary(map)
  IN  /\ line < MaxLine
      /\ Len(pending) < MaxPending
      /\ Unmapped(map) # {}
      /\ registers' = [registers EXCEPT ![reg] = v]
      /\ line' = line + 1
      /\ \/ /\ v < MOVZ_MAX
            /\ machine' = [machine EXCEPT ![reg] = Token(v)]
            /\ pending' = Append(pending, Result(reg, "small", Word(v), v = Token(v)))
            /\ UNCHANGED directives
         \/ /\ v >= MOVZ_MAX
            /\ directives' = PushDirective(directives, <<"dir", Len(directives)>>, v)
            /\ machine' = [machine EXCEPT ![reg] = Word(Last(directives').value)]
            /\ pending' = Append(pending, Result(reg, "large", Word(v), TRUE))
      /\ UNCHANGED <<map, symbol_table, history>>

\* Mutant: the operands are swapped.
EvalBinarySwapped(op) ==
  LET left == Top(1)
      right == Top(0)
      dest == FreeIntermediary(map)
      computed == [registers EXCEPT ![dest] = Apply(op, left.reg, right.reg)]
  IN  /\ line < MaxLine
      /\ Len(pending) >= 2
      /\ Unmapped(map) # {}
      /\ machine' = [machine EXCEPT
                       ![dest] = Word(Apply(op, machine[right.reg], machine[left.reg]))]
      /\ registers' = FreedIntermediary(map, FreedIntermediary(map, computed, left.reg),
                                        right.reg)
      /\ pending' = Append(Below(2),
                      Result(dest, "op", Word(Apply(op, left.value, right.value)),
                             /\ left.sound /\ right.sound
                             /\ left.from = "name" \/ right.from = "name"))
      /\ line' = line + 1
      /\ UNCHANGED <<map, tables, history>>

\* EXPR_BINARY_OP, its two operands evaluated.  registers[] gets the result of
\* the operation on the numbers of the registers.
EvalBinary(op) ==
  LET left == Top(1)
      right == Top(0)
      dest == FreeIntermediary(map)
      computed == [registers EXCEPT ![dest] = Apply(op, left.reg, right.reg)]
  IN  /\ line < MaxLine
      /\ Len(pending) >= 2
      /\ Unmapped(map) # {}
      /\ machine' = [machine EXCEPT
                       ![dest] = Word(Apply(op, machine[left.reg], machine[right.reg]))]
      /\ registers' = FreedIntermediary(map, FreedIntermediary(map, computed, left.reg),
                                        right.reg)
      /\ pending' = Append(Below(2),
                      Result(dest, "op", Word(Apply(op, left.value, right.value)),
                             /\ left.sound /\ right.sound
                             /\ left.from = "name" \/ right.from = "name"))
      /\ line' = line + 1
      /\ UNCHANGED <<map, tables, history>>

\* EXPR_UNARY_OP: - and ~
Negated(op, v) == IF op = "-" THEN -v ELSE -v - 1

EvalUnary(op) ==
  LET src == Top(0)
      dest == FreeIntermediary(map)
      cleared == [registers EXCEPT ![dest] = 0]
  IN  /\ line < MaxLine
      /\ Len(pending) >= 1
      /\ Unmapped(map) # {}
      /\ machine' = [machine EXCEPT ![dest] = Word(Negated(op, machine[src.reg]))]
      /\ registers' = FreedIntermediary(map,
                        [cleared EXCEPT ![dest] = Negated(op, cleared[src.reg])], src.reg)
      /\ pending' = Append(Below(1),
                           Result(dest, "op", Word(Negated(op, src.value)), src.sound))
      /\ line' = line + 1
      /\ UNCHANGED <<map, tables, history>>
-----------------------------------------------------------------------------
\* assignment_to_ir of an integer that MOVZ takes.
AssignInt(x, v) ==
  LET reg == GetRegister(map, x)
  IN  /\ line < MaxLine
      /\ pending = <<>>
      /\ v < MOVZ_MAX
      /\ CanGet(map, x)
      /\ map' = MapAfterGet(map, x)
      /\ registers' = [RegistersAfterGet(map, registers, x) EXCEPT ![reg] = v]
      /\ machine' = [machine EXCEPT ![reg] = Token(v)]
      /\ env' = [env EXCEPT ![x] = machine'[reg]]
      /\ line' = line + 1
      /\ UNCHANGED <<tables, pending, overtaken, moved, devices, lastStores, lastWait>>

\* Mutant: the variable is given the register of the expression.
AssignShares(x) ==
  LET expr == pending[1]
  IN  /\ Len(pending) = 1
      /\ expr.from # "small"
      /\ map' = IF HasName(map, x) THEN map ELSE Append(map, [name |-> x, reg |-> expr.reg])
      /\ env' = [env EXCEPT ![x] = machine[expr.reg]]
      /\ pending' = <<>>
      /\ UNCHANGED <<registers, line, machine, moved, tables, overtaken, devices, lastStores,
                     lastWait>>

\* assignment_to_ir of an expression, evaluated.
AssignExpression(x) ==
  LET expr == pending[1]
      reg == GetRegister(map, x)
      taken == RegistersAfterGet(map, registers, x)
  IN  /\ Len(pending) = 1
      /\ expr.from # "small"
      /\ CanGet(map, x)
      /\ map' = MapAfterGet(map, x)
      /\ \/ /\ reg # expr.reg
            /\ machine' = [machine EXCEPT ![reg] = machine[expr.reg]]
            /\ registers' = [taken EXCEPT ![reg] = taken[expr.reg]]
            /\ line' = line + 1
            /\ moved' = TRUE
         \/ /\ reg = expr.reg
            /\ registers' = taken
            /\ UNCHANGED <<machine, line, moved>>
      /\ env' = [env EXCEPT ![x] = machine'[reg]]
      /\ pending' = <<>>
      /\ UNCHANGED <<tables, overtaken, devices, lastStores, lastWait>>
-----------------------------------------------------------------------------
(* rpy.c.  A context is the part of the state that the device functions     *)
(* change, so that they can be called one after the other.                  *)
Context == [map |-> map, registers |-> registers, machine |-> machine, line |-> line,
            directives |-> directives, overtaken |-> overtaken, stores |-> <<>>]

\* get_free_register finds a register for the address and one for the value,
\* or exits.
TwoUnused(regs) == \E r, s \in Unused(regs) : r # s

\* The body fsel_value, set_value and clear_value share: the address of a
\* device register into one free register, the value into another, a store.
\* The first one is not given back; name is the entry that add_name makes.
StoreTo(c, device, imm, name) ==
  LET ds == PushDirective(c.directives, device, Address)
      loaded == Last(ds)
      address_reg == FreeRegister(c.registers)
      named == IF name = NoName THEN c.map
               ELSE Append(c.map, [name |-> name, reg |-> address_reg])
      addressed == [c.registers EXCEPT ![address_reg] = loaded.value]
      move_reg == FreeRegister(addressed)
  IN  [map |-> MapAfterFree(named, move_reg),
       registers |-> Freed([addressed EXCEPT ![move_reg] = imm], move_reg),
       machine |-> [c.machine EXCEPT ![address_reg] = Word(loaded.value),
                                     ![move_reg] = Token(imm)],
       line |-> c.line + 3,
       directives |-> ds,
       overtaken |-> c.overtaken \/ {address_reg, move_reg} \cap Mapped(c.map) # {},
       stores |-> Append(c.stores, [to |-> loaded.name, wanted |-> device])]

fsel_value(c, pin) == StoreTo(c, <<"gpio_fsel", pin \div 10>>, 2^(3 * pin), pin)
set_value(c, pin) == StoreTo(c, <<"gpio_set", pin \div 32>>, 2^pin, NoName)
clear_value(c, pin) == StoreTo(c, <<"gpio_clear", pin \div 32>>, 2^pin, NoName)

\* check_gpio_assignment of an integer.
Gpio(pin, on) ==
  LET selects == ~HasName(map, pin)
      selected == IF selects THEN fsel_value(Context, pin) ELSE Context
      c == IF on THEN set_value(selected, pin) ELSE clear_value(selected, pin)
  IN  /\ line < MaxLine
      /\ pending = <<>>
      /\ selects => TwoUnused(registers)
      /\ TwoUnused(selected.registers)
      /\ map' = c.map
      /\ registers' = c.registers
      /\ machine' = c.machine
      /\ line' = c.line
      /\ directives' = c.directives
      /\ overtaken' = c.overtaken
      /\ lastStores' = c.stores
      /\ devices' = devices + 1
      /\ UNCHANGED <<symbol_table, pending, env, moved, lastWait>>

\* Mutant: a number for two waits.
WaitNumberCoarse(l) == l \div 8

\* What wait_time and wait are numbered by.
WaitNumber(l) == l \div 4

\* wait: the time into a free register, a loop that counts it down to 0.
Wait(time) ==
  LET delay == time * WAIT_SECOND
      ds == PushDirective(directives, <<"wait_time", WaitNumber(line)>>, delay)
      reg == FreeRegister(registers)
      label == <<"wait", WaitNumber(line + 1)>>
      labels == Append(symbol_table, [name |-> label, address |-> line + 1])
  IN  /\ line < MaxLine
      /\ pending = <<>>
      /\ Unused(registers) # {}
      /\ directives' = ds
      /\ symbol_table' = labels
      /\ map' = MapAfterFree(map, reg)
      /\ registers' = Freed([registers EXCEPT ![reg] = delay], reg)
      /\ machine' = [machine EXCEPT ![reg] = 0]
      /\ line' = line + 3
      /\ overtaken' = (overtaken \/ reg \in Mapped(map))
      /\ lastWait' = [end |-> line + 3, apart |-> lastWait.end # line, at |-> line + 1,
                      target |-> AddressOf(labels, label),
                      wanted |-> delay, loaded |-> Last(ds).value]
      /\ UNCHANGED <<pending, env, moved, devices, lastStores>>

Next ==
  \/ \E x \in Vars : EvalName(x)
  \/ \E v \in Ints : EvalInt(v)
  \/ \E op \in Ops : EvalBinary(op)
  \/ \E op \in {"-", "~"} : EvalUnary(op)
  \/ \E x \in Vars, v \in Ints : AssignInt(x, v)
  \/ \E x \in Vars : AssignExpression(x)
  \/ \E pin \in Pins, on \in BOOLEAN : Gpio(pin, on)
  \/ \E time \in Times : Wait(time)

Spec == Init /\ [][Next]_vars
-----------------------------------------------------------------------------
\* The names that directives are given: a word and a number.
DirectiveNames ==
  {"stack_pointer", "dir", "gpio_fsel", "gpio_set", "gpio_clear", "wait_time"} \X Nat

TypeOK ==
  /\ map \in Seq([name : Names, reg : RegisterNumbers])
  /\ registers \in [RegisterNumbers -> Int]
  /\ line \in Nat
  /\ directives \in Seq([name : DirectiveNames, value : Nat]) /\ directives # <<>>
  /\ \A i, j \in DOMAIN directives : directives[i].name = directives[j].name => i = j
  /\ machine \in [RegisterNumbers -> 0 .. 2^WordWidth - 1]
  /\ pending \in Seq([reg : RegisterNumbers, from : {"name", "small", "large", "op"},
                      value : 0 .. 2^WordWidth - 1, sound : BOOLEAN])
  /\ env \in [Vars -> -1 .. 2^WordWidth - 1]
  /\ {overtaken, moved} \subseteq BOOLEAN
  /\ devices \in Nat

\* Each name has one register and no two names share one (State: "map of all
\* variables with their associate value and register").
OneRegisterEach ==
  ~overtaken => \A i, j \in DOMAIN map :
                  i # j => map[i].name # map[j].name /\ map[i].reg # map[j].reg

\* A variable keeps in its register what it was assigned, whatever expressions
\* are evaluated and devices are driven in between.
VariablesKept ==
  ~overtaken => \A x \in Vars : env[x] # Unassigned =>
                  HasName(map, x) /\ machine[RegOf(map, x)] = env[x]

\* What can be computed is computed: an operand holds its value until an
\* intermediate result that comes after it is evaluated.
SoundOperandsHold ==
  ~overtaken => \A i \in DOMAIN pending :
    /\ pending[i].sound
    /\ pending[i].from = "name" \/ \A j \in i+1..Len(pending) : pending[j].from = "name"
    => machine[pending[i].reg] = pending[i].value

\* A register is taken from a variable only after a MOV, whose source may have
\* been marked NOT_USED: code that assigns expressions only to new variables
\* is safe.
OvertakenOnlyAfterMove == overtaken => moved

\* What is in use and no name's: one address for each GPIO statement, and the
\* result of the last expression.
LeaksOnlyAddresses ==
  ~overtaken => Cardinality(RegisterNumbers \ (Unused(registers) \cup Mapped(map)))
                  <= devices + 1

\* A WAIT with an instruction between it and the one before waits for its own
\* time and loops on its own label.
SeparateWaits ==
  lastWait.apart => lastWait.target = lastWait.at /\ lastWait.loaded = lastWait.wanted
-----------------------------------------------------------------------------
(* What the code does not keep, checked by a run of its own.               *)

\* "Load directive address" (rpy.c): what a store of a GPIO statement takes its
\* address from is the directive made for its device register.
StoreAddressed == \A i \in DOMAIN lastStores : lastStores[i].to = lastStores[i].wanted
=============================================================================
