------------------------------- MODULE Calls --------------------------------
(***************************************************************************)
(* The compiler of function calls: EXPR_FUNCTION_CALL of eval_expression   *)
(* (extension/eval.c), the stack and the saved registers of utils_ir.c,    *)
(* and the assignments and returns whose expression a call can be          *)
(* (ast_to_ir.c).  The module is one function's body, or main: its names,  *)
(* the code emitted for it, and what that code does.                       *)
(*                                                                         *)
(* The recursion of eval_expression is unrolled on frames, a record for    *)
(* each call that is being compiled.  The code is executed as it is        *)
(* emitted.  A callee is what this module is for its own body: it leaves   *)
(* its result in X0, anything in the first registers, and the others, RP   *)
(* and the stack as they were (ContractKept).  It is taken to come back    *)
(* behind its branch; the address it is given is behind (ReturnsBehind).   *)
(***************************************************************************)
EXTENDS Registers

CONSTANTS
  Vars,            \* names of variables
  Parameters,      \* the names of the parameters, in order
  Ints,            \* integers that MOVZ takes
  Larges,          \* integers that are loaded from a directive
  Results,         \* what callees return
  CalleeSizes,     \* numbers of registers a callee uses
  Entry,           \* the registers at the start of the body
  Garbage,         \* what an uninitialised register number may be
  MAX_ARGS,
  SavedBase,       \* X0 + SavedBase is where X0 is saved: 8
  RP,
  MAX_STACK_SIZE,
  TokenWidth,
  MaxLine          \* bound on the code

X0 == 0
Ret == "ret"       \* the name that a return assigns
Junk == 0 - 1      \* what a callee leaves in its registers

Saved == SavedBase .. NUM_REGISTERS - 1

ASSUME CallsAssumption ==
  /\ Parameters \in Seq(Vars) /\ Ret \notin Vars
  /\ \A i, j \in DOMAIN Parameters : Parameters[i] = Parameters[j] => i = j
  /\ Ints \subseteq 0 .. 2^TokenWidth - 1      \* a token cuts the others: Codegen
  /\ Larges \cup Results \subseteq Int
  /\ CalleeSizes \subseteq 1 .. SavedBase /\ Garbage \subseteq RegisterNumbers
  /\ Entry \in [RegisterNumbers -> Int]
  /\ {MAX_ARGS, SavedBase, RP, 2^TokenWidth} \subseteq Nat \ {0}
  /\ {MAX_STACK_SIZE, MaxLine} \subseteq Nat
  /\ MAX_ARGS <= SavedBase /\ SavedBase + MAX_ARGS <= RP /\ RP < NUM_REGISTERS

VARIABLES
  map,             \* of the allocator
  stack,           \* what is between the stack pointer and where it was
  machine,         \* what the code leaves in the registers
  line, emitted,   \* lines counted, instructions inserted
  frames,          \* the calls being compiled
  target,          \* the name that the outermost of them is assigned to
  done,            \* a return has been compiled
  env,             \* history: what a variable means
  lost,            \* history: the variables whose value a call may have lost
  returns          \* history: RP at the last branch, and the address behind it

vars == <<map, stack, machine, line, emitted, frames, target, done, env, lost, returns>>

Unassigned == 0 - 2

\* The bound on names: a register below SavedBase stays free, so that neither a
\* name nor an intermediate result is among the saved registers.
LowLeft(m) == \E r \in 0 .. SavedBase - 1 : r \notin Mapped(m)

\* function_def_to_ir: the first names are those of the parameters.
Init ==
  /\ \E n \in 0 .. Len(Parameters) :
       /\ map = [i \in 1..n |-> [name |-> Parameters[i], reg |-> i - 1]]
       /\ env = [x \in Vars |-> IF \E i \in 1..n : Parameters[i] = x
                                THEN Entry[(CHOOSE i \in 1..n : Parameters[i] = x) - 1]
                                ELSE Unassigned]
       /\ n < SavedBase
  /\ stack = <<>>
  /\ machine = Entry
  /\ line = 0 /\ emitted = 0
  /\ frames = <<>>
  /\ target = Ret
  /\ done = FALSE
  /\ lost = {}
  /\ returns = <<0, 0>>
-----------------------------------------------------------------------------
(* Code, as a record: the stack and the registers it leaves, its lines and  *)
(* its instructions.                                                        *)

Code == [stack |-> stack, machine |-> machine, line |-> line, emitted |-> emitted]

CodeIs(c) == stack' = c.stack /\ machine' = c.machine /\ line' = c.line /\ emitted' = c.emitted

\* The code with n instructions more, and what they leave.
Emit(c, st, mach, n) ==
  [stack |-> st, machine |-> mach, line |-> c.line + n, emitted |-> c.emitted + n]

\* An instruction that puts a value into a register.
Put(c, reg, v) == Emit(c, c.stack, [c.machine EXCEPT ![reg] = v], 1)

Move(c, dest, src) == Put(c, dest, c.machine[src])

\* push_to_stack, pop_from_stack
Push(c, reg) == Emit(c, Append(c.stack, c.machine[reg]), c.machine, 2)

Pop(c, reg) ==
  Emit(c, Front(c.stack), [c.machine EXCEPT ![reg] = Last(c.stack)], 2)

\* Mutant: only a name's register is in use.
UsedByName(m, st, reg) == reg \in Mapped(m)

\* used_register: a register of the map, or any once something is on the stack.
Used(m, st, reg) == reg \in Mapped(m) \/ st # <<>>

\* Mutant: the register itself is pushed, not the one it is moved to.
SaveSame(m, c, reg) ==
  IF Used(m, c.stack, reg)
  THEN Move(Push(c, reg), reg + SavedBase, reg)
  ELSE c

\* save_register
Save(m, c, reg) ==
  IF Used(m, c.stack, reg)
  THEN Move(Push(c, reg + SavedBase), reg + SavedBase, reg)
  ELSE c

\* restore_register: X0 has the result, so what was in it goes to a free
\* register, which is X0 again if no name has it.
RestoredTo(m, reg) == IF reg = X0 THEN FreeIntermediary(m) ELSE reg

Restore(m, c, reg) ==
  IF reg = X0 \/ Used(m, c.stack, reg)
  THEN Pop(Move(c, RestoredTo(m, reg), reg + SavedBase), reg + SavedBase)
  ELSE c

\* Mutant: the name stays with X0.
MapKept(m, reg) == m

\* Mutant: the name goes to the register X0 was saved in.
MapSaved(m, reg) ==
  IF reg # X0 THEN m
  ELSE [i \in DOMAIN m |-> IF m[i].reg = X0 THEN [m[i] EXCEPT !.reg = X0 + SavedBase]
                           ELSE m[i]]

MapAfterRestore(m, reg) ==
  IF reg # X0 THEN m
  ELSE [i \in DOMAIN m |-> IF m[i].reg = X0 THEN [m[i] EXCEPT !.reg = FreeIntermediary(m)]
                           ELSE m[i]]

\* Mutant: an argument is taken to be there already if it comes from below.
PutArgumentBelow(c, arg, arg_reg, v) ==
  IF arg_reg <= arg THEN [c EXCEPT !.line = @ + 1] ELSE Put(c, arg, v)

\* store_arg: the instruction is dropped if the last arg_reg evaluated is the
\* argument's register, also when this argument was not evaluated to it.
PutArgument(c, arg, arg_reg, v) ==
  IF arg_reg = arg THEN [c EXCEPT !.line = @ + 1] ELSE Put(c, arg, v)
-----------------------------------------------------------------------------
(* Statements.  An expression is [reg, code, value, kept]: value is what it  *)
(* means and kept that the code is sure to compute it.                       *)

Compiling == ~done /\ line < MaxLine
Room(n) == Len(stack) + n <= MAX_STACK_SIZE
Idle == Compiling /\ frames = <<>>

Readable(x) == HasName(map, x) /\ env[x] # Unassigned

\* The register of an assignment, and its map.
TargetReg(m, x) == IF x = Ret THEN X0 ELSE GetRegister(m, x)
TargetMap(m, x) == IF x = Ret THEN m ELSE MapAfterGet(m, x)

\* assignment_to_ir of an evaluated expression, in flow_to_ir with the branch
\* to RP behind it.
Assign(m, x, c, reg, value, kept) ==
  LET dest == TargetReg(m, x)
      moved == IF dest = reg THEN c ELSE Move(c, dest, reg)
  IN  /\ LowLeft(TargetMap(m, x))
      /\ map' = TargetMap(m, x)
      /\ CodeIs(IF x = Ret THEN Emit(moved, moved.stack, moved.machine, 1) ELSE moved)
      /\ done' = (x = Ret)
      /\ env' = IF x = Ret THEN env ELSE [env EXCEPT ![x] = value]
      /\ lost' = IF kept THEN lost \ {x} ELSE lost \cup ({x} \cap Vars)

\* An integer that MOVZ takes is put into the register of the target.
AssignInt(x, v) ==
  /\ Idle
  /\ LET dest == TargetReg(map, x)
     IN  Assign(map, x, Put(Code, dest, v), dest, v, TRUE)
  /\ UNCHANGED <<frames, target, returns>>

AssignLarge(x, v) ==
  /\ Idle
  /\ LET reg == FreeIntermediary(map)
     IN  Assign(map, x, Put(Code, reg, v), reg, v, TRUE)
  /\ UNCHANGED <<frames, target, returns>>

AssignName(x, y) ==
  /\ Idle /\ Readable(y)
  /\ Assign(map, x, Code, RegOf(map, y), env[y], y \notin lost)
  /\ UNCHANGED <<frames, target, returns>>
-----------------------------------------------------------------------------
(* Calls.  A frame is [arg, arg_reg, back, base, means, sound, result, kept]: *)
(* arg is arg_count and back that the arguments are being restored.  The rest *)
(* is history: base is what was on the stack before the call, means what the  *)
(* arguments mean, sound that the code is sure to pass them, result what the  *)
(* callee returned, and kept that it is still in X0.                          *)

Top == frames[Len(frames)]
WithTop(f) == [frames EXCEPT ![Len(frames)] = f]

\* How many of the registers a frame has saved.
SavedBy(k) == frames[k].arg + IF k < Len(frames) THEN 1 ELSE 0

\* A register that no call in progress has saved, and may use.
Untouched(reg) == \A k \in DOMAIN frames : SavedBy(k) <= reg

\* arg_reg is not initialised: it is what the stack of the compiler held.
NewFrame(garbage, base) ==
  [arg |-> 0, arg_reg |-> garbage, back |-> FALSE, base |-> base, means |-> <<>>,
   sound |-> TRUE, result |-> Junk, kept |-> TRUE]

\* The start of a call: RP is pushed and gets the return address, which is
\* 8 * (line + 1) cut to a token.
ReturnAddress(l) == (8 * (l + 1)) % 2^TokenWidth

Begin(c) == LET pushed == Push(c, RP) IN Put(pushed, RP, ReturnAddress(pushed.line))

BeginCall(x, garbage) ==
  /\ Idle /\ Room(1)
  /\ CodeIs(Begin(Code))
  /\ frames' = << NewFrame(garbage, Len(stack)) >>
  /\ target' = x
  /\ UNCHANGED <<map, done, env, lost, returns>>

\* One argument more, of a call that is still at its arguments.
TakesArgument == Compiling /\ frames # <<>> /\ ~Top.back /\ Top.arg < MAX_ARGS

\* The frame after an argument.
Taken(f, arg_reg, value, sound) ==
  [arg |-> f.arg + 1, arg_reg |-> arg_reg, back |-> FALSE, base |-> f.base,
   means |-> Append(f.means, value), sound |-> f.sound /\ sound, result |-> Junk,
   kept |-> TRUE]

ArgumentInt(v) ==
  LET saved == Save(map, Code, Top.arg)
  IN  /\ TakesArgument /\ Room(1)
      /\ CodeIs(PutArgument(saved, Top.arg, Top.arg_reg, v))
      /\ frames' = WithTop(Taken(Top, Top.arg_reg, v, Top.arg_reg # Top.arg))
      /\ UNCHANGED <<map, target, done, env, lost, returns>>

\* An integer that is loaded goes through a free register, which may be that
\* of an argument already there.
ArgumentLarge(v) ==
  LET reg == FreeIntermediary(map)
      loaded == Put(Save(map, Code, Top.arg), reg, v)
  IN  /\ TakesArgument /\ Room(1)
      /\ CodeIs(PutArgument(loaded, Top.arg, reg, v))
      /\ frames' = WithTop(Taken(Top, reg, v, reg >= Top.arg))
      /\ UNCHANGED <<map, target, done, env, lost, returns>>

\* A name is read from its register, which may have an argument in it.
ArgumentName(y) ==
  LET reg == RegOf(map, y)
      saved == Save(map, Code, Top.arg)
  IN  /\ TakesArgument /\ Room(1) /\ Readable(y)
      /\ CodeIs(PutArgument(saved, Top.arg, reg, saved.machine[reg]))
      /\ frames' = WithTop(Taken(Top, reg, env[y], Untouched(reg) /\ y \notin lost))
      /\ UNCHANGED <<map, target, done, env, lost, returns>>

\* A call as an argument: the register of the argument is saved, the frame
\* stays under that of the inner call.  Behind another argument, the name in X0
\* is given the argument's value by the inner call's restore_register.
ArgumentCall(garbage) ==
  /\ TakesArgument /\ Room(2)
  /\ LET saved == Save(map, Code, Top.arg)
     IN  /\ CodeIs(Begin(saved))
         /\ frames' = Append(frames, NewFrame(garbage, Len(saved.stack)))
  /\ lost' = IF \E k \in DOMAIN frames : frames[k].arg > 0
             THEN lost \cup {x \in Vars : Readable(x) /\ RegOf(map, x) = X0}
             ELSE lost
  /\ UNCHANGED <<map, target, done, env, returns>>
-----------------------------------------------------------------------------
\* The branch, and the callee.
Branch(size, result) ==
  /\ Compiling /\ frames # <<>> /\ ~Top.back
  /\ machine' = [r \in RegisterNumbers |->
                   IF r = X0 THEN result ELSE IF r < size THEN Junk ELSE machine[r]]
  /\ line' = line + 1
  /\ emitted' = emitted + 1
  /\ LET called == [Top EXCEPT !.back = TRUE]
     IN  frames' = WithTop([called EXCEPT !.result = result])
  /\ lost' = lost \cup {x \in Vars : /\ Readable(x) /\ RegOf(map, x) < size
                                     /\ Untouched(RegOf(map, x))}
  /\ returns' = <<machine[RP], 4 * (emitted + 1)>>
  /\ UNCHANGED <<map, stack, target, done, env>>

\* restore_register of the last argument not restored yet.
RestoreArgument ==
  LET reg == Top.arg - 1
  IN  /\ Compiling /\ frames # <<>> /\ Top.back /\ Top.arg > 0
      /\ CodeIs(Restore(map, Code, reg))
      /\ map' = MapAfterRestore(map, reg)
      /\ LET restored == [Top EXCEPT !.arg = reg]
         IN  frames' = WithTop([restored EXCEPT !.kept = reg # X0 \/ X0 \in Mapped(map)])
      /\ UNCHANGED <<target, done, env, lost, returns>>

\* The end of a call: RP is popped, and X0 is the argument of the call around
\* it, or is assigned.
LeaveToArgument ==
  LET outer == frames[Len(frames) - 1]
      popped == Pop(Code, RP)
  IN  /\ Compiling /\ Len(frames) > 1 /\ Top.back /\ Top.arg = 0
      /\ CodeIs(PutArgument(popped, outer.arg, X0, popped.machine[X0]))
      /\ frames' = Append(SubSeq(frames, 1, Len(frames) - 2),
                          Taken(outer, X0, Top.result, Top.kept /\ outer.arg = 0))
      /\ UNCHANGED <<map, target, done, env, lost, returns>>

LeaveToStatement ==
  /\ Compiling /\ Len(frames) = 1 /\ Top.back /\ Top.arg = 0
  /\ Assign(map, target, Pop(Code, RP), X0, Top.result, Top.kept)
  /\ frames' = <<>>
  /\ target' = Ret
  /\ UNCHANGED returns

Targets == Vars \cup {Ret}

Next ==
  \/ \E x \in Targets, v \in Ints : AssignInt(x, v)
  \/ \E x \in Targets, v \in Larges : AssignLarge(x, v)
  \/ \E x \in Targets, y \in Vars : AssignName(x, y)
  \/ \E x \in Targets, garbage \in Garbage : BeginCall(x, garbage)
  \/ \E v \in Ints : ArgumentInt(v)
  \/ \E v \in Larges : ArgumentLarge(v)
  \/ \E y \in Vars : ArgumentName(y)
  \/ \E garbage \in Garbage : ArgumentCall(garbage)
  \/ \E size \in CalleeSizes, result \in Results : Branch(size, result)
  \/ RestoreArgument
  \/ LeaveToArgument
  \/ LeaveToStatement

Spec == Init /\ [][Next]_vars
-----------------------------------------------------------------------------
TypeOK ==
  /\ map \in Seq([name : Vars, reg : 0 .. SavedBase - 1])
  /\ stack \in Seq(Int)
  /\ machine \in [RegisterNumbers -> Int]
  /\ {line, emitted} \subseteq Nat
  /\ frames \in Seq([arg : 0 .. MAX_ARGS, arg_reg : RegisterNumbers, back : BOOLEAN,
                     base : Nat, means : Seq(Int), sound : BOOLEAN, result : Int, kept : BOOLEAN])
  /\ target \in Targets
  /\ done \in BOOLEAN
  /\ env \in [Vars -> Int]
  /\ lost \subseteq Vars

\* The stack has what the calls in progress have pushed, RP and one register
\* for each argument, and nothing between two statements: a call takes off what
\* it put on, with its arguments' calls in between.
PushedBy(k) == 1 + SavedBy(k)

StackBalanced ==
  /\ \A k \in DOMAIN frames :
       frames[k].base = IF k = 1 THEN 0 ELSE frames[k - 1].base + PushedBy(k - 1)
  /\ Len(stack) = IF frames = <<>> THEN 0 ELSE Top.base + PushedBy(Len(frames))

\* "X8-X30 are saved registers ... registers are pushed to the stack and popped
\* in reverse order" (README.md): between two statements they are as the
\* function found them.
ContractKept == frames = <<>> => \A r \in Saved : machine[r] = Entry[r]

\* A call whose arguments are integers that fit, names not below the argument
\* they are for, or a call as the first of them, gets these arguments.
ArgumentsArrive ==
  frames # <<>> /\ ~Top.back /\ Top.sound =>
    \A i \in DOMAIN Top.means : machine[i - 1] = Top.means[i]

\* A variable survives the calls, unless one of them used its register as an
\* intermediate one and had not saved it.
VariablesSurvive ==
  frames = <<>> /\ ~done => \A x \in Vars \ lost : env[x] # Unassigned =>
                     HasName(map, x) /\ machine[RegOf(map, x)] = env[x]
-----------------------------------------------------------------------------
\* What the code does not keep; each is checked by a run of its own.

\* "Returning and setting X0 is done by the return statement" (eval.c): the
\* value of a call is what the function returned.
ResultReturned ==
  frames # <<>> /\ Top.back /\ Top.arg = 0 => machine[X0] = Top.result

\* "Save return address" (eval.c): the callee returns behind the branch.
ReturnsBehind == returns[1] = returns[2]
=============================================================================
