# A verification of RaspiPy

RaspiPy is an assembler and an emulator for a subset of A64 (`src/src`), and a
compiler from a small Python-like language, with a library for the pins of a
Raspberry Pi, to the assembly language of that assembler (`src/extension`).
This directory holds TLA+ models of the parts that carry state or decisions,
the TLC runs that check them on small instances, and theorems that the TLA+
proof system checks for every value of the constants. `PROJECT.json` maps every
definition to the lines it models, and lists the hazards, the runs and the
theorems.

All programs here are sequential. There are no threads, no messages and no
restarts. What is hard to test in them is of another kind: tables that are
filled while they are being read, words that are completed after the file has
ended, bytes of a union that an earlier line left behind, flags read many
instructions after they were set, registers handed out by two allocators with
two notions of free, a stack whose two ends must agree across nested calls, code
that branches to labels made later, nodes of a tree that two owners free, and
arithmetic at the bounds of a width.

Contents: [the system](#the-system), [the models](#the-models),
[the runs](#the-runs), [what the runs refute](#what-the-runs-refute),
[the proofs](#the-proofs), [what is not modelled](#what-is-not-modelled),
[the plan](#the-plan).

## The system

```
 program.rpy --lexer.l--> tokens --parser.y--> syntax tree
    --ast_to_ir.c, eval.c, rpy.c--> intermediate program (utils_ir.c, ir.c)
    --print.c--> program.s --assemble--> program.bin --emulate--> final state
```

The parts meet in files and in calls; each runs to its end before the next
begins.

| component | state | operations | what is hard | what makes it correct |
|---|---|---|---|---|
| one-pass assembler (`assemble.c`, `disassembler.c`, `onepass.c`) | `PC`, `binaryInstr[256]`, `symtable`, `undeftable` | a line: label, word, reference, empty, rejected; completion of one entry; writing | references before their label; a label defined twice or never; the 257th word | the output is the one that a reading with all labels known would give |
| instruction codec (`disassembler.c`, `decoders.c`, `utils_as.c`, `utils_em.c`) | a union shared by all lines; the word | tokens to fields, fields to word, completion of an offset, word to fields | stale bytes of the union, overlapping fields, sign and scale of offsets | the emulator reads what the line says |
| emulator (`emulate.c`, `execute.c`, `utils_em.c`) | `R`, `ZR`, `SP`, `PC`, flags, memory | one execute function for each class of instructions | 31 as ZR, SP or neither; words in doublewords; write-back before the transfer; flags read much later | an instruction changes what its fields name; a branch follows the comparison |
| indentation (`lexer.l`) | `indent_stack`, `indent_top`, `current_indent` | an end of line; the end of the file | lines that leave several blocks or come back to no level | the parser's blocks are those of the layout |
| register allocator (`utils_ir.c`) | the map of a `State`, the global `registers[]` | the two allocators, the two ways to free | each allocator looks at one of the two | a name has one register, nobody else's |
| expressions and assignments (`eval.c`, `ast_to_ir.c`) | the above, the code, directives | an action for each case of `eval_expression`, assignments | operands held in registers nothing reserves | an expression's register holds its value |
| device library (`rpy.c`) | directives, labels, registers | select a function, set, clear, wait | numbered names, the last directive taken for the found one | a store goes to its device, a wait lasts its time |
| blocks, branches, functions (`ast_to_ir.c`, `utils_ir.c`, `print.c`) | the symbol table of each `State`, the code, the recursion's open blocks | the statements and blocks, functions, `main` | branches completed when a block ends; names numbered for each `State` | control goes where the program says |
| function calls and the stack (`eval.c` 101-152, `utils_ir.c` 132-226) | the stack of the `State`, its map, saved registers, `arg_reg` | begin a call, evaluate and pass an argument, branch, restore, return | what is saved must be what is restored, with calls among the arguments; X0 is argument, result and variable | the stack and the saved registers are as before; arguments arrive; variables and results survive |
| syntax tree (`ast.c`, `parser.y`) | the nodes and their pointers, the parser's values | a constructor for each rule, lists, destructors | who owns an expression that two statements point to | every node is freed once and none is read after |
| optimiser (`optimise_ir.c`) | the tree | propagate, fold, simplify an if | nodes replaced in place and unlinked | as for the tree |
| grammar, printing, tables, files, drivers, the unfinished JIT | | | | see [what is not modelled](#what-is-not-modelled) |

They interact in this way. The codec is called by the assembler for each line
and by the emulator for each fetch; it is the same `decode`, run with `putBits`
or with `getBits`. The compiler's parts share the `State`: expressions,
assignments and the device library all go through the allocator, and blocks add
labels to the same symbol table that `wait` adds to. `print.c` turns the symbol
tables into lines of assembly, where names and not addresses lead to labels, so
the assembler's rule for duplicates decides what a branch means. A call moves
the entries of the caller's map, so it belongs to the allocator as much as to
the expressions. The compiler reads the tree while it frees parts of it, and
`aot.c` frees the whole tree afterwards.

## The models

| module | models | state of the code it carries |
|---|---|---|
| `AssemblyFile` | lines, words, the arithmetic of offsets | |
| `TwoPass` | abstract: what a file means when all labels are known | |
| `Assembler` | the main loop, both tables, completion, output | `PC`, `binaryInstr`, `symtable`, `undeftable`, `i` |
| `BitFields` | `putBits`, `getBits`, `signExtendTo32Bits` | |
| `Codec` | from tokens to fields, to a word, and back | the `Instruction` union (`ins`), the word |
| `Flags` | the overflow flags and the signed conditions | |
| `Emulator` | each execute function, fetch, halt and exits | `R` (ZR is its element 31, as in memory), `SP`, `PC`, `pstate`, `mem` |
| `Layout` | abstract: what indentation means | |
| `Indentation` | the rule for ends of lines and the parser's block | `indent_stack`, `current_indent`, `new_indent` |
| `Registers` | the allocator's functions, as operators | |
| `Codegen` | expressions, assignments, GPIO and WAIT; the emitted code is executed as it is emitted | `map`, `registers`, `line`, `directives`, `symbol_table` |
| `Calls` | calls, the stack, saved registers, assignments and returns of a body | `map`, `stack`, `line`, the recursion as `frames` |
| `ControlFlow` | functions, blocks, branches, labels, and what is printed | the code, `tables`, `funcs`, the recursion as `open` |
| `SyntaxTree` | constructors, destructors, the passes that free, `free_program` | the nodes with their pointers, the parser's stack, what is left to compile |

`MC…` modules give the constants small values, and `…Proofs` hold theorems.
`Assembler` instantiates `TwoPass`, `Indentation` instantiates `Layout`, both
under a refinement mapping; `Codec` and `Codegen` build on `BitFields`,
`Emulator` on `BitFields` and `Flags`, `Codegen` and `Calls` on `Registers`. An
operator that begins with the comment "Mutant" is a plausible wrong version of
the definition after it; it is used by no specification, and each is known to
break a property.

**Assembler.** One line is one step. A line is reduced to what the tables tell
apart: a word whose bits need no table, a reference of one of the three kinds
with an offset field (`ll`, `bc`, `bu`), a label, or one of the lines that do
nothing or end the run. Labels are compared without case, so a member of
`Labels` is a class of spellings. An undefined label is `INT32_MIN` minus `4 PC`
in wrapping C arithmetic, cut to the field. The 257th word is a write past the
array; the model stops there in `overrun` and says no more. A line of spaces is
a NULL passed to `strcpy`, `crash`.

**Codec.** One line goes through disassembly, encoding, completion if it names a
label, and decoding. The union keeps what earlier lines left: `offmode` is the
only byte that is put into a word without having been assigned by the line, and
it is chosen freely. Fields, their order and their positions are the calls of
`decoders.c`; later fields cover earlier ones as `putBits` makes them.
`PlainLines` are the lines of the language: each mnemonic and addressing mode
with any registers, and immediates, shifts and offsets that fit their fields. A
run tries some of them (`Lines`), a line may also be an alias of one.

**Emulator.** Widths are constants (`Mode32` bits for a word). An instruction
is what `decode` leaves; since a program may write over its own code, each fetch
gives any instruction of the set. Register 31 is modelled for each function as
it is: SP in `executeDPI`, the ZR that follows the array in `executeDPR`, the
base in `executeSDT`. Accesses outside the memory end in `wild`.

**Indentation.** One step is one match of the rule for an end of line: at most
one INDENT or DEDENT, as in the code, whatever number of blocks the line leaves.
The parser is reduced to the number of blocks begun and not ended.

**Codegen.** The recursion of `eval_expression` is unrolled on a stack of
results still to be used. `machine` holds what the code emitted so far leaves in
the registers, so a property can say what the code computes, not what it looks
like. A result carries what the expression means, and `sound`: that no token
cut an integer short and no operation was between two intermediate results.
`overtaken` remembers that `get_free_register` handed out a register of the map.

**Calls.** One body, a function's or `main`'s: an action begins a call, passes an
argument, branches, restores the last argument or ends the call, so calls nest
as deep as arguments do. Each frame is the local state of one
`EXPR_FUNCTION_CALL` (`arg_count`, `arg_reg`, on which side of the branch it is)
and history for the properties. `arg_reg` is uninitialised in C and begins with
any value of `Garbage`. The code is executed as it is emitted. The callee is
what the module shows a body to be (`ContractKept`): it leaves a result in X0,
anything in the registers below its size, and the rest, RP and the stack as they
were. It is taken to come back behind the branch, though the address it is given
is another one (`ReturnsBehind`). `LowLeft` bounds the names of a body: a
register below X8 stays free, so that no name lives in a saved register.

**ControlFlow.** The recursion of `statements_to_ir` is unrolled on the stack
`open`; each step also appends what the parser would have read to `source`.
Where control should go is computed from `source` alone, by matching the parts
of blocks, and compared with the lines of the labels, and with what the
assembler finds when the labels are printed and looked up by name.

**SyntaxTree.** A node is what is allocated and freed together: an `Expression`
with its `Name`, a `Statement` with its payload and its cell of the list. A
reduction makes its nodes of the values on top of the parser's stack. The
compiler walks the statements (`todo`), reads their nodes and frees what
`free_assignment_stmt` frees; the optimiser's functions may run instead. Where
the code casts a node to a kind it may not have, or follows a pointer to NULL or
to a freed node, the run ends in `wild`, and where it asserts or exits, in
`exited`. Files that do not parse are left out: `aot.c` exits before any pass.

## The runs

Each passing run explores its instance completely.

| run | instance | distinct states | shows |
|---|---|---|---|
| `assembler` | every file of 4 lines, 2 labels, an immediate, room for 3 words, fields of 3 and 5 bits, integers of 9 | 123,816 | the one-pass result is the two-pass one or the run stops where the file makes it; each reference is final or has one entry; completion is local; every run ends |
| `codec` | every mnemonic, alias and addressing mode with least and greatest fields, both stale bytes, offsets at the bounds of their fields, words of 32 bits | 2,875 | the round trip, stale bytes unseen, a completed word is the word of a known label |
| `emulator` | words of 4 bits, ZR, two registers, 75 instructions, programs of up to 4, two memory images | 2,575,150 | what may change, stored is loaded, zero flag, branch after comparison |
| `indentation` | 8 lines, 5 indentations, a stack of 3 | 711 | no push past the stack and no pop of an empty one, no line taken out of an enclosing block, the layout for lines that leave at most one block |
| `codegen` | 5 registers, 2 variables, a pin, waits, integers below and above `MOVZ_MAX`, 9 instructions, 3 pending results | 3,972,984 | variables keep value and register, sound operands hold, what leaks, separate waits; a directive has one entry (in `TypeOK`) |
| `calls` | 7 registers of which 4 are saved, a parameter, a variable, 2 arguments, a stack of 6, 31 lines | 9,664,766 | the stack is balanced, saved registers kept, arguments arrive, variables survive |
| `control_flow` | 9 parts, 3 nested blocks, 2 functions | 2,162,235 | branches go where the program says, names lead there, labels stay |
| `syntax_tree` | 6 nodes: up to 3 integers and 2 returns, one of each other kind | 1,920,320 | one pointer to each node, the compiler reads nothing it freed and frees nothing twice, and a program that `free_program` gets through has freed each node once |
| `codec_word_offset`, `codegen_device`, `calls_result`, `calls_return` | smaller ones of the same modules |  | one counterexample each, [below](#what-the-runs-refute) |

*Why the bounds are enough.* Four lines hold a forward and a backward reference
to one label, a second definition of it, and a reference with nothing to find;
three words make the array overflow at the fourth. Offsets wrap in three bits as
they do in nineteen, and the integers are wide enough for `Missing` to wrap. Of
`ll` and `bc`, which have equal fields, the run takes one. Four instructions are
two loads, a comparison and a branch, or a store and a load after something in
between; a word of four bits has the least value, its neighbours, a carry and an
overflow. A stack of three is filled and asked for a fourth level, and five
indentations hold two that are no level of the other lines. Five registers are
few enough to be used up by two pins' addresses and two variables; nine
instructions hold a wait, a move, a GPIO statement and what follows. Nine parts
hold an if with else in a loop, a loop after another, and a function before
`main`; names of labels meet between `f`, `LOOP` and `main`. A call of two
arguments takes 20 lines and one whose argument is a call 26, so 31 lines hold
either with assignments around it. Of the seven registers three may have names,
two save the arguments, one is a saved register that only the callee could
disturb, and one is RP; the value of an uninitialised `arg_reg` is the number of
the first argument or of none. Six nodes hold a `for` over two integers with a
return in it, a return in a function behind another statement, and an `if` with
two blocks.

*Deadlock* is not checked: all programs here end (a done, failed or exited run),
and the bounds of the instances end the others.

*Fairness.* Only `Assembler` needs it: `FairSpec` is weak fairness of `Next`.
The loop over the lines and the loop over `undeftable` are run by a single
thread that nothing suspends, so that a step that can be taken is taken.
`Terminates` then follows from the counters, and fails for a loop that does not
advance.

Properties say under which condition they hold, and the condition is one of the
code's own. `OneRegisterEach` and `VariablesKept` hold until a register of the
map is handed out again (`overtaken`); `OvertakenOnlyAfterMove` says when that
cannot happen. `SoundOperandsHold` covers an operand that is a name's, or after
which only names are evaluated. `NamesResolve` covers names which no other State
prints for another line, and not the end of a function, whose label neither part
prints. `ArgumentsArrive` covers a call whose arguments are all `sound`: an
integer that the code does not drop because of `arg_reg`, a name whose register
no argument has taken, a call as first argument. `VariablesSurvive` leaves out
the variables of `lost`, whose register a callee used while no frame had saved
it, or which lived in X0 at a nested call. `CodeFollowsSource` leaves `break`
and `continue` out.

## What the runs refute

Each has a run of its own, whose counterexample is a program that behaves
otherwise than the repository says; `findings` quotes what it says.

- *The unsigned offset of a word transfer* is scaled by `mode`, not `sf`:
  `ldr w0, [x1, #4]` is assembled with offset 0 (`disassembler.c:103`;
  `UnsignedOffsetKept`).
- *The address of a device register* that is used again is that of the directive
  made last: after `GPIO_2 = LOW` and `GPIO_2 = HIGH`, another `GPIO_2 = LOW`
  stores to the register that sets the pin (`rpy.c:61`, `utils_ir.c:306`;
  `StoreAddressed`).
- *The result of a call* is lost when no name is in X0, as in `f(1)`:
  `restore_register` moves what X0 held before to the first free register, which
  is X0 (`utils_ir.c:205`; `ResultReturned`).
- *The return address* of a call is not behind its branch: 24 where the
  instruction after the first call of a body is at 16 (`eval.c:107`;
  `ReturnsBehind`).

The passing runs do not state what follows either. These cases were met while
modelling, the modules have them as they are in the code, and the conditions of
the properties, listed above, leave them out, so no property catches them:

- *Emulator.* Z is taken from the doubleword, so a sum of words that is 2^32
  leaves 0 in its register and Z clear (`execute.c:27`; `ZeroFlagOfResult` leaves
  additions of words out). ZR is the element after the registers, and a load, an
  addition or a logical operation whose destination is 31 writes it (`PutRd`).
  0 compared with the least value is taken to be less than it (`SubOverflow`;
  `EmulatorProofs` shows that this pair is the only one for subtraction, at
  every width, as (MIN, MIN) is for addition). SP is cut by a comparison of
  words, a base is masked with its register, and write-back comes before the
  transfer; nothing in the repository says what these should do.
- *Indentation.* A line that leaves two blocks closes one (`Pop`).
- *Codegen.* An operation between two integers loads both into one register, so
  that `3*4` is 16 (`eval.c:50`; not `sound`). Waits whose lines are in the same
  group of four share a label and a delay (`rpy.c:135`; not `apart`). A variable
  that the compiler believes to be -1 has the register that the next WAIT or GPIO
  statement takes (`FreeRegister`; `overtaken`).
- *Control flow.* Labels named `label_n` of two States meet in one file, and a
  label at the end of a function is not printed (`PrintedOf`). `break` and
  `continue` branch to label 0 of the State (`Flow`).
- *Calls.* A name is read from a register that an earlier argument may have taken,
  so `f(1, p)` passes 1 twice if p was in X0 (`eval.c:123`), and an integer whose
  number is `arg_reg` is dropped (`eval.c:129`); neither argument is `sound`.
- *Syntax tree.* A return of a value and a `for` free an expression that the tree
  still has, and `free_program` meets it again (`ast_to_ir.c:56`, `:126`): such
  a program ends in `wild`. So not every node is freed once; `FreedOnce` says
  that the compiler frees none twice, and that a program which gets to its end
  has freed each once.

## The proofs

| module | theorem | says |
|---|---|---|
| `SharedProofs` | `GetAfterPut`, `LaterPutHides`, lemmas | what `getBits` reads after `putBits`, and that a covered bit is never seen; powers of two, the bits of a number, the least of a set and the first entry of a name |
| `AssemblerProofs` | `TypeCorrect`, `Invariance`, `ResolvedOrPending`, `CompletionIsLocal`, `Refinement` | types, the inductive invariant, two properties of the run, and that `Assembler` implements `TwoPass` |
| `CodecProofs` | `TypeCorrect`, `ReadAsWritten`, `StaleUnseen`, `CompletedAsKnown` | for every line of the language: that every field fits the bits of its member, the round trip, that stale bytes are unseen, and that a completed word is the word of a known label |
| `EmulatorProofs` | `TypeCorrect`, `OnlyNamed`, `StoresLoad`, `ZeroFlagRight`, `BranchesCompare`, `AddOverflowExact`, `SubOverflowExact`, `OverflowMissed`, `ConditionsExact` | for every width, memory and set of instructions: the types, what may change, a store read back, the zero flag, a branch after its comparison; when flags and conditions are right, and the only pairs for which they are not |
| `FrontEndProofs` | `LevelsSound`, `TypeCorrect`, `PopsFind`, `OnlyAtMargin`, `EnclosingStays`, `GradualRefines` | indentation: the invariant, the bounds of the stack, the verdict, and the layout's step for gradual lines |
| | `TreeTyped`, `HeldByOne`, `NothingFreedRead`, `FreedAsGiven` | the syntax tree: types, one holder for each node, nothing read by the compiler after it is freed, and that it frees nothing twice; every property of the run `syntax_tree` |
| `CodegenProofs` | `TypeCorrect`, `RegistersOneToOne`, `AssignmentsKept`, `MovesOnlyOvertake`, `OperandsHold`, `LeaksCounted`, `WaitsApart` | every property of the run `codegen`; of the directives, that no name has two entries |
| `CallsProofs` | `TypeCorrect`, `Balanced`, `CalleeSaves`, `PassedArguments`, `KeptVariables` | every property of the run `calls` |
| `ControlFlowProofs` | `TypeCorrect`, `LabelsKeep`, `NamesFound`, `SourceFollowed` | types; labels stay and branches keep theirs; the names of labels lead to their lines; the code of a compiled program branches where its source does |

*Assumptions.* They are the named `ASSUME`s of the modules, and TLC evaluates
them in every run. Sizes are positive; labels are no integers and `INT32_MIN` is
no immediate (`AssemblyFile`); widths divide, memory images hold bytes, and the
instructions are those `decode` can leave, with registers that exist and
immediates within a word (`Emulator`); the lines are those of the language with
operands that fit their fields, and an offset is completed with one that fits
(`Codec`: `putBits` cuts what does not); pins are small enough for a shift, names
of variables are no pins, and a token is no wider than a register (`Codegen`);
the saved registers of all arguments lie below RP (`Calls`). Two theorems have a
hypothesis of their own: `NamesFound` and `SourceFollowed` ask that no function is
called `main`. Such a function prints the label of the program's entry, and
`print.c:154` takes the first entry of that name for the main part.

**Numbers and bits.** Most of `BitFields` is about sums over the bits of a field,
and induction over them is out of reach: the library's theorems take an operator
as parameter. `SharedProofs` goes around it. That 2^n is positive, grows and
doubles is read off sets, since there are 2^n subsets of `1..n`; a statement
about all lengths is proved by taking the least length for which it fails
(`Least`). So are obtained that the bits of a number of n bits add up to it
(`UnsignedBits`), that a field holds a signed value (`SignedFieldHolds`), and
that a list of fields is a sequence of writes in which the last writer of a bit
wins (`PutFieldsStep`, `LaterPutHides`).

**Assembler.** `RefsResolvedOrPending` is not inductive: that a lookup is final
depends on what `symtable` holds, and that completion hits the right word on
the order of `undeftable`. `IInv` adds, for a running assembler: `PC` counts the
words of the lines read and no line read stops the run (`PositionInv`);
`symtable` finds exactly the labels defined so far, at the address of their
first definition (`SymtabInv`); the entries of `undeftable` are those of
references, in increasing `PC`, so no two are for the same word (`UndefInv`);
and each word is the final one, with no entry left for it, or has its entry
still to come (`WordsInv`). When all entries are done, every word is final,
which is the refinement step; the other steps stutter or stop.

**Codec.** `Selected` lists the nine shapes of an instruction, the values of the
fields that `decode` branches on. The fields of one list are apart (`IsList`), so
each can be read back from the list that put it (`Written`); and a later list
leaves an earlier field alone, but for the pairs that really overlap: the low bit
of `op0` lies under fields put after it, and `offmode` under `imm12`. The first is
answered by `ClassOf`, which gives the same class for both values of that bit;
the second by `Shown`, the names a shape shows, which leaves `offmode` out. What
is shown is read back, stage by stage, because each stage chooses the next list
by fields that were read back (`ShownAreRead`), and two structures that agree on
what is shown have the same word (`EncodedSame`). `LineMade` goes through the
lines: what the disassembler assigns is exactly what its shape shows, and fits
its bits. The invariant says of the word that it is the one of its line
(`WordInv`); `Complete` keeps it because the offset is the whole of its field
and the rest of the word does not depend on it (`Completion`).

**Flags.** Additions and subtractions of signed numbers in [-h, h) for every h;
the exceptions are derived, not assumed, and shown to be real.

**Emulator.** Under the types one step per action compares the new registers and
flags with what `MayWrite`, `MayWriteSP` and `MaySetFlags` allow. The types need
that each value written is cut to its width, case by case of the opcodes.
`StoresLoad` reads the bytes of a store back with the bits lemmas: the value of a
word is the sum of its bytes' values (`PowerSum`, `Division`). A branch comes long
after its comparison, so the property is carried by an invariant: until the next
instruction that sets the flags, N, Z and V are those of the remembered
difference (`ComparedInv`); `ConditionsExact` then says what they mean.

**Indentation.** `LevelsIncrease` alone is not enough for `PopNeverFails`, and
the order of levels after a pop needs the saved level to be below the current
one: `IInv` takes both, with the agreement of blocks and levels.

**Codegen.** `Good` joins the types of the map, the registers and the machine
with: while not overtaken, names occur once, registers occur once, and each
assigned variable's register holds its value. Every action is one of three: it
writes a register outside the map (an evaluation, the device functions while
not overtaken), it assigns a variable, or it drops an entry, which is only
possible once overtaken. The lemmas `ScratchStep`, `AssignStep` and `StoreGood`
are these cases. `MarkInv` says that until a move no register has been overtaken
and every register of the map is marked as used (`InUse`), so that
`get_free_register` does not find one: `OvertakenOnlyAfterMove` follows, and with
it the condition of the other two theorems. `HoldInv` follows the pending
operands: one that is a name's is in the register of that name, and one that is
an intermediate result holds until the next intermediate result, since both take
the first register without a name. `LeakInv` counts the registers in use that no
name has: without the one the next intermediate result will take, there is at
most one for each device statement. `WaitInv` says that the numbers already
taken by waits, which are lines divided by four, are below what the current
line would give once an instruction lies between.

**Calls.** `ContractKept` speaks of the registers between two statements only, and
is not inductive. `IInv` adds, for every moment, that the types hold and the
`SaveArea` of the calls in progress is whole: the stack ends above the last
frame (`Height`), the frames lie on it one after the other (`Nested`), and what
the function found in a saved register is where it should be (`Held`): in the
register, if no frame has saved an argument there, and else in the slot of the
outermost frame that has. The push of that frame moves the value from the
register to the slot and its pop moves it back; inner frames push and pop other
values above it. Both sides ask `used_register`, and they agree because RP,
pushed before the arguments, keeps the stack from being empty until they are
restored. `VInv` follows the values: while calls are in progress, a variable that
is not lost is in the register of its entry, in the saved register its entry was
moved to, or, when a second frame has taken that one, in the frame's slot
(`ValuesKept`, `FramesOk`), and each argument passed stays in its register until
the branch (`ArgumentsArrive` is itself inductive under it).

**Control flow.** Why is no branch completed twice? Because a branch is
completed when its block closes, and the open blocks have pairwise different
branches that have no label yet. `CodeInv` says this of `open` and `code`,
`TablesInv` that tables only hold entries already made; the lemmas `PushBranch`
and `PatchTop` are the opening and closing of a block, `GrowCode` everything
else. For names, `NamesInv` says that the names of one State are one to one and
that the lines of the functions' entries and of `main` increase, so that the
first entry of a name is the one meant; `BlocksInv` ties the open blocks to the
phase and to the function being compiled; and `AimInv` says that a branch is that
of an open block or has a label of the table of its own State.

`CodeFollowsSource` compares the code with the parts of blocks as they are matched
in `source`, by counting beginnings and ends. `FollowInv` follows that count line
by line: the depth of `source` never falls below 0 (`LevelInv`); each open block
is at the part that began it, at its own depth, with all deeper parts after it
closed (`OpenInv`); the lines of code come from the parts in their order
(`CodedInv`, `OrderInv`), functions and `main` begin where their parts are
(`DefsInv`, `MainInv`); and each branch, completed or not, belongs to the part it
was made for (`BranchInv`, `IfsInv`). Closing a block at depth d is then the first
later part at that depth, which is what the matching of `source` finds.

**Syntax tree.** Two invariants, both checked by TLC on the whole space of the
run before they were proved. `TreeInv` is about pointers. `HeldInv` says that each
node in use has exactly one holder, the parts of one other node or one value of
the parser; `TagInv` says which kind of node is where and that parts are older
than their node; `StageInv` says which values there are in each stage.
The reductions of the parser are one lemma (`ParserStep`): some values are taken
off the stack and one new node or one extended node is put on it. A pass of the
optimiser frees whole trees whose root is no part any more (`Trimmed`, `Taken`),
so what stays has the holder it had. What can be reached from a node is a
recursive function; since parts are older than their node, a least
counterexample replaces the induction.
`KeptInv` is about what is left to compile. Each entry of `todo` stands for a set
of nodes still to be read; these sets are apart from each other and from what has
been freed, and so far exactly the trees that the compiled statements have given
away are freed, once each (`CompileInv`). That rests on trees being apart unless
one lies in the other (`Comparable`), which is where one holder for each node is
needed. `ReadsLive` and `FreedOnce` follow.

*Only model-checked.* `Terminates` is liveness and needs fairness, which the
prover does not treat. Every invariant and every other property of the passing
runs is stated by a theorem.

## What is not modelled

- *A call inside an operation* (`f(1) + 2`): `Codegen` has the operations and
  `Calls` the calls; the two recursions are not joined.
- *Characters of a line*: `decompose`, `identifyType`, `getOpType`; the models
  take their results.
- *Tokens and precedence* of the grammar, and files with syntax errors; the names
  and numbers in the tree, so what the optimiser computes.
- *`hotspot.c`, `jit.c`, `state.c`*: unfinished and built by no target.
- *`io.c`, `vector.c`, `main.c`, text printing*: files and allocation.
- *Fixed tables* of directives, labels, functions and variables are written
  without a check of their sizes; programs below them are modelled.

## The plan

Done, in this order, the order of what matters most to a user: assembler and its
refinement, codec, emulator, indentation, allocator with expressions and
devices, control flow, calls with their stack, the syntax tree and the
optimiser's use of it.

What would come next:

1. Composition of `ControlFlow` with the assembler: names printed by all States
   and looked up in `symtable`, as a refinement of branches to lines.
2. `Calls` and `Codegen` in one recursion, for calls inside operations.
3. Reading a line: `decompose` with its stale tokens and its last character.
4. Proofs for the composition of item 1, from `AimInv` and the invariant of the
   assembler.
