---------------------------- MODULE ControlFlow -----------------------------
(***************************************************************************)
(* The compiler of blocks and branches (extension/ast_to_ir.c), the symbol *)
(* tables of its States (utils_ir.c) and the labels print.c writes.        *)
(*                                                                         *)
(* The recursion of statements_to_ir is unrolled on the stack open: an     *)
(* action opens or closes a block or compiles a statement, and appends to  *)
(* source, the program so far, what the parser would have read.  An        *)
(* assignment is one instruction, a condition a few and the comparison;    *)
(* the calls other than those of LOOP, and WAIT, are left out.             *)
(* Instructions are numbered from 0: code[i] is at line i - 1.             *)
(***************************************************************************)
EXTENDS Integers, Sequences, FiniteSets, SequencesExt

CONSTANTS
  Functions,     \* names of functions
  LOOP,          \* the one that is called by a plain branch
  EvalLines,     \* instructions that evaluate the operands of a condition
  MaxFunctions,  \* at most, as MAX_FUNCS
  MaxSource, MaxDepth   \* bounds on the program

ASSUME ControlFlowAssumption ==
  /\ LOOP \in Functions
  /\ EvalLines \subseteq Nat
  /\ MaxFunctions \in Nat /\ {MaxSource, MaxDepth} \subseteq Nat

VARIABLES
  code,          \* [op, label, state, src]: src is the place in source
  tables,        \* the symbol table of main and those of the functions
  funcs,         \* [name, address], of main's State
  current,       \* the State compiled for: 0 is main's
  open,          \* blocks not closed: [kind, ret, branch]
  phase,         \* "functions", "main" or "done"
  source         \* the program read: the kinds of its parts

vars == <<code, tables, funcs, current, open, phase, source>>

MAIN == <<"main", 0>>
States == 0 .. MaxFunctions
line == Len(code)
table == tables[current]

Instr(op, label, src) == [op |-> op, label |-> label, state |-> current, src |-> src]
Plain(n, src) == [k \in 1..n |-> Instr("plain", 0, src)]

\* ast_to_ir up to the function definitions: the branch to main.
Init ==
  /\ code = << [op |-> "b", label |-> 0, state |-> 0, src |-> 1] >>
  /\ tables = [s \in States |-> <<>>]
  /\ funcs = <<>>
  /\ current = 0
  /\ open = <<>>
  /\ phase = "functions"
  /\ source = <<"start">>
-----------------------------------------------------------------------------
\* Mutant: a label is put behind the line it is for.
AddLabelBehind(t, address) ==
  Append(t, [name |-> <<"label", Len(t)>>, address |-> address + 1])

\* add_label without a name, and get_label_address of what it adds.
AddLabel(t, address) == Append(t, [name |-> <<"label", Len(t)>>, address |-> address])
LabelAddress(t) == Len(t) - 1

\* add_label of a name, as add_fun and ast_to_ir call it.
AddName(t, address, name) == Append(t, [name |-> name, address |-> address])

\* get_fun_address
FunAddress(t, name) == CHOOSE l \in 0..Len(t)-1 :
                         t[l+1].name = name /\ \A k \in 0..l-1 : t[k+1].name # name

Compiling == Len(source) < MaxSource /\ (phase = "main" \/ open # <<>>)
Opener == {"def", "if", "while", "for"}
HasStatement == Last(source) \notin Opener
Here == Len(source) + 1

\* function_def_to_ir, up to the body.  append_state gives the new State the
\* functions defined so far; the labels of main's State are all functions'.
FunctionDef(name) ==
  /\ phase = "functions" /\ open = <<>>
  /\ Len(source) < MaxSource
  /\ Len(funcs) < MaxFunctions
  /\ \A i \in DOMAIN funcs : funcs[i].name # <<name, 0>>
  /\ funcs' = AddName(funcs, line, <<name, 0>>)
  /\ current' = Len(funcs')
  /\ tables' = [tables EXCEPT ![0] = AddName(@, line, <<name, 0>>),
                              ![current'] = funcs']
  /\ open' = << [kind |-> "def", ret |-> 0, branch |-> 0] >>
  /\ source' = Append(source, "def")
  /\ UNCHANGED <<code, phase>>

EndFunction ==
  /\ open # <<>> /\ Last(open).kind = "def"
  /\ HasStatement
  /\ current' = 0
  /\ open' = <<>>
  /\ source' = Append(source, "enddef")
  /\ UNCHANGED <<code, tables, funcs, phase>>

\* The rest of ast_to_ir before the statements: the label of main, SP.
StartMain ==
  /\ phase = "functions" /\ open = <<>>
  /\ phase' = "main"
  /\ tables' = [tables EXCEPT ![0] = AddName(@, line, MAIN)]
  /\ code' = Append([code EXCEPT ![1].label = LabelAddress(tables'[0])],
                    Instr("plain", 0, Here))
  /\ source' = Append(source, "main")
  /\ UNCHANGED <<funcs, current, open>>

\* The halt instruction.
Finish ==
  /\ phase = "main" /\ open = <<>>
  /\ phase' = "done"
  /\ code' = Append(code, Instr("halt", 0, Here))
  /\ source' = Append(source, "halt")
  /\ UNCHANGED <<tables, funcs, current, open>>
-----------------------------------------------------------------------------
\* assignment_to_ir
Assign ==
  /\ Compiling
  /\ code' = code \o Plain(1, Here)
  /\ source' = Append(source, "assign")
  /\ UNCHANGED <<tables, funcs, current, open, phase>>

\* An assignment of a call of LOOP: check_loop_call, and the move of X0.
CallLoop ==
  /\ Compiling
  /\ \E i \in DOMAIN table : table[i].name = <<LOOP, 0>>
  /\ code' = Append(code, Instr("b", FunAddress(table, <<LOOP, 0>>), Here))
               \o Plain(1, Here + 1)
  /\ source' = source \o <<"loop", "assign">>
  /\ UNCHANGED <<tables, funcs, current, open, phase>>

\* flow_to_ir of a return of LOOP's: check_loop_return.
ReturnLoop ==
  /\ Compiling /\ current # 0
  /\ \E i \in DOMAIN table : table[i].name = <<LOOP, 0>>
  /\ code' = Append(code, Instr("b", FunAddress(table, <<LOOP, 0>>), Here))
  /\ source' = Append(source, "loop")
  /\ UNCHANGED <<tables, funcs, current, open, phase>>

\* flow_to_ir of another return.
Return ==
  /\ Compiling /\ current # 0
  /\ code' = Append(code \o Plain(1, Here), Instr("br", 0, Here))
  /\ source' = Append(source, "return")
  /\ UNCHANGED <<tables, funcs, current, open, phase>>

\* flow_to_ir of a break or a continue.
Flow(kind) ==
  /\ Compiling
  /\ \E i \in DOMAIN open : open[i].kind \in {"while", "for"}
  /\ code' = Append(code, Instr("b", 0, Here))
  /\ source' = Append(source, kind)
  /\ UNCHANGED <<tables, funcs, current, open, phase>>

\* What for_to_ir, while_to_ir and if_to_ir share: the operands, the
\* comparison, the branch whose label is filled in later.
Condition(n, src) == Append(Plain(n + 1, src), Instr("bcond", 0, src))

\* Mutant: the loop returns behind the evaluation of the operands.
OpenBlockLate(kind, n, before) ==
  /\ Compiling /\ Len(open) < MaxDepth
  /\ code' = code \o Plain(Len(before), Here) \o Condition(n, Here + Len(before))
  /\ open' = Append(open, [kind |-> kind, ret |-> line + n, branch |-> Len(code')])
  /\ source' = Append(source \o before, kind)
  /\ UNCHANGED <<tables, funcs, current, phase>>

\* The beginnings of the three; only a for has something before it.
OpenBlock(kind, n, before) ==
  /\ Compiling /\ Len(open) < MaxDepth
  /\ code' = code \o Plain(Len(before), Here) \o Condition(n, Here + Len(before))
  /\ open' = Append(open, [kind |-> kind, ret |-> line + Len(before),
                           branch |-> Len(code')])
  /\ source' = Append(source \o before, kind)
  /\ UNCHANGED <<tables, funcs, current, phase>>

For(n) == OpenBlock("for", n, <<"assign">>)
While(n) == OpenBlock("while", n, <<>>)
If(n) == OpenBlock("if", n, <<>>)

\* The ends of for_to_ir and while_to_ir: the update, the branch back, the
\* label behind it.
EndLoop ==
  LET top == Last(open)
      updated == IF top.kind = "for" THEN <<"update">> ELSE <<>>
      back == AddLabel(table, top.ret)
      looped == Append(code \o Plain(Len(updated), Here),
                       Instr("b", LabelAddress(back), Here + Len(updated)))
      out == AddLabel(back, Len(looped))
  IN  /\ open # <<>> /\ top.kind \in {"for", "while"}
      /\ HasStatement
      /\ code' = [looped EXCEPT ![top.branch].label = LabelAddress(out)]
      /\ tables' = [tables EXCEPT ![current] = out]
      /\ open' = Front(open)
      /\ source' = Append(source \o updated, "endloop")
      /\ UNCHANGED <<funcs, current, phase>>

\* if_to_ir after the then block, whether there is an else block or not.
Else ==
  LET top == Last(open)
      other == AddLabel(table, line + 1)
  IN  /\ open # <<>> /\ top.kind = "if"
      /\ HasStatement
      /\ code' = Append([code EXCEPT ![top.branch].label = LabelAddress(other)],
                        Instr("b", 0, Here))
      /\ tables' = [tables EXCEPT ![current] = other]
      /\ open' = Append(Front(open), [kind |-> "else", ret |-> 0, branch |-> line + 1])
      /\ source' = Append(source, "else")
      /\ UNCHANGED <<funcs, current, phase>>

\* Mutant: the wrong branch is completed.
EndIfLast ==
  LET top == Last(open)
      out == AddLabel(table, line)
  IN  /\ open # <<>> /\ top.kind = "else"
      /\ code' = [code EXCEPT ![line].label = LabelAddress(out)]
      /\ tables' = [tables EXCEPT ![current] = out]
      /\ open' = Front(open)
      /\ source' = Append(source, "endif")
      /\ UNCHANGED <<funcs, current, phase>>

\* The end of if_to_ir.
EndIf ==
  LET top == Last(open)
      out == AddLabel(table, line)
  IN  /\ open # <<>> /\ top.kind = "else"
      /\ code' = [code EXCEPT ![top.branch].label = LabelAddress(out)]
      /\ tables' = [tables EXCEPT ![current] = out]
      /\ open' = Front(open)
      /\ source' = Append(source, "endif")
      /\ UNCHANGED <<funcs, current, phase>>

Next ==
  \/ \E name \in Functions : FunctionDef(name)
  \/ EndFunction \/ StartMain \/ Finish
  \/ Assign \/ CallLoop \/ ReturnLoop \/ Return
  \/ Flow("break") \/ Flow("continue")
  \/ \E n \in EvalLines : For(n) \/ While(n) \/ If(n)
  \/ EndLoop \/ Else \/ EndIf

Spec == Init /\ [][Next]_vars
-----------------------------------------------------------------------------
(* print_ir_program: each function with its own table up to the next one or *)
(* main, the rest with main's.                                              *)

StartOf(s) == IF s = 0 THEN tables[0][FunAddress(tables[0], MAIN) + 1].address
              ELSE funcs[s].address
StopOf(s) == IF s = 0 THEN line
             ELSE IF s = Len(funcs) THEN StartOf(0) ELSE funcs[s + 1].address

\* Mutant: a part ends before its last instruction.
PrintedShort(s) == {i \in DOMAIN tables[s] :
                      tables[s][i].address \in StartOf(s) .. StopOf(s) - 2}

\* print_label on the lines of a part.  print_empty_labels is given the first
\* instruction of the next part and prints what is behind it: nothing.
PrintedOf(s) == {i \in DOMAIN tables[s] :
                   tables[s][i].address \in StartOf(s) .. StopOf(s) - 1}

\* The lines at which a State prints a name.
PrintedAt(s, name) ==
  {tables[s][i].address : i \in {i \in PrintedOf(s) : tables[s][i].name = name}}

\* The lines the assembler finds a name at.
Printed(name) == UNION {PrintedAt(s, name) : s \in 0 .. Len(funcs)}
-----------------------------------------------------------------------------
(* What the program means: where control goes from each part of source.     *)

Closer == {"enddef", "endif", "endloop"}

Depth(t, e) == Cardinality({k \in t..e : source[k] \in Opener})
               - Cardinality({k \in t..e : source[k] \in Closer})

First(a, S) == CHOOSE k \in S : k > a /\ \A j \in S : j > a => k <= j
EndOf(t) == First(t, {e \in t..Len(source) : Depth(t, e) = 0})
ElseOf(t) == First(t, {e \in t..Len(source) : Depth(t, e) = 1 /\ source[e] = "else"})

\* What is enclosed in what.
OpenerOf(e) == CHOOSE o \in 1..e : source[o] \in Opener /\ (EndOf(o) = e \/
                                     (source[o] = "if" /\ source[e] = "else" /\ ElseOf(o) = e))

\* The end of an if has no instruction of its own.
Visible(t) == First(t - 1, {k \in t..Len(source) : source[k] # "endif"})

Following(t) == Visible(t + 1)

Place(kind) == First(0, {k \in DOMAIN source : source[k] = kind})
LoopDef == First(0, {k \in DOMAIN source :
                       source[k] = "def" /\ funcs[Cardinality({j \in 1..k : source[j] = "def"})].name
                                              = <<LOOP, 0>>})

\* Where a branch made for a part of source should lead.
TargetOf(t) ==
  IF source[t] = "start" THEN Place("main")
  ELSE IF source[t] = "if" THEN Following(ElseOf(t))
  ELSE IF source[t] \in {"while", "for"} THEN Following(EndOf(t))
  ELSE IF source[t] = "else" THEN Following(EndOf(OpenerOf(t)))
  ELSE IF source[t] = "endloop" THEN OpenerOf(t)
  ELSE Following(LoopDef)

\* The line of the first instruction of a part; the end of a function is where
\* the next part of the code begins.
LineOf(t) == IF source[t] = "enddef"
             THEN StopOf(Cardinality({j \in 1..t : source[j] = "def"}))
             ELSE First(0, {i \in DOMAIN code : code[i].src = t}) - 1
-----------------------------------------------------------------------------
AddressOfLabel(i) == tables[code[i].state][code[i].label + 1].address
NameOfLabel(i) == tables[code[i].state][code[i].label + 1].name
Branches == {i \in DOMAIN code : code[i].op \in {"b", "bcond"}
                                 /\ source[code[i].src] \notin {"break", "continue"}}

TypeOK ==
  /\ code \in Seq([op : {"plain", "b", "bcond", "br", "halt"}, label : Nat,
                   state : 0 .. Len(funcs), src : DOMAIN source])
  /\ \A s \in States : \A i \in DOMAIN tables[s] : tables[s][i].address \in 0..line
  /\ current \in 0 .. Len(funcs)
  /\ phase \in {"functions", "main", "done"}
  /\ \A i \in DOMAIN open : open[i].ret \in 0..line /\ open[i].branch \in 0..line

\* Every branch, but those of break and continue, has a label of its own State
\* at the line where the program says that control goes, and what follows an
\* instruction that does not branch is what follows in the program.
CodeFollowsSource ==
  phase = "done" =>
    /\ \A i \in Branches : AddressOfLabel(i) = LineOf(TargetOf(code[i].src))
    /\ \A i \in DOMAIN code :
         LET t == code[i].src
         IN  code[i].op \in {"plain", "bcond"} /\ code[i + 1].src # t =>
               source[t] = "loop" \/ LineOf(Following(t)) = i

\* The name of a label leads the assembler to it and nowhere else, unless
\* another State prints that name for another line, or the line is the end of a
\* function.
NamesResolve ==
  phase = "done" => \A i \in Branches :
    /\ \A s \in 0 .. Len(funcs) : s # code[i].state =>
         PrintedAt(s, NameOfLabel(i)) \subseteq {AddressOfLabel(i)}
    /\ code[i].state # 0 => AddressOfLabel(i) < StopOf(code[i].state)
    => Printed(NameOfLabel(i)) = {AddressOfLabel(i)}

\* A label is where it is from the time it is made, and a branch that has been
\* given its label keeps it.
LabelsSettled ==
  [][/\ \A s \in States : \A i \in DOMAIN tables[s] : tables'[s][i] = tables[s][i]
     /\ \A i \in DOMAIN code : code[i].label # 0 => code'[i].label = code[i].label]_vars
=============================================================================
