----------------------------- MODULE SyntaxTree -----------------------------
(***************************************************************************)
(* The syntax tree and who frees it: the constructors and destructors of   *)
(* extension/ast.c, called by the reductions of parser.y, the passes that  *)
(* read, rewrite and free parts of it (ast_to_ir.c, optimise_ir.c), and    *)
(* free_program at the end of aot.c.                                       *)
(*                                                                         *)
(* A node is what is allocated and freed together: an Expression with its  *)
(* Name, Int, BinaryOp..., a Statement with its payload and its cell of a  *)
(* list.  The parser is its stack of values: the tokens, and which of them *)
(* an operator is, are left out.                                           *)
(***************************************************************************)
EXTENDS Integers, Sequences, SequencesExt

CONSTANTS
  MaxNodes,      \* bound on the nodes of a program
  MaxOf          \* bound on those of each tag

\* LOOP is a call of the function of that name.
Atoms == {"name", "int"}
CallTags == {"call", "LOOP"}
ExpressionTags == Atoms \cup CallTags \cup {"binary", "unary"}
Tags == ExpressionTags \cup {"parameter"} \cup
        {"assignment", "return", "flow", "if", "while", "for", "function"}

ASSUME BoundsAssumption ==
  /\ MaxNodes \in Nat
  /\ MaxOf \in [Tags -> Nat]

VARIABLES
  nodes,       \* the nodes made, in the order in which they were
  stack,       \* the parser's values; at the end the program's statements
  stage,
  todo,        \* what is left to compile, the innermost block first
  freed,       \* how many times each node has been freed
  dropped,     \* history: nodes that simplify_if_statement has unlinked
  stale        \* history: a freed node has been read

treeVars == <<nodes, stack, stage, todo, freed, dropped, stale>>

Ids == DOMAIN nodes

\* The nodes that a node points to.  exprs are its expressions or parameters,
\* block and orelse the lists of its statements.
Parts(n) == nodes[n].exprs \o nodes[n].block \o nodes[n].orelse

\* A node's tree, which is what the destructor of its kind frees.
TreeOf[n \in Ids] == {n} \cup UNION {TreeOf[k] : k \in ToSet(Parts(n))}

Trees(ids) == UNION {TreeOf[n] : n \in ToSet(ids)}

\* How often nodes are freed once these are.
AndFreed(set) == [n \in Ids |-> freed[n] + IF n \in set THEN 1 ELSE 0]

\* A value of the parser: what it is, and the nodes that it has.
Item(kind, ids) == [kind |-> kind, ids |-> ids]

TreeInit ==
  /\ nodes = <<>> /\ freed = <<>>
  /\ stack = << Item("block", <<>>) >>
  /\ stage = "parse"
  /\ todo = <<>>
  /\ dropped = {} /\ stale = FALSE
-----------------------------------------------------------------------------
(* The parser: a reduction makes a node of the values on top.               *)

\* Mutant: the value is the node after the one made.
NewNext == Len(nodes) + 2

New == Len(nodes) + 1

\* The values from the top on are of these kinds, the lowest first.
Kinds(kinds) ==
  /\ stage = "parse"
  /\ Len(stack) >= Len(kinds)
  /\ \A i \in DOMAIN kinds : stack[Len(stack) - Len(kinds) + i].kind = kinds[i]

Value(i) == stack[Len(stack) - i + 1].ids   \* the i-th from the top

\* The nodes still to be made to use the values: no program above the bound is
\* begun.
Wanting(values) ==
  Cardinality({i \in DOMAIN values :
    /\ values[i].kind # "block"
    /\ values[i].kind = "expression" => values[i - 1].kind # "arguments"})

OfTag(tag) == Cardinality({n \in Ids : nodes[n].tag = tag})

\* Nodes are made of the upper values and item takes their place.
ReduceTo(made, count, item) ==
  /\ \A n \in DOMAIN made : OfTag(made[n].tag) < MaxOf[made[n].tag]
  /\ nodes' = nodes \o made
  /\ freed' = freed \o [i \in DOMAIN made |-> 0]
  /\ stack' = Append(SubSeq(stack, 1, Len(stack) - count), item)
  /\ Len(nodes') + Wanting(stack') <= MaxNodes
  /\ UNCHANGED <<stage, todo, dropped, stale>>

Reduce(count, node, item) == ReduceTo(<< node >>, count, item)

\* What comes next has no node yet.
Open(item) ==
  /\ stack' = Append(stack, item)
  /\ Len(nodes) + Wanting(stack') <= MaxNodes
  /\ UNCHANGED <<nodes, stage, todo, freed, dropped, stale>>

Node(tag, exprs, block, orelse) ==
  [tag |-> tag, exprs |-> exprs, block |-> block, orelse |-> orelse]

\* create_expression of a value of its kind
Expression(tag, exprs, count) ==
  Reduce(count, Node(tag, exprs, <<>>, <<>>), Item("expression", << New >>))

ExpressionBegins ==
  /\ stage = "parse"
  /\ Last(stack).kind \in {"block", "expression", "arguments"}

Atom(tag) == ExpressionBegins /\ Expression(tag, <<>>, 0)

BinaryOp ==
  /\ Kinds(<<"expression", "expression">>)
  /\ Expression("binary", Value(2) \o Value(1), 2)

UnaryOp ==
  /\ Kinds(<<"expression">>)
  /\ Expression("unary", Value(1), 1)

OpenArguments == ExpressionBegins /\ Open(Item("arguments", <<>>))

\* Mutant: what follows the first element is replaced.
AppendArgumentSecond ==
  /\ Kinds(<<"arguments", "expression">>)
  /\ stack' = Append(SubSeq(stack, 1, Len(stack) - 2),
                     Item("arguments", IF Value(2) = <<>> THEN Value(1)
                                       ELSE << Head(Value(2)) >> \o Value(1)))
  /\ UNCHANGED <<nodes, stage, todo, freed, dropped, stale>>

\* append_arguments
AppendArgument ==
  /\ Kinds(<<"arguments", "expression">>)
  /\ stack' = Append(SubSeq(stack, 1, Len(stack) - 2), Item("arguments", Value(2) \o Value(1)))
  /\ UNCHANGED <<nodes, stage, todo, freed, dropped, stale>>

FunctionCall(tag) ==
  /\ Kinds(<<"arguments">>)
  /\ Expression(tag, Value(1), 1)

\* create_statement and append_statements, to the list that is below the values.
Statement(node, count) ==
  Reduce(count + 1, node, Item("block", Value(count + 1) \o << New >>))

Assignment ==
  /\ Kinds(<<"block", "expression">>)
  /\ Statement(Node("assignment", Value(1), <<>>, <<>>), 1)

\* +=, -= and the others: an operation between a name of its own and the value.
OpAssignment ==
  /\ Kinds(<<"block", "expression">>)
  /\ ReduceTo(<< Node("name", <<>>, <<>>, <<>>),
                Node("binary", << New >> \o Value(1), <<>>, <<>>),
                Node("assignment", << New + 1 >>, <<>>, <<>>) >>,
              2, Item("block", Append(Value(2), New + 2)))

Return ==
  \/ /\ Kinds(<<"block", "expression">>)
     /\ Statement(Node("return", Value(1), <<>>, <<>>), 1)
  \/ /\ Kinds(<<"block">>)
     /\ Statement(Node("return", <<>>, <<>>, <<>>), 0)

\* break, continue
Flow ==
  /\ Kinds(<<"block">>)
  /\ Statement(Node("flow", <<>>, <<>>, <<>>), 0)

\* The block of if, while or for, behind its expression.
OpenBlock ==
  /\ Kinds(<<"block", "expression">>)
  /\ Open(Item("block", <<>>))

OpenElse ==
  /\ Kinds(<<"block", "expression", "block">>)
  /\ Open(Item("block", <<>>))

If ==
  \/ /\ Kinds(<<"block", "expression", "block">>)
     /\ Statement(Node("if", Value(2), Value(1), <<>>), 2)
  \/ /\ Kinds(<<"block", "expression", "block", "block">>)
     /\ Statement(Node("if", Value(3), Value(2), Value(1)), 3)

While ==
  /\ Kinds(<<"block", "expression", "block">>)
  /\ Statement(Node("while", Value(2), Value(1), <<>>), 2)

For ==
  /\ Kinds(<<"block", "expression", "block">>)
  /\ Statement(Node("for", Value(2), Value(1), <<>>), 2)

OpenParameters ==
  /\ Kinds(<<"block">>)
  /\ Open(Item("parameters", <<>>))

\* create_name and append_parameters
AppendParameter ==
  /\ Kinds(<<"parameters">>)
  /\ Reduce(1, Node("parameter", <<>>, <<>>, <<>>), Item("parameters", Append(Value(1), New)))

OpenBody ==
  /\ Kinds(<<"parameters">>)
  /\ Open(Item("block", <<>>))

FunctionDef ==
  /\ Kinds(<<"block", "parameters", "block">>)
  /\ Statement(Node("function", Value(2), Value(1), <<>>), 2)

Parse ==
  \/ \E tag \in Atoms : Atom(tag)
  \/ BinaryOp \/ UnaryOp
  \/ OpenArguments \/ AppendArgument \/ \E tag \in CallTags : FunctionCall(tag)
  \/ Assignment \/ OpAssignment \/ Return \/ Flow
  \/ OpenBlock \/ OpenElse \/ If \/ While \/ For
  \/ OpenParameters \/ AppendParameter \/ OpenBody \/ FunctionDef

Program == stack[1].ids

\* The functions that the compiler compiles are those before anything else.
Leading ==
  LET others == {i \in DOMAIN Program : nodes[Program[i]].tag # "function"}
  IN  IF others = {} THEN Program ELSE SubSeq(Program, 1, Min(others) - 1)

\* An item before others, if there is something in it.
Put(item, items) == IF item.ids = <<>> THEN items ELSE << item >> \o items

\* create_program; aot.c compiles the program next, the optimiser's functions
\* (which no program calls yet) may be given it.
EndParse ==
  /\ Kinds(<<"block">>) /\ Len(stack) = 1
  /\ \/ /\ stage' = "compile"
        /\ todo' = Put(Item("functions", Leading), Put(Item("statements", Program), <<>>))
     \/ /\ stage' = "optimise"
        /\ UNCHANGED todo
  /\ UNCHANGED <<nodes, stack, freed, dropped, stale>>
-----------------------------------------------------------------------------
(* The compiler: ast_to_ir and statements_to_ir with their blocks unrolled   *)
(* on todo.                                                                  *)

Current == Head(todo)
Node1 == nodes[Head(Current.ids)]      \* the statement, if it is one

Compiling(kind) == stage = "compile" /\ todo # <<>> /\ Current.kind = kind
At(tag) == Compiling("statements") /\ Node1.tag = tag

\* What follows the node at hand.
Rest == Put(Item(Current.kind, Tail(Current.ids)), Tail(todo))

Proceed(items) ==
  /\ todo' = items
  /\ UNCHANGED <<nodes, stack, stage, dropped>>

\* The program ends: "exited" with a message or a failed assertion, "wild" where
\* what it does is not determined.
End(how) == stage' = how /\ UNCHANGED <<nodes, stack, todo, freed, dropped, stale>>

Read(set) == stale' = (stale \/ \E n \in set : freed[n] > 0)

\* A statement's own node and expressions.
Header == {Head(Current.ids)} \cup Trees(Node1.exprs)

\* Mutant: the functions are compiled where they are met, too.
CompileFunctionAgain ==
  /\ Compiling("functions") \/ At("function")
  /\ Read(Header) /\ Proceed(Put(Item("statements", Node1.block), Rest))
  /\ UNCHANGED freed

\* function_def_to_ir; the functions that are not leading are passed over.
CompileFunction ==
  /\ \/ /\ Compiling("functions")
        /\ Read(Header) /\ Proceed(Put(Item("statements", Node1.block), Rest))
     \/ /\ At("function")
        /\ Read({Head(Current.ids)}) /\ Proceed(Rest)
  /\ UNCHANGED freed

\* check_wait takes the first argument of WAIT for an integer.
CompileAssignment ==
  /\ At("assignment")
  /\ \/ Read(Header) /\ Proceed(Rest) /\ UNCHANGED freed
     \/ LET call == nodes[Node1.exprs[1]]
        IN  /\ call.tag = "call"
            /\ ~(call.exprs # <<>> /\ nodes[Head(call.exprs)].tag = "int")
            /\ End("wild")

CompileFlow ==
  /\ At("flow")
  /\ Read(Header) /\ Proceed(Rest)
  /\ UNCHANGED freed

\* The expression is put into an assignment to ret, which is freed with it.  A
\* call of LOOP is not.  check_loop_return follows the pointer of a return
\* without an expression.
CompileReturn ==
  /\ At("return")
  /\ IF Node1.exprs = <<>> THEN End("wild")
     ELSE /\ Read(Header) /\ Proceed(Rest)
          /\ freed' = IF nodes[Node1.exprs[1]].tag = "LOOP" THEN freed
                      ELSE AndFreed(Trees(Node1.exprs))

\* while_to_ir asserts that its condition is an operation.
CompileWhile ==
  /\ At("while")
  /\ IF nodes[Node1.exprs[1]].tag # "binary" THEN End("exited")
     ELSE /\ Read(Header) /\ Proceed(Put(Item("statements", Node1.block), Rest))
          /\ UNCHANGED freed

\* if_to_ir takes its condition for one.
CompileIf ==
  /\ At("if")
  /\ IF nodes[Node1.exprs[1]].tag # "binary" THEN End("wild")
     ELSE /\ Read(Header)
          /\ Proceed(Put(Item("statements", Node1.block),
                         Put(Item("statements", Node1.orelse), Rest)))
          /\ UNCHANGED freed

\* for_to_ir takes its range for a call of two integers, asserts that there are
\* two, and puts the first into an assignment to the variable.
CompileFor ==
  /\ At("for")
  /\ LET range == nodes[Node1.exprs[1]]
     IN  IF range.tag \notin CallTags THEN End("wild")
         ELSE IF Len(range.exprs) < 2 THEN End("exited")
         ELSE IF \E i \in 1..2 : nodes[range.exprs[i]].tag # "int" THEN End("wild")
         ELSE /\ Read(Header)
              /\ Proceed(Put(Item("statements", Node1.block),
                             Put(Item("bound", << Head(range.exprs) >>), Rest)))
              /\ UNCHANGED freed

\* The end of for_to_ir, behind the block: the assignment is freed with the bound.
EndFor ==
  /\ Compiling("bound")
  /\ Read(Trees(Current.ids)) /\ Proceed(Rest)
  /\ freed' = AndFreed(Trees(Current.ids))

\* An expression the compiler does not know, or no register for it.
CompileFails ==
  /\ Compiling("statements") /\ Node1.tag # "function" /\ Node1.exprs # <<>>
  /\ End("exited")

Compile ==
  \/ CompileFunction \/ CompileAssignment \/ CompileFlow \/ CompileReturn
  \/ CompileWhile \/ CompileIf \/ CompileFor \/ EndFor \/ CompileFails
-----------------------------------------------------------------------------
(* The optimiser.                                                           *)

Optimising == stage = "optimise"
Expressions == {n \in Trees(Program) : nodes[n].tag \in ExpressionTags}

IntOf(set) == [n \in Ids |-> IF n \in set THEN Node("int", <<>>, <<>>, <<>>) ELSE nodes[n]]

\* const_prop: names become integers.
ConstProp(n) ==
  /\ Optimising
  /\ nodes' = IntOf({k \in TreeOf[n] : nodes[k].tag = "name"})
  /\ UNCHANGED <<stack, stage, todo, freed, dropped, stale>>

\* const_fold: what has no call becomes an integer, and its parts are freed.
Folds[n \in Ids] ==
  /\ nodes[n].tag \notin CallTags
  /\ \A k \in ToSet(nodes[n].exprs) : Folds[k]

\* Mutant: the parts are not freed.
ConstFoldLeaks(n) ==
  /\ Optimising
  /\ nodes' = IntOf({k \in TreeOf[n] : Folds[k]})
  /\ UNCHANGED <<stack, stage, todo, freed, dropped, stale>>

ConstFold(n) ==
  LET folded == {k \in TreeOf[n] : Folds[k]}
  IN  /\ Optimising
      /\ nodes' = IntOf(folded)
      /\ freed' = AndFreed(UNION {TreeOf[k] \ {k} : k \in folded})
      /\ UNCHANGED <<stack, stage, todo, dropped, stale>>

\* A variable without a value, or an operation that cannot be computed.
OptimiserFails ==
  /\ Optimising
  /\ \E n \in Expressions : nodes[n].tag \in {"name", "binary", "unary"}
  /\ End("exited")

\* simplify_if_statement, where the conditions in truths are not zero: the blocks
\* that stay, and the statements visited.
IsConstant(n) == nodes[n].exprs # <<>> /\ nodes[nodes[n].exprs[1]].tag = "int"

Block(n, truths) == IF IsConstant(n) /\ n \notin truths THEN <<>> ELSE nodes[n].block
OrElse(n, truths) == IF IsConstant(n) /\ n \in truths THEN <<>> ELSE nodes[n].orelse

Visited(truths) ==
  LET From[n \in Ids] ==
        IF nodes[n].tag # "if" THEN {}
        ELSE {n} \cup UNION {From[k] : k \in ToSet(Block(n, truths) \o OrElse(n, truths))}
  IN  UNION {From[n] : n \in ToSet(Program)}

\* A constant condition and the block it excludes are unlinked and not freed.
\* The condition of an if that was simplified before is NULL, and read.
SimplifyStatements(truths) ==
  LET visited == Visited(truths)
      constant == {n \in visited : IsConstant(n)}
  IN  /\ Optimising
      /\ IF \E n \in visited : nodes[n].exprs = <<>> THEN End("wild")
         ELSE /\ nodes' = [n \in Ids |->
                   IF n \in constant
                   THEN Node("if", <<>>, Block(n, truths), OrElse(n, truths))
                   ELSE nodes[n]]
              /\ dropped' = dropped \cup UNION {Trees(nodes[n].exprs) \cup
                     Trees(IF n \in truths THEN nodes[n].orelse ELSE nodes[n].block) :
                       n \in constant}
              /\ UNCHANGED <<stack, stage, todo, freed, stale>>

Optimise ==
  \/ \E n \in Expressions : ConstProp(n) \/ ConstFold(n)
  \/ OptimiserFails
  \/ \E truths \in SUBSET {n \in Ids : nodes[n].tag = "if"} : SimplifyStatements(truths)
-----------------------------------------------------------------------------
\* free_program, after the compiler or the optimiser.  It follows the pointers of
\* the whole tree: what it does with a node freed before is not determined.
FreeProgram ==
  /\ \/ stage = "compile" /\ todo = <<>>
     \/ stage = "optimise"
  /\ IF \E n \in Trees(Program) : freed[n] > 0 THEN End("wild")
     ELSE /\ freed' = AndFreed(Trees(Program))
          /\ stage' = "released"
          /\ UNCHANGED <<nodes, stack, todo, dropped, stale>>

TreeNext == Parse \/ EndParse \/ Compile \/ Optimise \/ FreeProgram

TreeSpec == TreeInit /\ [][TreeNext]_treeVars
-----------------------------------------------------------------------------
TreeTypeOK ==
  /\ nodes \in Seq([tag : Tags,
                    exprs : Seq(Ids), block : Seq(Ids), orelse : Seq(Ids)])
  /\ stack \in Seq([kind : {"block", "expression", "arguments", "parameters"}, ids : Seq(Ids)])
  /\ stage \in {"parse", "compile", "optimise", "released", "exited", "wild"}
  /\ todo \in Seq([kind : {"functions", "statements", "bound"}, ids : Seq(Ids)])
  /\ freed \in [Ids -> Nat]
  /\ dropped \subseteq Ids
  /\ stale \in BOOLEAN

\* A node that is neither freed nor unlinked has one pointer to it, from another
\* such node or from the parser's values, and these point to no other node: a
\* tree, of which nothing is lost.  This is of the parser and the optimiser: what
\* the compiler frees the tree still points to, and a program with such a node
\* ends in "wild" when free_program meets it.
Alive == {n \in Ids : freed[n] = 0 /\ n \notin dropped}

Held(holders, ids(_), n) ==
  UNION {{<<h, i>> : i \in {j \in DOMAIN ids(h) : ids(h)[j] = n}} : h \in holders}

IdsOf(i) == stack[i].ids

EachHeldOnce ==
  stage \in {"parse", "optimise"} =>
    /\ \A m \in Alive : ToSet(Parts(m)) \subseteq Alive
    /\ \A i \in DOMAIN stack : ToSet(stack[i].ids) \subseteq Alive
    /\ \A n \in Alive :
         Cardinality(Held(Alive, Parts, n)) + Cardinality(Held(DOMAIN stack, IdsOf, n)) = 1

\* The compiler reads nothing that has been freed.
ReadsLive == ~stale

\* What it frees itself is the value of each return it has compiled and the first
\* bound of each for, whatever blocks and functions they are in.
CompiledStatements ==
  LET From[n \in Ids] ==
        IF nodes[n].tag = "function" THEN {}
        ELSE {n} \cup UNION {From[k] : k \in ToSet(nodes[n].block \o nodes[n].orelse)}
      bodies == UNION {ToSet(nodes[n].block) : n \in ToSet(Leading)}
  IN  UNION {From[n] : n \in bodies \cup ToSet(Program)}

GivenAway ==
  UNION {IF nodes[n].tag = "for" THEN TreeOf[nodes[nodes[n].exprs[1]].exprs[1]]
         ELSE IF nodes[n].tag = "return" /\ nodes[nodes[n].exprs[1]].tag # "LOOP"
              THEN TreeOf[nodes[n].exprs[1]] ELSE {} : n \in CompiledStatements}

\* The compiler frees no node twice, whatever it is part of, and by the end of the
\* program nothing but what returns and fors give away; and a program that
\* free_program gets through has freed every node once, but for what
\* simplify_if_statement has unlinked.  It does not get through one in which the
\* compiler has freed what the tree still points to: FreeProgram ends in "wild".
FreedOnce ==
  /\ stage = "compile" => \A n \in Ids : freed[n] <= 1
  /\ stage = "compile" /\ todo = <<>> => \A n \in Ids : freed[n] = 1 => n \in GivenAway
  /\ stage = "released" => \A n \in Ids : freed[n] = IF n \in dropped THEN 0 ELSE 1
=============================================================================
