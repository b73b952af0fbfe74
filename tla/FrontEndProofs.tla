-------------------------- MODULE FrontEndProofs ----------------------------
(***************************************************************************)
(* The front of the compiler, its lexer and the tree that the parser makes.*)
(*                                                                         *)
(* The indentation stack for every size of the stack, every set of         *)
(* indentations and every number of lines: the open levels increase, the   *)
(* stack is never popped empty, and a line that leaves at most one block   *)
(* does what the layout says.                                              *)
(*                                                                         *)
(* The syntax tree for every program: a node has one pointer to it,        *)
(* nothing freed is read, and every node is freed once.                    *)
(***************************************************************************)
EXTENDS Indentation, SyntaxTree, SharedProofs

\* The last element of a sequence moved from its front to its end.
LEMMA FrontLevels ==
  ASSUME NEW s \in Seq(Nat), s # <<>>, NEW n \in Nat
  PROVE  /\ Front(s) \in Seq(Nat)
         /\ Len(Front(s)) = Len(s) - 1
         /\ Last(s) \in Nat
         /\ Append(Front(s), Last(s)) = SubSeq(Append(s, n), 1, Len(s))
<1>1. /\ Len(s) \in Nat \ {0}
      /\ \A i \in 1..Len(s) : s[i] \in Nat
      /\ \A i \in 1..Len(s) : Append(s, n)[i] = s[i]
  OBVIOUS
<1>2. /\ Front(s) \in Seq(Nat)
      /\ Len(Front(s)) = Len(s) - 1
      /\ \A i \in 1..Len(s)-1 : Front(s)[i] = s[i]
  <2>. DEFINE m == Len(s) - 1
  <2>1. m \in Nat /\ \A i \in 1..m : s[i] \in Nat
    BY <1>1
  <2>. HIDE DEF m
  <2>2. /\ SubSeq(s, 1, m) \in Seq(Nat)
        /\ Len(SubSeq(s, 1, m)) = m
        /\ \A i \in 1..m : SubSeq(s, 1, m)[i] = s[i]
    BY <2>1, SubSeqProperties
  <2>. QED
    BY <2>2 DEF Front, m
<1>3. Last(s) = s[Len(s)] /\ Last(s) \in Nat
  BY <1>1 DEF Last
<1>4. /\ SubSeq(Append(s, n), 1, Len(s)) \in Seq(Nat)
      /\ Len(SubSeq(Append(s, n), 1, Len(s))) = Len(s)
      /\ \A i \in 1..Len(s) : SubSeq(Append(s, n), 1, Len(s))[i] = s[i]
  BY <1>1, SubSeqProperties
<1>5. /\ Append(Front(s), Last(s)) \in Seq(Nat)
      /\ Len(Append(Front(s), Last(s))) = Len(s)
      /\ \A i \in 1..Len(s) : Append(Front(s), Last(s))[i] = s[i]
  BY <1>1, <1>2, <1>3
<1>6. Append(Front(s), Last(s)) = SubSeq(Append(s, n), 1, Len(s))
  BY <1>4, <1>5
<1>. QED
  BY <1>2, <1>3, <1>6

\* The open levels after a level is pushed and after one is popped.
LEMMA LevelsPushed ==
  ASSUME TypeOK, LevelsIncrease, NEW n \in Nat, n > current_indent, Push(n)
  PROVE  OpenLevels' = Append(OpenLevels, n)
  BY DEF OpenLevels, Push, TypeOK

LEMMA LevelsPopped ==
  ASSUME TypeOK, Pop
  PROVE  /\ OpenLevels' = SubSeq(OpenLevels, 1, indent_top)
         /\ indent_stack' \in Seq(Nat)
         /\ indent_top' = indent_top - 1
         /\ current_indent' \in Nat
<1>1. /\ indent_stack \in Seq(Nat) /\ indent_stack # <<>>
      /\ current_indent \in Nat
      /\ indent_stack' = Front(indent_stack)
      /\ current_indent' = Last(indent_stack)
  BY DEF Pop, TypeOK, indent_top
<1>. QED
  BY <1>1, FrontLevels DEF OpenLevels, indent_top

\* The open levels are a sequence of numbers that ends with the current one.
LEMMA LevelsAre ==
  ASSUME TypeOK
  PROVE  /\ OpenLevels \in Seq(Nat)
         /\ Len(OpenLevels) = indent_top + 1
         /\ indent_top \in Nat
         /\ OpenLevels[indent_top + 1] = current_indent
         /\ \A i \in 1..indent_top : OpenLevels[i] = indent_stack[i]
  BY DEF TypeOK, OpenLevels, indent_top

LEMMA InitInvariant == Init => IInv
  BY IndentAssumption
     DEF Init, IInv, TypeOK, LevelsIncrease, BlocksAreLevels, PopNeverFails, OpenLevels,
         indent_top

LEMMA NextInvariant == IInv /\ [Next]_vars => IInv'
<1>. SUFFICES ASSUME IInv, [Next]_vars PROVE IInv'
  OBVIOUS
<1>1. TypeOK /\ LevelsIncrease /\ BlocksAreLevels
  BY DEF IInv
<1>2. /\ OpenLevels \in Seq(Nat)
      /\ Len(OpenLevels) = indent_top + 1
      /\ indent_top \in Nat
      /\ OpenLevels[indent_top + 1] = current_indent
  BY <1>1, LevelsAre
<1>3. TypeOK' /\ LevelsIncrease' /\ BlocksAreLevels'
  <2>1. ASSUME NEW n \in Indents, NewLine(n), n > current_indent, Push(n)
        PROVE  TypeOK' /\ LevelsIncrease' /\ BlocksAreLevels'
    <3>1. n \in Nat
      BY IndentAssumption
    <3>2. OpenLevels' = Append(OpenLevels, n)
      BY <1>1, <2>1, <3>1, LevelsPushed
    <3>3. TypeOK' /\ BlocksAreLevels'
      BY <1>1, <2>1, <3>1, IndentAssumption
         DEF TypeOK, BlocksAreLevels, Push, NewLine, indent_top
    <3>4. LevelsIncrease'
      BY <1>1, <1>2, <2>1, <3>1, <3>2 DEF LevelsIncrease
    <3>. QED
      BY <3>3, <3>4
  <2>2. ASSUME NEW n \in Indents, NewLine(n), n < current_indent, Pop
        PROVE  TypeOK' /\ LevelsIncrease' /\ BlocksAreLevels'
    <3>1. n \in Nat
      BY IndentAssumption
    <3>2. /\ OpenLevels' = SubSeq(OpenLevels, 1, indent_top)
          /\ indent_stack' \in Seq(Nat)
          /\ indent_top' = indent_top - 1
          /\ current_indent' \in Nat
      BY <1>1, <2>2, LevelsPopped
    <3>3. indent_top > 0
      BY <2>2 DEF Pop
    <3>4. TypeOK' /\ BlocksAreLevels'
      BY <1>1, <1>2, <2>2, <3>1, <3>2, <3>3, IndentAssumption
         DEF TypeOK, BlocksAreLevels, Pop, NewLine
    <3>5. LevelsIncrease'
      BY <1>1, <1>2, <3>2, <3>3 DEF LevelsIncrease
    <3>. QED
      BY <3>4, <3>5
  <2>3. ASSUME NEW n \in Indents, NewLine(n), UNCHANGED <<indent_stack, current_indent>>,
               UNCHANGED blocks, token' \in {"none", token}, phase' \in {phase, "failed"}
        PROVE  TypeOK' /\ LevelsIncrease' /\ BlocksAreLevels'
    BY <1>1, <2>3, IndentAssumption
       DEF TypeOK, LevelsIncrease, BlocksAreLevels, OpenLevels, indent_top, NewLine
  <2>4. CASE EndOfFile
    BY <1>1, <2>4
       DEF TypeOK, LevelsIncrease, BlocksAreLevels, OpenLevels, indent_top, EndOfFile
  <2>5. CASE UNCHANGED vars
    BY <1>1, <2>5
       DEF TypeOK, LevelsIncrease, BlocksAreLevels, OpenLevels, indent_top, vars
  <2>. QED
    BY <2>1, <2>2, <2>3, <2>4, <2>5 DEF Next, NewLine, PushFails
<1>4. PopNeverFails'
  <2>1. /\ OpenLevels'[1] = 0
        /\ indent_top' \in Nat
        /\ OpenLevels'[indent_top' + 1] = current_indent'
    <3>1. TypeOK' => /\ indent_top' \in Nat
                     /\ OpenLevels'[indent_top' + 1] = current_indent'
      BY DEF TypeOK, OpenLevels, indent_top
    <3>. QED
      BY <1>3, <3>1 DEF LevelsIncrease
  <2>. QED
    BY <2>1, IndentAssumption DEF PopNeverFails
<1>. QED
  BY <1>3, <1>4 DEF IInv

\* In every reachable state the open levels increase from 0, the parser has as
\* many blocks open as there are levels on the stack, and pop_indent finds one.
THEOREM LevelsSound == Spec => []IInv
  BY InitInvariant, NextInvariant, PTL DEF Spec

\* push_indent never writes past indent_stack (lexer.l).
THEOREM TypeCorrect == Spec => []TypeOK
<1>1. IInv => TypeOK
  BY DEF IInv
<1>. QED
  BY <1>1, LevelsSound, PTL

\* The exit of pop_indent is never taken (lexer.l).
THEOREM PopsFind == Spec => []PopNeverFails
<1>1. IInv => PopNeverFails
  BY DEF IInv
<1>. QED
  BY <1>1, LevelsSound, PTL

\* A file that ends inside a block is not accepted (parser.y, block).
THEOREM OnlyAtMargin == Spec => []AcceptedAtMargin
<1>. DEFINE Verdict == phase = "accepted" => blocks = 0
<1>1. Init => Verdict
  BY DEF Init
<1>2. Verdict /\ [Next]_vars => Verdict'
  BY DEF Next, NewLine, Push, PushFails, Pop, EndOfFile, vars
<1>3. IInv /\ Verdict => AcceptedAtMargin
  <2>. SUFFICES ASSUME IInv, Verdict PROVE AcceptedAtMargin
    OBVIOUS
  <2>1. /\ indent_top \in Nat
        /\ OpenLevels[indent_top + 1] = current_indent
        /\ OpenLevels[1] = 0
    BY LevelsAre DEF IInv, LevelsIncrease
  <2>. QED
    BY <2>1 DEF AcceptedAtMargin, IInv, BlocksAreLevels
<1>. QED
  BY <1>1, <1>2, <1>3, LevelsSound, PTL DEF Spec

\* From any reachable state: a line closes no block that its level is in, or
\* that is around it (lexer.l, DEDENT).
THEOREM EnclosingStays == Spec => EnclosingKept
<1>. DEFINE Kept == \A k \in DOMAIN OpenLevels :
                     new_indent' = OpenLevels[k] => k \in DOMAIN OpenLevels'
<1>1. IInv /\ [Next]_vars => [Kept]_vars
  <2>. SUFFICES ASSUME IInv, [Next]_vars, vars' # vars PROVE Kept
    OBVIOUS
  <2>1. /\ TypeOK
        /\ LevelsIncrease
        /\ OpenLevels \in Seq(Nat)
        /\ Len(OpenLevels) = indent_top + 1
        /\ indent_top \in Nat
        /\ OpenLevels[indent_top + 1] = current_indent
    BY LevelsAre DEF IInv
  <2>2. ASSUME NEW n \in Indents, n > current_indent, Push(n)
        PROVE  Kept
    <3>1. OpenLevels' = Append(OpenLevels, n)
      BY <2>1, <2>2, LevelsPushed, IndentAssumption
    <3>. QED
      BY <2>1, <3>1, IndentAssumption
  <2>3. ASSUME NEW n \in Indents, new_indent' = n, n < current_indent, Pop
        PROVE  Kept
    <3>1. OpenLevels' = SubSeq(OpenLevels, 1, indent_top)
      BY <2>1, <2>3, LevelsPopped
    <3>2. new_indent' # OpenLevels[indent_top + 1]
      BY <2>1, <2>3, IndentAssumption
    <3>3. DOMAIN OpenLevels' = 1..indent_top
      BY <2>1, <3>1
    <3>. QED
      BY <2>1, <3>2, <3>3
  <2>4. CASE UNCHANGED <<indent_stack, current_indent>>
    BY <2>4 DEF OpenLevels
  <2>. QED
    BY <2>2, <2>3, <2>4 DEF Next, NewLine, PushFails, EndOfFile, vars
<1>. QED
  BY <1>1, LevelsSound, PTL DEF Spec, EnclosingKept

\* From any reachable state, a line that leaves at most one block takes the
\* step that the layout takes.
THEOREM GradualRefines == Spec => GradualLinesFollowLayout
<1>. DEFINE Follows == /\ lines' # lines
                       /\ Gradual(new_indent')
                       /\ phase' = "lexing"
                       => Abstract!Line(new_indent')
<1>1. IInv /\ [Next]_vars => [Follows]_vars
  <2>. SUFFICES ASSUME IInv, Next, lines' # lines, Gradual(new_indent'), phase' = "lexing"
                PROVE  Abstract!Line(new_indent')
    BY DEF vars
  <2>1. /\ TypeOK
        /\ LevelsIncrease
        /\ OpenLevels \in Seq(Nat)
        /\ Len(OpenLevels) = indent_top + 1
        /\ indent_top \in Nat
        /\ OpenLevels[indent_top + 1] = current_indent
        /\ \A i \in 1..indent_top : OpenLevels[i] = indent_stack[i]
    BY LevelsAre DEF IInv
  <2>2. ASSUME NEW n \in Indents, new_indent' = n, n > current_indent, Push(n)
        PROVE  Abstract!Line(new_indent')
    <3>1. OpenLevels' = Append(OpenLevels, n)
      BY <2>1, <2>2, LevelsPushed, IndentAssumption
    <3>. QED
      BY <2>1, <2>2, <3>1 DEF Abstract!Line, Abstract!Opens, Abstract!Innermost
  <2>3. ASSUME NEW n \in Indents, new_indent' = n, n < current_indent, Pop
        PROVE  Abstract!Line(new_indent')
    <3>1. OpenLevels' = SubSeq(OpenLevels, 1, indent_top)
      BY <2>1, <2>3, LevelsPopped
    <3>2. indent_top > 0 /\ n = Last(indent_stack)
      BY <2>1, <2>3, IndentAssumption DEF Gradual, TypeOK
    <3>3. indent_top \in DOMAIN OpenLevels /\ OpenLevels[indent_top] = n
      BY <2>1, <3>2 DEF Last, indent_top
    <3>. QED
      BY <2>3, <3>1, <3>3 DEF Abstract!Line, Abstract!Stays
  <2>4. ASSUME NEW n \in Indents, new_indent' = n, n = current_indent,
               UNCHANGED <<indent_stack, current_indent>>
        PROVE  Abstract!Line(new_indent')
    <3>1. OpenLevels' = OpenLevels
      BY <2>4 DEF OpenLevels
    <3>2. SubSeq(OpenLevels, 1, indent_top + 1) = OpenLevels
      BY <2>1
    <3>. QED
      BY <2>1, <2>4, <3>1, <3>2 DEF Abstract!Line, Abstract!Stays
  <2>. QED
    BY <2>2, <2>3, <2>4 DEF Next, NewLine, PushFails, EndOfFile
<1>. QED
  BY <1>1, LevelsSound, PTL DEF Spec, GradualLinesFollowLayout

-----------------------------------------------------------------------------
(* The syntax tree: who holds a node, and what is left of it.               *)

\* What has a node: a live node (itself) or a value of the parser (its place, below 0).
Live == IF stage = "compile" THEN Ids ELSE Alive
Holders == Live \cup {0 - i : i \in DOMAIN stack}
List(h) == IF h > 0 THEN Parts(h) ELSE stack[0 - h].ids

\* Each node has one holder, once.
HeldInv == stage \in {"parse", "optimise", "compile"} =>
  /\ \A h \in Holders : ToSet(List(h)) \subseteq Live /\ IsInjective(List(h))
  /\ \A h, g \in Holders : h # g => ToSet(List(h)) \cap ToSet(List(g)) = {}
  /\ \A n \in Live : \E h \in Holders : n \in ToSet(List(h))

\* Expressions, parameters and statements.
ExpressionIds == {n \in Ids : nodes[n].tag \in ExpressionTags}
ParameterIds == {n \in Ids : nodes[n].tag = "parameter"}
StatementIds == {n \in Ids : nodes[n].tag \notin ExpressionTags \cup {"parameter"}}

\* What is where.
Tagged(n) ==
  /\ \A k \in ToSet(Parts(n)) : k < n
  /\ ToSet(nodes[n].exprs) \subseteq IF nodes[n].tag = "function" THEN ParameterIds
                                     ELSE ExpressionIds
  /\ ToSet(nodes[n].block) \cup ToSet(nodes[n].orelse) \subseteq StatementIds
  /\ nodes[n].block # <<>> => nodes[n].tag \in {"if", "while", "for", "function"}
  /\ nodes[n].orelse # <<>> => nodes[n].tag = "if"
  /\ nodes[n].tag \in {"assignment", "return", "if", "while", "for"} => Len(nodes[n].exprs) <= 1
  /\ nodes[n].tag \in {"assignment", "while", "for"} => nodes[n].exprs # <<>>
  /\ nodes[n].tag \in Atoms => nodes[n].exprs = <<>>
  /\ stage \in {"parse", "compile"} /\ nodes[n].tag = "if" => nodes[n].exprs # <<>>

\* What the values of the parser have.
Valued(v) ==
  /\ v.kind = "expression" => Len(v.ids) = 1 /\ ToSet(v.ids) \subseteq ExpressionIds
  /\ v.kind = "arguments" => ToSet(v.ids) \subseteq ExpressionIds
  /\ v.kind = "parameters" => ToSet(v.ids) \subseteq ParameterIds
  /\ v.kind = "block" => ToSet(v.ids) \subseteq StatementIds

\* Both, for all.
TagInv == /\ \A n \in Ids : Tagged(n)
          /\ \A i \in DOMAIN stack : Valued(stack[i])

\* What is left to compile.
ItemInv == \A i \in DOMAIN todo :
  /\ todo[i].ids # <<>>
  /\ todo[i].kind = "functions" => \A n \in ToSet(todo[i].ids) : nodes[n].tag = "function"
  /\ todo[i].kind = "statements" => ToSet(todo[i].ids) \subseteq StatementIds
  /\ todo[i].kind = "bound" => Len(todo[i].ids) = 1 /\ ToSet(todo[i].ids) \subseteq ExpressionIds

\* Where the program is.
StageInv ==
  /\ stage \in {"parse", "compile"} => dropped = {}
  /\ stage = "parse" => todo = <<>> /\ \A n \in Ids : freed[n] = 0
  /\ stage \in {"compile", "optimise"} => Len(stack) = 1 /\ stack[1].kind = "block"
  /\ stage = "compile" => ItemInv
  /\ stage = "optimise" => \A n \in Ids : freed[n] \in {0, 1} /\ (n \in dropped => freed[n] = 0)

\* The statements of a statement that the compiler compiles, those of a function not.
Under[n \in Ids] ==
  IF nodes[n].tag = "function" THEN {}
  ELSE {n} \cup UNION {Under[k] : k \in ToSet(nodes[n].block \o nodes[n].orelse)}

\* What is left to compile is made of these: the statements still to be compiled, and
\* the bound that a for has given away and frees at its end.
Load(kind, n) ==
  IF kind = "statements" THEN Under[n]
  ELSE IF kind = "functions" THEN UNION {Under[k] : k \in ToSet(nodes[n].block)}
  ELSE TreeOf[n]

\* The load of an item, and that no node is in it twice.
ItemLoad(v) == UNION {Load(v.kind, n) : n \in ToSet(v.ids)}
ItemApart(v) == \A j, l \in DOMAIN v.ids :
  j # l => Load(v.kind, v.ids[j]) \cap Load(v.kind, v.ids[l]) = {}

\* The same of all items.
Loads(s) == UNION {ItemLoad(s[i]) : i \in DOMAIN s}
LoadsApart(s) ==
  /\ \A i \in DOMAIN s : ItemApart(s[i])
  /\ \A i, k \in DOMAIN s : i # k => ItemLoad(s[i]) \cap ItemLoad(s[k]) = {}

\* The nodes that a statement gives away, and where they are.
Given(n) ==
  IF nodes[n].tag = "for" THEN TreeOf[nodes[nodes[n].exprs[1]].exprs[1]]
  ELSE IF nodes[n].tag = "return" /\ nodes[nodes[n].exprs[1]].tag # "LOOP"
       THEN TreeOf[nodes[n].exprs[1]] ELSE {}

\* The compiler has found what it follows.
Sound(n) ==
  /\ nodes[n].tag = "return" => nodes[n].exprs # <<>>
  /\ nodes[n].tag = "for" => nodes[nodes[n].exprs[1]].exprs # <<>>

\* What has been compiled.
Done == CompiledStatements \ Loads(todo)
GivenBy(set) == UNION {Given(s) : s \in set}

\* While the compiler runs: each statement is compiled or left, once; what is left
\* besides is a bound; and freed is what has been given away, once, but for these.
CompileInv == stage = "compile" =>
  /\ LoadsApart(todo)
  /\ Loads(todo) \subseteq CompiledStatements \cup GivenBy(Done)
  /\ \A s \in Done : Sound(s)
  /\ \A n \in Ids : freed[n] = IF n \in GivenBy(Done) \ Loads(todo) THEN 1 ELSE 0

\* At the end everything is freed but what has been unlinked.
ReleasedInv == stage = "released" => \A n \in Ids : freed[n] = IF n \in dropped THEN 0 ELSE 1

\* The first inductive invariant,
TreeInv == TreeTypeOK /\ HeldInv /\ TagInv /\ StageInv

\* and the second, which rests on it.
KeptInv == CompileInv /\ ReleasedInv /\ stale = FALSE

-----------------------------------------------------------------------------
(* Lists of nodes. *)

\* What a list of both has.
LEMMA Joined ==
  ASSUME NEW s \in Seq(Nat), NEW t \in Seq(Nat)
  PROVE  /\ s \o t \in Seq(Nat)
         /\ Len(s \o t) = Len(s) + Len(t)
         /\ ToSet(s \o t) = ToSet(s) \cup ToSet(t)
         /\ IsInjective(s) /\ IsInjective(t) /\ ToSet(s) \cap ToSet(t) = {} => IsInjective(s \o t)
<1>. DEFINE u == s \o t
<1>1. /\ u \in Seq(Nat) /\ Len(u) = Len(s) + Len(t) /\ Len(s) \in Nat /\ Len(t) \in Nat
      /\ DOMAIN s = 1 .. Len(s) /\ DOMAIN t = 1 .. Len(t) /\ DOMAIN u = 1 .. Len(u)
      /\ \A i \in 1 .. Len(u) : u[i] = IF i <= Len(s) THEN s[i] ELSE t[i - Len(s)]
  BY ConcatProperties
<1>. HIDE DEF u
<1>2. ASSUME NEW i \in 1 .. Len(s) PROVE i \in 1 .. Len(u) /\ u[i] = s[i]
  BY <1>1
<1>3. ASSUME NEW i \in 1 .. Len(t) PROVE i + Len(s) \in 1 .. Len(u) /\ u[i + Len(s)] = t[i]
  <2>1. /\ i + Len(s) \in 1 .. Len(u) /\ ~(i + Len(s) <= Len(s)) /\ (i + Len(s)) - Len(s) = i
    BY <1>1
  <2>. QED
    BY <1>1, <2>1
<1>4. ASSUME NEW i \in 1 .. Len(u)
      PROVE  \/ i \in 1 .. Len(s) /\ u[i] = s[i]
             \/ i - Len(s) \in 1 .. Len(t) /\ ~(i <= Len(s)) /\ u[i] = t[i - Len(s)]
  <2>1. i \in 1 .. Len(s) \/ (i - Len(s) \in 1 .. Len(t) /\ ~(i <= Len(s)))
    BY <1>1
  <2>2. i \in 1 .. Len(s) => i <= Len(s)
    BY <1>1
  <2>. QED
    BY <1>1, <2>1, <2>2
<1>5. ToSet(u) = ToSet(s) \cup ToSet(t)
  <2>1. ASSUME NEW x \in ToSet(u) PROVE x \in ToSet(s) \cup ToSet(t)
    <3>1. PICK i \in 1 .. Len(u) : x = u[i]
      BY <1>1 DEF ToSet
    <3>. QED
      BY <1>1, <1>4, <3>1 DEF ToSet
  <2>2. ASSUME NEW x \in ToSet(s) PROVE x \in ToSet(u)
    <3>1. PICK i \in 1 .. Len(s) : x = s[i]
      BY <1>1 DEF ToSet
    <3>. QED
      BY <1>1, <1>2, <3>1 DEF ToSet
  <2>3. ASSUME NEW x \in ToSet(t) PROVE x \in ToSet(u)
    <3>1. PICK i \in 1 .. Len(t) : x = t[i]
      BY <1>1 DEF ToSet
    <3>2. i + Len(s) \in 1 .. Len(u) /\ u[i + Len(s)] = x
      BY <1>3, <3>1
    <3>. QED
      BY <1>1, <3>2 DEF ToSet
  <2>. QED
    BY <2>1, <2>2, <2>3
<1>6. ASSUME IsInjective(s), IsInjective(t), ToSet(s) \cap ToSet(t) = {} PROVE IsInjective(u)
  <2>1. ASSUME NEW i \in 1 .. Len(s), NEW j \in 1 .. Len(t) PROVE s[i] # t[j]
    BY <1>1, <1>6 DEF ToSet
  <2>2. ASSUME NEW i \in 1 .. Len(u), NEW j \in 1 .. Len(u), u[i] = u[j] PROVE i = j
    <3>1. CASE i \in 1 .. Len(s) /\ u[i] = s[i] /\ j \in 1 .. Len(s) /\ u[j] = s[j]
      BY <1>1, <1>6, <2>2, <3>1 DEF IsInjective
    <3>2. CASE /\ i - Len(s) \in 1 .. Len(t) /\ u[i] = t[i - Len(s)]
               /\ j - Len(s) \in 1 .. Len(t) /\ u[j] = t[j - Len(s)]
      <4>1. i - Len(s) = j - Len(s)
        BY <1>1, <1>6, <2>2, <3>2 DEF IsInjective
      <4>. QED
        BY <1>1, <4>1
    <3>. QED
      BY <1>4, <2>1, <2>2, <3>1, <3>2
  <2>. QED
    BY <1>1, <2>2 DEF IsInjective
<1>. QED
  BY <1>1, <1>5, <1>6 DEF u

\* Lists of nothing and of one.
LEMMA Short ==
  /\ <<>> \in Seq(Nat) /\ ToSet(<<>>) = {} /\ IsInjective(<<>>)
  /\ \A n \in Nat : <<n>> \in Seq(Nat) /\ ToSet(<<n>>) = {n} /\ IsInjective(<<n>>)
<1>1. DOMAIN <<>> = {} /\ <<>> \in Seq(Nat)
  OBVIOUS
<1>2. ASSUME NEW n \in Nat PROVE <<n>> \in Seq(Nat) /\ ToSet(<<n>>) = {n} /\ IsInjective(<<n>>)
  <2>1. <<n>> \in Seq(Nat) /\ DOMAIN <<n>> = {1} /\ <<n>>[1] = n
    OBVIOUS
  <2>. QED
    BY <2>1 DEF ToSet, IsInjective
<1>. QED
  BY <1>1, <1>2 DEF ToSet, IsInjective

\* A list of the members of a set.
LEMMA ListsOf ==
  ASSUME NEW S \in SUBSET Nat, NEW s
  PROVE  s \in Seq(S) <=> s \in Seq(Nat) /\ ToSet(s) \subseteq S
<1>1. ASSUME s \in Seq(S) PROVE s \in Seq(Nat) /\ ToSet(s) \subseteq S
  BY <1>1 DEF ToSet
<1>2. ASSUME s \in Seq(Nat), ToSet(s) \subseteq S PROVE s \in Seq(S)
  <2>1. DOMAIN s = 1 .. Len(s) /\ Len(s) \in Nat /\ s = [i \in 1 .. Len(s) |-> s[i]]
    BY <1>2
  <2>2. \A i \in 1 .. Len(s) : s[i] \in S
    BY <1>2, <2>1 DEF ToSet
  <2>. QED
    BY <2>1, <2>2, IsASeq
<1>. QED
  BY <1>1, <1>2

-----------------------------------------------------------------------------
(* Trees. *)

\* What a function of this form is, with what a place has of its own and the
\* places it passes on to, there is: the least of those that are not too small.
Solves(f, D, own, next) ==
  \A n \in D : \A x : x \in f[n] <=> x \in own[n] \/ \E k \in next[n] : x \in f[k]

\* There is such a function.
LEMMA Recursion ==
  ASSUME NEW D, NEW X, NEW own \in [D -> SUBSET X], NEW next \in [D -> SUBSET D]
  PROVE  \E f \in [D -> SUBSET X] : Solves(f, D, own, next)
<1>. DEFINE Step(g) == [n \in D |-> own[n] \cup UNION {g[k] : k \in next[n]}]
            Large == {g \in [D -> SUBSET X] : \A n \in D : Step(g)[n] \subseteq g[n]}
            f == [n \in D |-> {x \in X : \A g \in Large : x \in g[n]}]
<1>0. \A g, n, x : n \in D => (x \in Step(g)[n] <=> x \in own[n] \/ \E k \in next[n] : x \in g[k])
  <2>1. ASSUME NEW g, NEW n \in D PROVE Step(g)[n] = own[n] \cup UNION {g[k] : k \in next[n]}
    OBVIOUS
  <2>2. ASSUME NEW g, NEW n \in D, NEW x
        PROVE  x \in UNION {g[k] : k \in next[n]} <=> \E k \in next[n] : x \in g[k]
    OBVIOUS
  <2>. QED
    BY <2>1, <2>2
<1>1. /\ f \in [D -> SUBSET X]
      /\ \A n \in D : \A x : x \in f[n] <=> x \in X /\ \A g \in Large : x \in g[n]
  OBVIOUS
<1>2. /\ \A g : g \in Large <=> /\ g \in [D -> SUBSET X]
                               /\ \A n \in D : Step(g)[n] \subseteq g[n]
      /\ \A g : Step(g) = [n \in D |-> Step(g)[n]]
  OBVIOUS
<1>3. \A n \in D : next[n] \subseteq D /\ own[n] \subseteq X
  OBVIOUS
<1>. HIDE DEF Step, f, Large
<1>4. ASSUME NEW g \in Large, NEW n \in D PROVE f[n] \subseteq g[n]
  BY <1>1
<1>5. ASSUME NEW n \in D, NEW x \in Step(f)[n] PROVE x \in f[n]
  <2>1. x \in own[n] \/ \E k \in next[n] : x \in f[k]
    BY <1>0, <1>5
  <2>2. x \in X
    BY <1>1, <1>3, <2>1
  <2>3. ASSUME NEW g \in Large PROVE x \in g[n]
    <3>1. \A k \in next[n] : f[k] \subseteq g[k]
      BY <1>3, <1>4
    <3>2. x \in Step(g)[n]
      BY <1>0, <2>1, <3>1
    <3>. QED
      BY <1>2, <3>2
  <2>. QED
    BY <1>1, <2>2, <2>3
<1>6. Step(f) \in Large
  <2>1. \A n \in D : Step(f)[n] \in SUBSET X
    BY <1>1, <1>5
  <2>2. Step(f) \in [D -> SUBSET X]
    BY <1>2, <2>1
  <2>3. ASSUME NEW n \in D, NEW x \in Step(Step(f))[n] PROVE x \in Step(f)[n]
    <3>1. \A k \in next[n] : Step(f)[k] \subseteq f[k]
      BY <1>3, <1>5
    <3>. QED
      BY <1>0, <2>3, <3>1
  <2>. QED
    BY <1>2, <2>2, <2>3
<1>7. ASSUME NEW n \in D PROVE f[n] = Step(f)[n]
  BY <1>4, <1>5, <1>6
<1>. QED
  BY <1>0, <1>1, <1>7 DEF Solves

\* A set of numbers up to one has a greatest.
LEMMA Greatest ==
  ASSUME NEW m \in Nat, NEW S \in SUBSET (1..m), S # {}
  PROVE  \E r \in S : \A s \in S : s <= r
<1>. DEFINE T == {m - s : s \in S}
<1>1. T \in SUBSET Nat /\ T # {}
  <2>1. ASSUME NEW s \in S PROVE m - s \in Nat
    OBVIOUS
  <2>. QED
    BY <2>1
<1>2. PICK t \in T : \A u \in T : t <= u
  BY <1>1, Least
<1>3. PICK r \in S : t = m - r
  OBVIOUS
<1>4. ASSUME NEW s \in S PROVE s <= r
  <2>1. m - r <= m - s
    BY <1>2, <1>3
  <2>. QED
    BY <2>1
<1>. QED
  BY <1>4

\* The nodes point to nodes made before them.
Shaped == /\ Ids \subseteq Nat
          /\ \A n \in Ids : \A k \in ToSet(Parts(n)) : k \in Ids /\ k < n

\* A node's tree: the node and the trees of its parts.
LEMMA TreeIs ==
  ASSUME Shaped
  PROVE  \A n \in Ids : \A x : x \in TreeOf[n] <=> x = n \/ \E k \in ToSet(Parts(n)) : x \in TreeOf[k]
<1>. DEFINE own == [n \in Ids |-> {n}]
            next == [n \in Ids |-> ToSet(Parts(n))]
            Is(t) == t = [n \in Ids |-> {n} \cup UNION {t[k] : k \in ToSet(Parts(n))}]
            tree == CHOOSE t : Is(t)
<1>1. own \in [Ids -> SUBSET Ids] /\ next \in [Ids -> SUBSET Ids]
  BY DEF Shaped
<1>2. \A n \in Ids : own[n] = {n} /\ next[n] = ToSet(Parts(n))
  OBVIOUS
<1>3. PICK f \in [Ids -> SUBSET Ids] : Solves(f, Ids, own, next)
  <2>. HIDE DEF own, next
  <2>1. own \in [Ids -> SUBSET Ids]
    BY <1>1
  <2>2. next \in [Ids -> SUBSET Ids]
    BY <1>1
  <2>. HIDE DEF Is, tree
  <2>. QED
    BY <2>1, <2>2, Recursion
<1>4. Is(f)
  <2>1. ASSUME NEW n \in Ids PROVE f[n] = {n} \cup UNION {f[k] : k \in ToSet(Parts(n))}
    <3>1. \A x : x \in f[n] <=> x = n \/ \E k \in ToSet(Parts(n)) : x \in f[k]
      BY <1>2, <1>3 DEF Solves
    <3>. QED
      BY <3>1
  <2>2. f = [n \in Ids |-> f[n]]
    OBVIOUS
  <2>. QED
    BY <2>1, <2>2
<1>5. Is(tree)
  BY <1>4
<1>6. TreeOf = tree
  BY DEF TreeOf
<1>7. \A n \in Ids : TreeOf[n] = {n} \cup UNION {TreeOf[k] : k \in ToSet(Parts(n))}
  BY <1>5, <1>6
<1>. QED
  BY <1>7

\* What has the parts of its nodes has their trees.
LEMMA TreeWithin ==
  ASSUME Shaped, NEW S \in SUBSET Ids, \A n \in S : ToSet(Parts(n)) \subseteq S, NEW n \in S
  PROVE  TreeOf[n] \subseteq S
<1>. DEFINE Bad == {k \in S : ~(TreeOf[k] \subseteq S)}
<1>. SUFFICES ASSUME Bad # {} PROVE FALSE
  OBVIOUS
<1>1. Bad \in SUBSET Nat
  BY DEF Shaped
<1>2. PICK r \in Bad : \A s \in Bad : r <= s
  BY <1>1, Least
<1>3. ASSUME NEW k \in ToSet(Parts(r)) PROVE TreeOf[k] \subseteq S
  <2>1. k \in S /\ k < r /\ k \in Nat /\ r \in Nat
    BY DEF Shaped
  <2>2. ~(r <= k)
    BY <2>1
  <2>. QED
    BY <1>2, <2>1, <2>2
<1>4. TreeOf[r] \subseteq S
  BY <1>3, TreeIs
<1>. QED
  BY <1>4

\* What a tree has: its node, nothing above it, and with a node its parts and its tree;
\* and each of its nodes but the first is a part of another.
LEMMA TreeHas ==
  ASSUME Shaped, NEW n \in Ids
  PROVE  /\ TreeOf[n] \subseteq Ids /\ n \in TreeOf[n]
         /\ \A x \in TreeOf[n] : x <= n
         /\ \A x \in TreeOf[n] : ToSet(Parts(x)) \subseteq TreeOf[n]
         /\ \A x \in TreeOf[n] : TreeOf[x] \subseteq TreeOf[n]
         /\ \A x \in TreeOf[n] : x # n => \E q \in TreeOf[n] : x \in ToSet(Parts(q))
<1>1. n \in TreeOf[n]
  BY TreeIs
<1>2. TreeOf[n] \subseteq {k \in Ids : k <= n}
  <2>. DEFINE S == {k \in Ids : k <= n}
  <2>1. S \subseteq Ids /\ n \in S
    BY DEF Shaped
  <2>2. ASSUME NEW m \in S, NEW k \in ToSet(Parts(m)) PROVE k \in S
    <3>1. k \in Ids /\ k < m /\ m <= n /\ k \in Nat /\ m \in Nat /\ n \in Nat
      BY DEF Shaped
    <3>. QED
      BY <3>1
  <2>. HIDE DEF S
  <2>3. TreeOf[n] \subseteq S
    BY <2>1, <2>2, TreeWithin
  <2>. QED
    BY <2>3 DEF S
<1>. DEFINE Closed(m) == \A x \in TreeOf[m] : ToSet(Parts(x)) \subseteq TreeOf[m]
            Linked(m) == \A x \in TreeOf[m] : x # m => \E q \in TreeOf[m] : x \in ToSet(Parts(q))
            Bad == {m \in Ids : ~(Closed(m) /\ Linked(m))}
<1>3. Bad = {}
  <2>. SUFFICES ASSUME Bad # {} PROVE FALSE
    OBVIOUS
  <2>1. Bad \in SUBSET Nat
    BY DEF Shaped
  <2>2. PICK r \in Bad : \A s \in Bad : r <= s
    BY <2>1, Least
  <2>3. r \in Ids /\ ~(Closed(r) /\ Linked(r))
    OBVIOUS
  <2>4. ASSUME NEW k \in ToSet(Parts(r))
        PROVE  k \in Ids /\ Closed(k) /\ Linked(k) /\ TreeOf[k] \subseteq TreeOf[r] /\ k \in TreeOf[k]
    <3>1. k \in Ids /\ k < r /\ k \in Nat /\ r \in Nat
      BY <2>3 DEF Shaped
    <3>2. k \notin Bad
      BY <2>2, <3>1
    <3>3. Closed(k) /\ Linked(k)
      BY <3>1, <3>2
    <3>. HIDE DEF Closed, Linked
    <3>. QED
      BY <2>3, <3>1, <3>3, TreeIs
  <2>5. r \in TreeOf[r]
    BY <2>3, TreeIs
  <2>6. ASSUME NEW x \in TreeOf[r]
        PROVE  /\ ToSet(Parts(x)) \subseteq TreeOf[r]
               /\ x # r => \E q \in TreeOf[r] : x \in ToSet(Parts(q))
    <3>1. CASE x = r
      BY <2>4, <3>1
    <3>2. CASE x # r
      <4>1. PICK k \in ToSet(Parts(r)) : x \in TreeOf[k]
        BY <2>3, <3>2, TreeIs
      <4>2. ToSet(Parts(x)) \subseteq TreeOf[r]
        BY <2>4, <4>1
      <4>3. CASE x = k
        BY <2>5, <4>2, <4>3
      <4>4. CASE x # k
        BY <2>4, <4>1, <4>2, <4>4
      <4>. QED
        BY <4>3, <4>4
    <3>. QED
      BY <3>1, <3>2
  <2>. QED
    BY <2>3, <2>6
<1>4. Closed(n) /\ Linked(n)
  BY <1>3
<1>5. ASSUME NEW x \in TreeOf[n] PROVE TreeOf[x] \subseteq TreeOf[n]
  <2>1. TreeOf[n] \subseteq Ids
    BY <1>2
  <2>. QED
    BY <1>4, <2>1, TreeWithin
<1>. QED
  BY <1>1, <1>2, <1>4, <1>5

-----------------------------------------------------------------------------
(* What the types say. *)

\* A function of the numbers up to one is a sequence.
LEMMA SeqFrom ==
  ASSUME NEW m \in Nat, NEW s, s = [i \in 1..m |-> s[i]], NEW S, \A i \in 1..m : s[i] \in S
  PROVE  s \in Seq(S) /\ Len(s) = m /\ DOMAIN s = 1..m
<1>1. s \in [1..m -> S]
  OBVIOUS
<1>2. s \in Seq(S) /\ DOMAIN s = 1..m
  BY <1>1
<1>. QED
  BY <1>2

\* What a sequence is.
LEMMA SeqIs ==
  ASSUME NEW s, NEW S
  PROVE  s \in Seq(S) <=> /\ Len(s) \in Nat /\ DOMAIN s = 1 .. Len(s)
                          /\ s = [i \in 1 .. Len(s) |-> s[i]] /\ \A i \in DOMAIN s : s[i] \in S
<1>1. ASSUME s \in Seq(S)
      PROVE  /\ Len(s) \in Nat /\ DOMAIN s = 1 .. Len(s)
             /\ s = [i \in 1 .. Len(s) |-> s[i]] /\ \A i \in DOMAIN s : s[i] \in S
  BY <1>1
<1>2. ASSUME Len(s) \in Nat, DOMAIN s = 1 .. Len(s),
             s = [i \in 1 .. Len(s) |-> s[i]], \A i \in DOMAIN s : s[i] \in S
      PROVE  s \in Seq(S)
  <2>1. PICK m \in Nat : m = Len(s)
    BY <1>2
  <2>. QED
    BY <1>2, <2>1, SeqFrom
<1>. QED
  BY <1>1, <1>2

\* The lists of a node, as in Parts.
Lists(d) == d.exprs \o d.block \o d.orelse

\* A node of lists of nodes.
IsNode(d) == /\ d = [tag |-> d.tag, exprs |-> d.exprs, block |-> d.block, orelse |-> d.orelse]
             /\ d.tag \in Tags /\ d.exprs \in Seq(Nat) /\ d.block \in Seq(Nat) /\ d.orelse \in Seq(Nat)

\* What is in the lists of a node.
LEMMA NodeLists ==
  ASSUME NEW d, IsNode(d)
  PROVE  /\ Lists(d) \in Seq(Nat)
         /\ ToSet(Lists(d)) = ToSet(d.exprs) \cup ToSet(d.block) \cup ToSet(d.orelse)
<1>1. d.exprs \o d.block \in Seq(Nat) /\ ToSet(d.exprs \o d.block) = ToSet(d.exprs) \cup ToSet(d.block)
  BY Joined DEF IsNode
<1>2. d.orelse \in Seq(Nat)
  BY DEF IsNode
<1>. DEFINE s == d.exprs \o d.block
            t == d.orelse
<1>3. s \in Seq(Nat) /\ t \in Seq(Nat) /\ ToSet(s) = ToSet(d.exprs) \cup ToSet(d.block)
  BY <1>1, <1>2
<1>4. Lists(d) = s \o t /\ ToSet(t) = ToSet(d.orelse)
  BY DEF Lists
<1>. HIDE DEF s, t
<1>. QED
  BY <1>3, <1>4, Joined

\* The types in other words.
Typed ==
  /\ nodes \in Seq({nodes[n] : n \in Ids}) /\ \A n \in Ids : IsNode(nodes[n]) /\ ToSet(Parts(n)) \subseteq Ids
  /\ Len(stack) \in Nat /\ DOMAIN stack = 1 .. Len(stack) /\ stack = [i \in 1 .. Len(stack) |-> stack[i]]
  /\ \A i \in DOMAIN stack :
       /\ stack[i] = Item(stack[i].kind, stack[i].ids)
       /\ stack[i].kind \in {"block", "expression", "arguments", "parameters"}
       /\ stack[i].ids \in Seq(Nat) /\ ToSet(stack[i].ids) \subseteq Ids
  /\ stage \in {"parse", "compile", "optimise", "released", "exited", "wild"}
  /\ Len(todo) \in Nat /\ DOMAIN todo = 1 .. Len(todo) /\ todo = [i \in 1 .. Len(todo) |-> todo[i]]
  /\ \A i \in DOMAIN todo :
       /\ todo[i] = Item(todo[i].kind, todo[i].ids)
       /\ todo[i].kind \in {"functions", "statements", "bound"}
       /\ todo[i].ids \in Seq(Nat) /\ ToSet(todo[i].ids) \subseteq Ids
  /\ freed = [n \in Ids |-> freed[n]] /\ \A n \in Ids : freed[n] \in Nat
  /\ dropped \subseteq Ids
  /\ stale \in BOOLEAN

\* The nodes are numbered as they are made.
LEMMA IdsAre ==
  ASSUME nodes \in Seq({nodes[n] : n \in Ids})
  PROVE  Len(nodes) \in Nat /\ Ids = 1 .. Len(nodes) /\ Ids \subseteq Nat
  BY DEF Ids

\* Typed says what TreeTypeOK says.
LEMMA TypesAre == TreeTypeOK <=> Typed
<1>. DEFINE N == [tag : Tags, exprs : Seq(Ids), block : Seq(Ids), orelse : Seq(Ids)]
            V == [kind : {"block", "expression", "arguments", "parameters"}, ids : Seq(Ids)]
            T == [kind : {"functions", "statements", "bound"}, ids : Seq(Ids)]
<1>1. TreeTypeOK <=>
        /\ nodes \in Seq(N) /\ stack \in Seq(V) /\ todo \in Seq(T)
        /\ stage \in {"parse", "compile", "optimise", "released", "exited", "wild"}
        /\ freed \in [Ids -> Nat] /\ dropped \subseteq Ids /\ stale \in BOOLEAN
  BY DEF TreeTypeOK
<1>2. ASSUME Ids \in SUBSET Nat PROVE \A s : s \in Seq(Ids) <=> s \in Seq(Nat) /\ ToSet(s) \subseteq Ids
  BY <1>2, ListsOf
<1>3. ASSUME Ids \in SUBSET Nat, NEW d
      PROVE  d \in N <=> IsNode(d) /\ ToSet(Lists(d)) \subseteq Ids
  <2>1. ASSUME d \in N PROVE IsNode(d) /\ ToSet(Lists(d)) \subseteq Ids
    <3>1. /\ d = [tag |-> d.tag, exprs |-> d.exprs, block |-> d.block, orelse |-> d.orelse]
          /\ d.tag \in Tags /\ d.exprs \in Seq(Ids) /\ d.block \in Seq(Ids) /\ d.orelse \in Seq(Ids)
      BY <2>1
    <3>2. /\ d.exprs \in Seq(Nat) /\ d.block \in Seq(Nat) /\ d.orelse \in Seq(Nat)
          /\ ToSet(d.exprs) \subseteq Ids /\ ToSet(d.block) \subseteq Ids /\ ToSet(d.orelse) \subseteq Ids
      BY <1>2, <1>3, <3>1
    <3>3. IsNode(d)
      BY <3>1, <3>2 DEF IsNode
    <3>. QED
      BY <3>2, <3>3, NodeLists
  <2>2. ASSUME IsNode(d), ToSet(Lists(d)) \subseteq Ids PROVE d \in N
    <3>1. ToSet(Lists(d)) = ToSet(d.exprs) \cup ToSet(d.block) \cup ToSet(d.orelse)
      BY <2>2, NodeLists
    <3>2. d.exprs \in Seq(Ids) /\ d.block \in Seq(Ids) /\ d.orelse \in Seq(Ids)
      BY <1>2, <1>3, <2>2, <3>1 DEF IsNode
    <3>. QED
      BY <2>2, <3>2 DEF IsNode
  <2>. QED
    BY <2>1, <2>2
<1>4. ASSUME Ids \in SUBSET Nat, NEW v, NEW K
      PROVE  v \in [kind : K, ids : Seq(Ids)]
               <=> /\ v = Item(v.kind, v.ids) /\ v.kind \in K
                   /\ v.ids \in Seq(Nat) /\ ToSet(v.ids) \subseteq Ids
  <2>1. v.ids \in Seq(Ids) <=> v.ids \in Seq(Nat) /\ ToSet(v.ids) \subseteq Ids
    BY <1>2, <1>4
  <2>2. v \in [kind : K, ids : Seq(Ids)] <=> v = Item(v.kind, v.ids) /\ v.kind \in K /\ v.ids \in Seq(Ids)
    BY DEF Item
  <2>. QED
    BY <2>1, <2>2
<1>5. \A n : Parts(n) = Lists(nodes[n])
  BY DEF Parts, Lists
<1>7. ASSUME NEW S, nodes \in Seq(S) PROVE Ids \in SUBSET Nat
  BY <1>7 DEF Ids
<1>8. V = [kind : {"block", "expression", "arguments", "parameters"}, ids : Seq(Ids)]
      /\ T = [kind : {"functions", "statements", "bound"}, ids : Seq(Ids)]
  OBVIOUS
<1>. HIDE DEF N, V, T
<1>9. ASSUME TreeTypeOK PROVE Typed
  <2>1. Ids \in SUBSET Nat
    BY <1>1, <1>7, <1>9
  <2>2. /\ \A n \in Ids : nodes[n] \in N
        /\ \A i \in DOMAIN stack : stack[i] \in V
        /\ \A i \in DOMAIN todo : todo[i] \in T
    BY <1>1, SeqIs, <1>9 DEF Ids
  <2>3. \A n \in Ids : IsNode(nodes[n]) /\ ToSet(Parts(n)) \subseteq Ids
    BY <1>3, <1>5, <2>1, <2>2
  <2>4. nodes \in Seq({nodes[n] : n \in Ids})
    <3>1. \A n \in DOMAIN nodes : nodes[n] \in {nodes[k] : k \in Ids}
      BY DEF Ids
    <3>2. /\ Len(nodes) \in Nat /\ DOMAIN nodes = 1 .. Len(nodes)
          /\ nodes = [n \in 1 .. Len(nodes) |-> nodes[n]]
      BY <1>1, SeqIs, <1>9
    <3>. QED
      BY SeqIs, <3>1, <3>2
  <2>5. /\ Len(stack) \in Nat /\ DOMAIN stack = 1 .. Len(stack)
        /\ stack = [i \in 1 .. Len(stack) |-> stack[i]]
        /\ Len(todo) \in Nat /\ DOMAIN todo = 1 .. Len(todo)
        /\ todo = [i \in 1 .. Len(todo) |-> todo[i]]
    BY <1>1, SeqIs, <1>9
  <2>6. ASSUME NEW i \in DOMAIN stack
        PROVE  /\ stack[i] = Item(stack[i].kind, stack[i].ids)
               /\ stack[i].kind \in {"block", "expression", "arguments", "parameters"}
               /\ stack[i].ids \in Seq(Nat) /\ ToSet(stack[i].ids) \subseteq Ids
    BY <1>4, <1>8, <2>1, <2>2
  <2>7. ASSUME NEW i \in DOMAIN todo
        PROVE  /\ todo[i] = Item(todo[i].kind, todo[i].ids)
               /\ todo[i].kind \in {"functions", "statements", "bound"}
               /\ todo[i].ids \in Seq(Nat) /\ ToSet(todo[i].ids) \subseteq Ids
    BY <1>4, <1>8, <2>1, <2>2
  <2>8. freed = [n \in Ids |-> freed[n]] /\ \A n \in Ids : freed[n] \in Nat
    BY <1>1, <1>9
  <2>. QED
    BY <1>1, <1>9, <2>3, <2>4, <2>5, <2>6, <2>7, <2>8 DEF Typed
<1>10. ASSUME Typed PROVE TreeTypeOK
  <2>1. Ids \in SUBSET Nat
    BY <1>7, <1>10 DEF Typed
  <2>2. \A n \in Ids : nodes[n] \in N
    BY <1>3, <1>5, <1>10, <2>1 DEF Typed
  <2>3. ASSUME NEW i \in DOMAIN stack PROVE stack[i] \in V
    BY <1>4, <1>8, <1>10, <2>1 DEF Typed
  <2>4. ASSUME NEW i \in DOMAIN todo PROVE todo[i] \in T
    BY <1>4, <1>8, <1>10, <2>1 DEF Typed
  <2>5. nodes \in Seq(N)
    <3>1. /\ Len(nodes) \in Nat /\ DOMAIN nodes = 1 .. Len(nodes)
          /\ nodes = [n \in 1 .. Len(nodes) |-> nodes[n]]
      BY SeqIs, <1>10 DEF Typed
    <3>2. \A n \in DOMAIN nodes : nodes[n] \in N
      BY <2>2 DEF Ids
    <3>. QED
      BY SeqIs, <3>1, <3>2
  <2>6. stack \in Seq(V)
    BY SeqIs, <1>10, <2>3 DEF Typed
  <2>7. todo \in Seq(T)
    BY SeqIs, <1>10, <2>4 DEF Typed
  <2>8. freed \in [Ids -> Nat]
    BY <1>10 DEF Typed
  <2>. QED
    BY <1>1, <1>10, <2>5, <2>6, <2>7, <2>8 DEF Typed
<1>. QED
  BY <1>9, <1>10

-----------------------------------------------------------------------------
(* A reduction of the parser. *)

\* One sequence behind another.
LEMMA Behind ==
  ASSUME NEW S, NEW T, NEW s \in Seq(S), NEW t \in Seq(T)
  PROVE  /\ Len(s) \in Nat /\ Len(t) \in Nat
         /\ s \o t \in Seq(S \cup T) /\ Len(s \o t) = Len(s) + Len(t)
         /\ DOMAIN (s \o t) = 1 .. Len(s) + Len(t)
         /\ \A i \in DOMAIN s : (s \o t)[i] = s[i]
         /\ \A i \in DOMAIN t : (s \o t)[Len(s) + i] = t[i]
<1>1. s \in Seq(S \cup T) /\ t \in Seq(S \cup T)
  OBVIOUS
<1>. DEFINE u == s \o t
<1>2. /\ u \in Seq(S \cup T) /\ Len(u) = Len(s) + Len(t) /\ Len(s) \in Nat /\ Len(t) \in Nat
      /\ DOMAIN s = 1 .. Len(s) /\ DOMAIN t = 1 .. Len(t) /\ DOMAIN u = 1 .. Len(u)
      /\ \A i \in 1 .. Len(s) + Len(t) : u[i] = IF i <= Len(s) THEN s[i] ELSE t[i - Len(s)]
  BY <1>1, ConcatProperties
<1>. HIDE DEF u
<1>3. ASSUME NEW i \in DOMAIN s PROVE u[i] = s[i]
  <2>1. i \in 1 .. Len(s) + Len(t) /\ i <= Len(s)
    BY <1>2
  <2>. QED
    BY <1>2, <2>1
<1>4. ASSUME NEW i \in DOMAIN t PROVE u[Len(s) + i] = t[i]
  <2>1. Len(s) + i \in 1 .. Len(s) + Len(t) /\ ~(Len(s) + i <= Len(s)) /\ Len(s) + i - Len(s) = i
    BY <1>2
  <2>. QED
    BY <1>2, <2>1
<1>. QED
  BY <1>2, <1>3, <1>4 DEF u

\* The nodes made, the upper values gone and one in their place.
Makes(made, c, item) ==
  /\ nodes' = nodes \o made
  /\ freed' = freed \o [i \in DOMAIN made |-> 0]
  /\ stack' = Append(SubSeq(stack, 1, Len(stack) - c), item)
  /\ UNCHANGED <<stage, todo, dropped, stale>>

\* The nodes made, and the place of the value that takes the upper values' place.
MadeIds(made) == {Len(nodes) + i : i \in DOMAIN made}
Top(c) == Len(stack) - c + 1

\* The nodes after a reduction.
LEMMA MadeNodes ==
  ASSUME Typed, NEW M, NEW made \in Seq(M), nodes' = nodes \o made,
         freed' = freed \o [i \in DOMAIN made |-> 0]
  PROVE  /\ Ids' = Ids \cup MadeIds(made) /\ Ids' = 1 .. Len(nodes) + Len(made) /\ Ids = 1 .. Len(nodes)
         /\ Len(nodes) \in Nat /\ Len(made) \in Nat /\ DOMAIN made = 1 .. Len(made)
         /\ Ids \cap MadeIds(made) = {}
         /\ nodes' \in Seq({nodes'[n] : n \in Ids'})
         /\ \A n \in Ids : nodes'[n] = nodes[n] /\ freed'[n] = freed[n]
         /\ \A i \in DOMAIN made : nodes'[Len(nodes) + i] = made[i] /\ freed'[Len(nodes) + i] = 0
         /\ freed' = [n \in Ids' |-> freed'[n]]
<1>. DEFINE A == {nodes[n] : n \in Ids}
            zeros == [i \in DOMAIN made |-> 0]
<1>1. nodes \in Seq(A) /\ Len(nodes) \in Nat /\ Ids = 1 .. Len(nodes) /\ DOMAIN nodes = Ids
      /\ Len(made) \in Nat /\ DOMAIN made = 1 .. Len(made)
  <2>1. nodes \in Seq(A)
    BY DEF Typed
  <2>. QED
    BY <2>1, IdsAre DEF Ids
<1>2. freed \in Seq(Nat) /\ DOMAIN freed = Ids /\ Len(freed) = Len(nodes)
  <2>1. freed = [n \in 1 .. Len(nodes) |-> freed[n]] /\ \A n \in 1 .. Len(nodes) : freed[n] \in Nat
    BY <1>1 DEF Typed
  <2>. QED
    BY <1>1, <2>1, SeqFrom
<1>3. zeros \in Seq({0}) /\ Len(zeros) = Len(made) /\ DOMAIN zeros = DOMAIN made
      /\ \A i \in DOMAIN made : zeros[i] = 0
  <2>1. zeros = [i \in 1 .. Len(made) |-> zeros[i]] /\ \A i \in 1 .. Len(made) : zeros[i] = 0
    BY <1>1
  <2>. HIDE DEF zeros
  <2>. QED
    BY <1>1, <2>1, SeqFrom
<1>4. nodes' = nodes \o made /\ freed' = freed \o zeros
  OBVIOUS
<1>. HIDE DEF A, zeros
<1>5. /\ nodes' \in Seq(A \cup M) /\ DOMAIN nodes' = 1 .. Len(nodes) + Len(made)
      /\ \A i \in DOMAIN nodes : nodes'[i] = nodes[i]
      /\ \A i \in DOMAIN made : nodes'[Len(nodes) + i] = made[i]
  BY <1>1, <1>4, Behind
<1>6. /\ freed' \in Seq(Nat \cup {0}) /\ DOMAIN freed' = 1 .. Len(nodes) + Len(made)
      /\ \A i \in DOMAIN freed : freed'[i] = freed[i]
      /\ \A i \in DOMAIN zeros : freed'[Len(freed) + i] = zeros[i]
  <2>. DEFINE f == freed \o zeros
  <2>1. /\ f \in Seq(Nat \cup {0}) /\ Len(f) = Len(freed) + Len(zeros)
        /\ DOMAIN f = 1 .. Len(freed) + Len(zeros)
        /\ \A i \in DOMAIN freed : f[i] = freed[i]
        /\ \A i \in DOMAIN zeros : f[Len(freed) + i] = zeros[i]
    <3>0. PICK N, Z : N = Nat /\ Z = {0}
      OBVIOUS
    <3>1. freed \in Seq(N) /\ zeros \in Seq(Z)
      BY <1>2, <1>3, <3>0
    <3>2. f \in Seq(N \cup Z) /\ Len(f) = Len(freed) + Len(zeros)
      BY <3>1, Behind
    <3>3. DOMAIN f = 1 .. Len(freed) + Len(zeros)
      BY <3>1, Behind
    <3>4. \A i \in DOMAIN freed : f[i] = freed[i]
      BY <3>1, Behind
    <3>5. \A i \in DOMAIN zeros : f[Len(freed) + i] = zeros[i]
      BY <3>1, Behind
    <3>. QED
      BY <3>0, <3>2, <3>3, <3>4, <3>5
  <2>2. freed' = f
    BY <1>4
  <2>. HIDE DEF f
  <2>. QED
    BY <1>2, <1>3, <2>1, <2>2
<1>7. Ids' = 1 .. Len(nodes) + Len(made) /\ Ids' = DOMAIN nodes'
  BY <1>5 DEF Ids
<1>8. MadeIds(made) = Len(nodes) + 1 .. Len(nodes) + Len(made)
  <2>1. ASSUME NEW n \in Len(nodes) + 1 .. Len(nodes) + Len(made) PROVE n \in MadeIds(made)
    <3>1. n - Len(nodes) \in DOMAIN made /\ n = Len(nodes) + (n - Len(nodes))
      BY <1>1
    <3>. QED
      BY <3>1 DEF MadeIds
  <2>2. ASSUME NEW n \in MadeIds(made) PROVE n \in Len(nodes) + 1 .. Len(nodes) + Len(made)
    <3>1. PICK i \in DOMAIN made : n = Len(nodes) + i
      BY DEF MadeIds
    <3>. QED
      BY <1>1, <3>1
  <2>. QED
    BY <2>1, <2>2
<1>9. Ids' = Ids \cup MadeIds(made) /\ Ids \cap MadeIds(made) = {}
  BY <1>1, <1>7, <1>8
<1>10. nodes' \in Seq({nodes'[n] : n \in Ids'})
  <2>1. Len(nodes') \in Nat /\ DOMAIN nodes' = 1 .. Len(nodes')
        /\ nodes' = [n \in 1 .. Len(nodes') |-> nodes'[n]]
    BY <1>5, SeqIs
  <2>. DEFINE B == {nodes'[k] : k \in Ids'}
  <2>2. \A n \in DOMAIN nodes' : nodes'[n] \in B
    BY <1>7
  <2>. HIDE DEF B
  <2>3. PICK b : b = nodes'
    OBVIOUS
  <2>4. /\ Len(b) \in Nat /\ DOMAIN b = 1 .. Len(b) /\ b = [n \in 1 .. Len(b) |-> b[n]]
        /\ \A n \in DOMAIN b : b[n] \in B
    BY <2>1, <2>2, <2>3
  <2>5. b \in Seq(B)
    BY <2>4, SeqIs
  <2>. QED
    BY <2>3, <2>5 DEF B
<1>11. freed' = [n \in Ids' |-> freed'[n]]
  <2>1. freed' = [n \in DOMAIN freed' |-> freed'[n]]
    BY <1>6
  <2>. QED
    BY <1>6, <1>7, <2>1
<1>. QED
  BY <1>1, <1>2, <1>3, <1>5, <1>6, <1>7, <1>9, <1>10, <1>11

\* The values after a reduction.
LEMMA MadeStack ==
  ASSUME Typed, NEW c \in 0 .. Len(stack), NEW item,
         stack' = Append(SubSeq(stack, 1, Len(stack) - c), item)
  PROVE  /\ Len(stack') = Top(c) /\ Top(c) \in Nat /\ DOMAIN stack' = 1 .. Top(c)
         /\ stack' = [i \in 1 .. Len(stack') |-> stack'[i]]
         /\ stack'[Top(c)] = item
         /\ \A i \in 1 .. Len(stack) - c : i \in DOMAIN stack /\ stack'[i] = stack[i]
         /\ \A i \in 1 .. Top(c) : i = Top(c) \/ i \in 1 .. Len(stack) - c
<1>. DEFINE m == Len(stack) - c
            low == SubSeq(stack, 1, m)
            S == {stack[i] : i \in DOMAIN stack}
<1>1. Len(stack) \in Nat /\ DOMAIN stack = 1 .. Len(stack) /\ m \in Nat /\ m <= Len(stack)
      /\ stack = [i \in 1 .. Len(stack) |-> stack[i]]
  BY DEF Typed
<1>2. stack \in Seq(S)
  <2>1. \A i \in DOMAIN stack : stack[i] \in S
    OBVIOUS
  <2>. HIDE DEF S
  <2>. QED
    BY <1>1, <2>1, SeqIs
<1>3. stack' = Append(low, item) /\ Top(c) = m + 1
  BY DEF Top
<1>. HIDE DEF S, m
<1>4. low \in Seq(S) /\ Len(low) = m /\ \A i \in 1..m : low[i] = stack[i]
  BY <1>1, <1>2, SubSeqProperties
<1>. HIDE DEF low
<1>5. /\ Append(low, item) \in Seq(S \cup {item}) /\ Len(Append(low, item)) = m + 1
      /\ \A i \in 1..m : Append(low, item)[i] = low[i]
      /\ Append(low, item)[m + 1] = item
  <2>1. low \in Seq(S \cup {item})
    BY <1>4
  <2>. QED
    BY <1>1, <1>4, <2>1, AppendProperties
<1>6. /\ Len(stack') = m + 1 /\ DOMAIN stack' = 1 .. m + 1 /\ stack'[m + 1] = item
      /\ stack' = [i \in 1 .. m + 1 |-> stack'[i]]
      /\ \A i \in 1..m : stack'[i] = stack[i]
  BY <1>1, <1>3, <1>4, <1>5
<1>7. (\A i \in 1..m : i \in DOMAIN stack) /\ \A i \in 1 .. m + 1 : i = m + 1 \/ i \in 1..m
  BY <1>1
<1>. QED
  BY <1>1, <1>3, <1>6, <1>7 DEF m

\* What the upper values have; who holds nodes anew; and what these hold.
Tops(c) == UNION {ToSet(stack[i].ids) : i \in Top(c) .. Len(stack)}
MadeHolders(made, c) == MadeIds(made) \cup {0 - Top(c)}
Gives(made, item, h) == IF h > 0 THEN Lists(made[h - Len(nodes)]) ELSE item.ids

\* The nodes made and the new value have between them what the old values had,
\* and the nodes made, each once.
Passes(made, c, item) ==
  /\ \A h \in MadeHolders(made, c) : IsInjective(Gives(made, item, h))
  /\ \A h, g \in MadeHolders(made, c) :
       h # g => ToSet(Gives(made, item, h)) \cap ToSet(Gives(made, item, g)) = {}
  /\ \A x : x \in Tops(c) \cup MadeIds(made)
              <=> \E h \in MadeHolders(made, c) : x \in ToSet(Gives(made, item, h))

\* The parser runs.
Parsing == TreeInv /\ stage = "parse"

\* While the parser runs all nodes live.
LEMMA ParsingIs ==
  ASSUME Parsing
  PROVE  /\ Typed /\ Live = Ids /\ Alive = Ids /\ Ids = 1 .. Len(nodes) /\ Len(nodes) \in Nat
         /\ Holders = Ids \cup {0 - i : i \in 1 .. Len(stack)} /\ Len(stack) \in Nat
         /\ DOMAIN stack = 1 .. Len(stack)
         /\ \A h \in Holders : /\ List(h) \in Seq(Nat) /\ ToSet(List(h)) \subseteq Ids
                               /\ IsInjective(List(h))
         /\ \A h, g \in Holders : h # g => ToSet(List(h)) \cap ToSet(List(g)) = {}
         /\ \A n \in Ids : \E h \in Holders : n \in ToSet(List(h))
<1>1. Typed /\ Ids = 1 .. Len(nodes) /\ Len(nodes) \in Nat /\ Len(stack) \in Nat
      /\ DOMAIN stack = 1 .. Len(stack) /\ stage = "parse" /\ HeldInv
  BY TypesAre, IdsAre DEF Parsing, TreeInv, Typed
<1>2. Alive = Ids
  BY DEF Parsing, TreeInv, StageInv, Alive
<1>3. Live = Ids
  BY <1>1, <1>2 DEF Live
<1>4. Holders = Ids \cup {0 - i : i \in 1 .. Len(stack)}
  BY <1>1, <1>3 DEF Holders
<1>5. ASSUME NEW h \in Holders PROVE List(h) \in Seq(Nat)
  <2>1. CASE h \in Ids
    <3>1. h > 0 /\ IsNode(nodes[h])
      BY <1>1, <2>1 DEF Typed
    <3>2. List(h) = Lists(nodes[h])
      BY <3>1 DEF List, Parts, Lists
    <3>. QED
      BY <3>1, <3>2, NodeLists
  <2>2. CASE h \in {0 - i : i \in 1 .. Len(stack)}
    <3>1. PICK i \in 1 .. Len(stack) : h = 0 - i
      BY <2>2
    <3>2. ~(h > 0) /\ 0 - h = i
      BY <1>1, <3>1
    <3>. QED
      BY <1>1, <3>1, <3>2 DEF List, Typed
  <2>. QED
    BY <1>4, <2>1, <2>2
<1>6. /\ \A h \in Holders : ToSet(List(h)) \subseteq Ids /\ IsInjective(List(h))
      /\ \A h, g \in Holders : h # g => ToSet(List(h)) \cap ToSet(List(g)) = {}
      /\ \A n \in Ids : \E h \in Holders : n \in ToSet(List(h))
  BY <1>1, <1>3 DEF HeldInv
<1>. QED
  BY <1>1, <1>2, <1>3, <1>4, <1>5, <1>6

\* A reduction whose new holders hold the new nodes and what the upper values had, each
\* once, keeps the invariant.
LEMMA ParserStep ==
  ASSUME Parsing, NEW M, NEW made \in Seq(M), NEW c \in 0 .. Len(stack), NEW item,
         \A i \in DOMAIN made : IsNode(made[i]),
         item = Item(item.kind, item.ids),
         item.kind \in {"block", "expression", "arguments", "parameters"}, item.ids \in Seq(Nat),
         Makes(made, c, item), Passes(made, c, item),
         \A n \in MadeIds(made) : Tagged(n)', Valued(item)'
  PROVE  TreeInv'
<1>. DEFINE Old == Ids \cup {0 - i : i \in 1 .. Len(stack) - c}
            Fresh == MadeHolders(made, c)
<1>1. /\ Typed /\ Live = Ids /\ Ids = 1 .. Len(nodes) /\ Len(nodes) \in Nat /\ Len(stack) \in Nat
      /\ DOMAIN stack = 1 .. Len(stack)
      /\ Holders = Ids \cup {0 - i : i \in 1 .. Len(stack)}
  BY ParsingIs
<1>2. /\ \A h \in Holders : ToSet(List(h)) \subseteq Ids /\ IsInjective(List(h))
      /\ \A h, g \in Holders : h # g => ToSet(List(h)) \cap ToSet(List(g)) = {}
      /\ \A n \in Ids : \E h \in Holders : n \in ToSet(List(h))
  BY ParsingIs
<1>3. /\ Ids' = Ids \cup MadeIds(made) /\ Ids' = 1 .. Len(nodes) + Len(made)
      /\ Len(made) \in Nat /\ DOMAIN made = 1 .. Len(made)
      /\ Ids \cap MadeIds(made) = {}
      /\ nodes' \in Seq({nodes'[n] : n \in Ids'})
      /\ \A n \in Ids : nodes'[n] = nodes[n] /\ freed'[n] = freed[n]
      /\ \A i \in DOMAIN made : nodes'[Len(nodes) + i] = made[i] /\ freed'[Len(nodes) + i] = 0
      /\ freed' = [n \in Ids' |-> freed'[n]]
  BY <1>1, MadeNodes DEF Makes
<1>4. /\ Len(stack') = Top(c) /\ Top(c) \in Nat /\ DOMAIN stack' = 1 .. Top(c)
      /\ stack' = [i \in 1 .. Len(stack') |-> stack'[i]]
      /\ stack'[Top(c)] = item
      /\ \A i \in 1 .. Len(stack) - c : i \in DOMAIN stack /\ stack'[i] = stack[i]
      /\ \A i \in 1 .. Top(c) : i = Top(c) \/ i \in 1 .. Len(stack) - c
      /\ Top(c) = Len(stack) - c + 1
  BY <1>1, MadeStack DEF Makes, Top
<1>5. /\ stage = "parse" /\ stage' = "parse" /\ dropped = {} /\ dropped' = {} /\ todo = <<>> /\ todo' = <<>>
      /\ stale \in BOOLEAN /\ stale' = stale /\ TagInv
      /\ \A n \in Ids : freed[n] = 0
  BY <1>1 DEF Parsing, TreeInv, StageInv, Makes, Typed
<1>6. \A n \in Ids' : freed'[n] = 0
  <2>1. ASSUME NEW n \in MadeIds(made) PROVE freed'[n] = 0
    BY <1>3 DEF MadeIds
  <2>. QED
    BY <1>3, <1>5, <2>1
<1>7. Live' = Ids'
  BY <1>5, <1>6 DEF Live, Alive
\* The lists.
<1>8. Old \subseteq Holders /\ \A h \in Old : List(h)' = List(h)
  <2>1. ASSUME NEW h \in Ids PROVE h \in Holders /\ List(h)' = List(h)
    BY <1>1, <1>3 DEF List, Parts
  <2>2. ASSUME NEW i \in 1 .. Len(stack) - c
        PROVE  0 - i \in Holders /\ List(0 - i)' = List(0 - i)
    <3>1. i \in 1 .. Len(stack) /\ ~(0 - i > 0) /\ 0 - (0 - i) = i
      BY <1>1
    <3>2. stack'[i] = stack[i]
      BY <1>4
    <3>. QED
      BY <1>1, <3>1, <3>2 DEF List
  <2>3. ASSUME NEW h \in Old PROVE h \in Holders /\ List(h)' = List(h)
    <3>1. h \in Ids \/ \E i \in 1 .. Len(stack) - c : h = 0 - i
      OBVIOUS
    <3>. QED
      BY <2>1, <2>2, <3>1
  <2>. QED
    BY <2>3
<1>9. \A h \in Fresh : List(h)' = Gives(made, item, h)
  <2>1. ASSUME NEW h \in MadeIds(made) PROVE List(h)' = Gives(made, item, h)
    <3>1. PICK i \in DOMAIN made : h = Len(nodes) + i
      BY DEF MadeIds
    <3>2. h > 0 /\ h - Len(nodes) = i
      BY <1>1, <1>3, <3>1
    <3>3. nodes'[h] = made[i]
      BY <1>3, <3>1
    <3>. QED
      BY <3>2, <3>3 DEF List, Parts, Gives, Lists
  <2>2. ASSUME NEW h, h = 0 - Top(c) PROVE List(h)' = Gives(made, item, h)
    <3>1. ~(h > 0) /\ 0 - h = Top(c)
      BY <1>1, <1>4, <2>2
    <3>. QED
      BY <1>4, <3>1 DEF List, Gives
  <2>3. ASSUME NEW h \in Fresh PROVE List(h)' = Gives(made, item, h)
    <3>1. h \in MadeIds(made) \/ h = 0 - Top(c)
      BY DEF MadeHolders
    <3>. QED
      BY <2>1, <2>2, <3>1
  <2>. QED
    BY <2>3
<1>10. Holders' = Old \cup Fresh
  <2>1. {0 - i : i \in DOMAIN stack}' = {0 - i : i \in 1 .. Len(stack) - c} \cup {0 - Top(c)}
    <3>1. \A i \in 1 .. Len(stack) - c : i \in 1 .. Top(c)
      BY <1>1, <1>4
    <3>2. Top(c) \in 1 .. Top(c)
      BY <1>1, <1>4
    <3>. QED
      BY <1>4, <3>1, <3>2
  <2>. QED
    BY <1>3, <1>7, <2>1 DEF Holders, MadeHolders
<1>11. \A x \in Tops(c) : \E i \in Top(c) .. Len(stack) : x \in ToSet(List(0 - i)) /\ 0 - i \in Holders /\ 0 - i \notin Old
  <2>1. ASSUME NEW i \in Top(c) .. Len(stack)
        PROVE  List(0 - i) = stack[i].ids /\ 0 - i \in Holders /\ 0 - i \notin Old
    <3>1. i \in 1 .. Len(stack) /\ ~(0 - i > 0) /\ 0 - (0 - i) = i
      BY <1>1, <1>4
    <3>2. 0 - i \notin Ids
      BY <1>1, <3>1
    <3>3. ASSUME NEW j \in 1 .. Len(stack) - c PROVE 0 - i # 0 - j
      BY <1>1, <1>4
    <3>. QED
      BY <1>1, <3>1, <3>2, <3>3 DEF List
  <2>. QED
    BY <2>1 DEF Tops
<1>12. Tops(c) \subseteq Ids
  BY <1>2, <1>11
<1>. HIDE DEF Old
<1>13. ASSUME NEW h \in Fresh PROVE ToSet(List(h)') \subseteq Tops(c) \cup MadeIds(made) /\ IsInjective(List(h)')
  BY <1>9 DEF Passes
<1>14. ASSUME NEW h \in Old PROVE ToSet(List(h)') \cap (Tops(c) \cup MadeIds(made)) = {}
  <2>1. ToSet(List(h)) \subseteq Ids /\ List(h)' = List(h)
    BY <1>2, <1>8
  <2>2. ASSUME NEW x \in ToSet(List(h)), x \in Tops(c) PROVE FALSE
    <3>1. PICK i \in Top(c) .. Len(stack) : x \in ToSet(List(0 - i)) /\ 0 - i \in Holders /\ 0 - i \notin Old
      BY <1>11, <2>2
    <3>. QED
      BY <1>2, <1>8, <2>2, <3>1
  <2>. QED
    BY <1>3, <2>1, <2>2
<1>15. HeldInv'
  <2>1. ASSUME NEW h \in Holders' PROVE ToSet(List(h)') \subseteq Live' /\ IsInjective(List(h)')
    <3>1. CASE h \in Old
      BY <1>2, <1>3, <1>7, <1>8, <3>1
    <3>2. CASE h \in Fresh
      BY <1>3, <1>7, <1>12, <1>13, <3>2
    <3>. QED
      BY <1>10, <3>1, <3>2
  <2>2. ASSUME NEW h \in Holders', NEW g \in Holders', h # g
        PROVE  ToSet(List(h)') \cap ToSet(List(g)') = {}
    <3>1. CASE h \in Old /\ g \in Old
      BY <1>2, <1>8, <2>2, <3>1
    <3>2. CASE h \in Old /\ g \in Fresh
      BY <1>13, <1>14, <3>2
    <3>3. CASE h \in Fresh /\ g \in Old
      BY <1>13, <1>14, <3>3
    <3>4. CASE h \in Fresh /\ g \in Fresh
      BY <1>9, <2>2, <3>4 DEF Passes
    <3>. QED
      BY <1>10, <3>1, <3>2, <3>3, <3>4
  <2>3. ASSUME NEW n \in Live' PROVE \E h \in Holders' : n \in ToSet(List(h)')
    <3>1. CASE n \in Tops(c) \cup MadeIds(made)
      BY <1>9, <1>10, <3>1 DEF Passes
    <3>2. CASE n \in Ids /\ n \notin Tops(c)
      <4>1. PICK h \in Holders : n \in ToSet(List(h))
        BY <1>2, <3>2
      <4>2. h \in Old
        <5>1. h \in Ids \/ \E i \in 1 .. Len(stack) : h = 0 - i
          BY <1>1
        <5>2. ASSUME NEW i \in 1 .. Len(stack), h = 0 - i, i \notin 1 .. Len(stack) - c PROVE FALSE
          <6>1. i \in Top(c) .. Len(stack) /\ ~(0 - i > 0) /\ 0 - (0 - i) = i
            BY <1>1, <1>4, <5>2
          <6>. QED
            BY <3>2, <4>1, <5>2, <6>1 DEF List, Tops
        <5>. QED
          BY <5>1, <5>2 DEF Old
      <4>. QED
        BY <1>8, <1>10, <4>1, <4>2
    <3>. QED
      BY <1>3, <1>7, <3>1, <3>2
  <2>. QED
    BY <2>1, <2>2, <2>3 DEF HeldInv
\* The types.
<1>16. TreeTypeOK'
  <2>1. \A n \in Ids' : IsNode(nodes'[n]) /\ ToSet(Parts(n)') \subseteq Ids'
    <3>1. ASSUME NEW n \in Ids PROVE IsNode(nodes'[n]) /\ ToSet(Parts(n)') \subseteq Ids'
      BY <1>1, <1>3 DEF Typed, Parts
    <3>2. ASSUME NEW n \in MadeIds(made) PROVE IsNode(nodes'[n]) /\ ToSet(Parts(n)') \subseteq Ids'
      <4>1. PICK i \in DOMAIN made : n = Len(nodes) + i
        BY DEF MadeIds
      <4>2. n \in Fresh /\ n > 0
        BY <1>1, <1>3, <4>1 DEF MadeHolders
      <4>3. List(n)' = Parts(n)'
        BY <4>2 DEF List
      <4>4. ToSet(List(n)') \subseteq Ids'
        BY <1>3, <1>12, <1>13, <4>2
      <4>. QED
        BY <1>3, <4>1, <4>3, <4>4
    <3>. QED
      BY <1>3, <3>1, <3>2
  <2>2. ASSUME NEW i \in DOMAIN stack'
        PROVE  /\ stack'[i] = Item(stack'[i].kind, stack'[i].ids)
               /\ stack'[i].kind \in {"block", "expression", "arguments", "parameters"}
               /\ stack'[i].ids \in Seq(Nat) /\ ToSet(stack'[i].ids) \subseteq Ids'
    <3>1. CASE i = Top(c)
      <4>1. PICK k : k = 0 - Top(c)
        OBVIOUS
      <4>2. k \in Fresh /\ ~(k > 0) /\ 0 - k = i
        BY <1>1, <1>4, <3>1, <4>1 DEF MadeHolders
      <4>3. List(k)' = item.ids
        BY <1>4, <3>1, <4>2 DEF List
      <4>4. ToSet(item.ids) \subseteq Ids'
        BY <1>3, <1>12, <1>13, <4>2, <4>3
      <4>. QED
        BY <1>4, <3>1, <4>4
    <3>2. CASE i # Top(c)
      <4>1. i \in DOMAIN stack /\ stack'[i] = stack[i]
        BY <1>4, <3>2
      <4>. QED
        BY <1>1, <1>3, <4>1 DEF Typed
    <3>. QED
      BY <3>1, <3>2
  <2>3. /\ Len(todo') \in Nat /\ DOMAIN todo' = 1 .. Len(todo')
        /\ todo' = [i \in 1 .. Len(todo') |-> todo'[i]] /\ DOMAIN todo' = {}
    BY <1>5
  <2>4. \A n \in Ids' : freed'[n] \in Nat
    BY <1>6
  <2>5. Typed'
    BY <1>3, <1>4, <1>5, <2>1, <2>2, <2>3, <2>4 DEF Typed
  <2>6. (TreeTypeOK <=> Typed)'
    BY TypesAre, PTL
  <2>. QED
    BY <2>5, <2>6
\* The tags.
<1>17. TagInv'
  <2>1. /\ ExpressionIds \subseteq ExpressionIds' /\ ParameterIds \subseteq ParameterIds'
        /\ StatementIds \subseteq StatementIds'
    BY <1>3 DEF ExpressionIds, ParameterIds, StatementIds
  <2>2. ASSUME NEW n \in Ids PROVE Tagged(n)'
    <3>1. Tagged(n) /\ nodes'[n] = nodes[n] /\ Parts(n)' = Parts(n)
      BY <1>3, <1>5 DEF TagInv, Parts
    <3>. QED
      BY <1>5, <2>1, <3>1 DEF Tagged
  <2>3. ASSUME NEW i \in DOMAIN stack' PROVE Valued(stack[i])'
    <3>1. CASE i = Top(c)
      BY <1>4, <3>1 DEF Valued
    <3>2. CASE i # Top(c)
      <4>1. Valued(stack[i]) /\ stack'[i] = stack[i]
        BY <1>4, <1>5, <3>2 DEF TagInv
      <4>. QED
        BY <2>1, <4>1 DEF Valued
    <3>. QED
      BY <3>1, <3>2
  <2>. QED
    BY <1>3, <2>2, <2>3 DEF TagInv
<1>18. StageInv'
  BY <1>5, <1>6 DEF StageInv
<1>. QED
  BY <1>15, <1>16, <1>17, <1>18 DEF TreeInv

-----------------------------------------------------------------------------
(* The values on top of the parser's stack. *)

\* The kind of a value, from the top.
KindOf(i) == stack[Len(stack) - i + 1].kind

\* What the i-th value from the top has.
Holds(i) ==
  /\ Value(i) \in Seq(Nat) /\ ToSet(Value(i)) \subseteq Ids /\ IsInjective(Value(i))
  /\ KindOf(i) = "expression" => Len(Value(i)) = 1 /\ ToSet(Value(i)) \subseteq ExpressionIds
  /\ KindOf(i) = "arguments" => ToSet(Value(i)) \subseteq ExpressionIds
  /\ KindOf(i) = "parameters" => ToSet(Value(i)) \subseteq ParameterIds
  /\ KindOf(i) = "block" => ToSet(Value(i)) \subseteq StatementIds

\* What the values have, and that no two have the same.
LEMMA ValuesHold ==
  ASSUME Parsing
  PROVE  /\ \A i \in 1 .. Len(stack) : Holds(i)
         /\ \A i, j \in 1 .. Len(stack) : i # j => ToSet(Value(i)) \cap ToSet(Value(j)) = {}
<1>1. /\ Typed /\ DOMAIN stack = 1 .. Len(stack) /\ Len(stack) \in Nat /\ TagInv
      /\ Holders = Ids \cup {0 - i : i \in 1 .. Len(stack)} /\ Ids = 1 .. Len(nodes) /\ Len(nodes) \in Nat
      /\ \A h \in Holders : /\ List(h) \in Seq(Nat) /\ ToSet(List(h)) \subseteq Ids
                            /\ IsInjective(List(h))
      /\ \A h, g \in Holders : h # g => ToSet(List(h)) \cap ToSet(List(g)) = {}
  BY ParsingIs DEF Parsing, TreeInv
<1>2. ASSUME NEW i \in 1 .. Len(stack), NEW h, h = 0 - (Len(stack) - i + 1)
      PROVE  h \in Holders /\ List(h) = Value(i) /\ Len(stack) - i + 1 \in 1 .. Len(stack)
  <2>1. Len(stack) - i + 1 \in 1 .. Len(stack)
    BY <1>1
  <2>2. ~(h > 0) /\ 0 - h = Len(stack) - i + 1
    BY <1>1, <1>2
  <2>. QED
    BY <1>1, <1>2, <2>1, <2>2 DEF List, Value
<1>3. ASSUME NEW i \in 1 .. Len(stack) PROVE Holds(i)
  <2>1. PICK h : h = 0 - (Len(stack) - i + 1)
    OBVIOUS
  <2>2. h \in Holders /\ List(h) = Value(i) /\ Len(stack) - i + 1 \in DOMAIN stack
    BY <1>1, <1>2, <2>1
  <2>3. Valued(stack[Len(stack) - i + 1])
    BY <1>1, <2>2 DEF TagInv
  <2>. QED
    BY <1>1, <2>2, <2>3 DEF Holds, KindOf, Value, Valued
<1>4. ASSUME NEW i \in 1 .. Len(stack), NEW j \in 1 .. Len(stack), i # j
      PROVE  ToSet(Value(i)) \cap ToSet(Value(j)) = {}
  <2>1. PICK h, g : h = 0 - (Len(stack) - i + 1) /\ g = 0 - (Len(stack) - j + 1)
    OBVIOUS
  <2>2. h # g
    BY <1>1, <1>4, <2>1
  <2>. QED
    BY <1>1, <1>2, <2>1, <2>2
<1>. QED
  BY <1>3, <1>4

\* The nodes of the upper values, one value after the other.
LEMMA TopsAre ==
  ASSUME Parsing, NEW c \in 0 .. Len(stack)
  PROVE  \A x : x \in Tops(c) <=> \E i \in 1 .. c : x \in ToSet(Value(i))
<1>1. Len(stack) \in Nat
  BY ParsingIs
<1>2. ASSUME NEW x, NEW i \in Top(c) .. Len(stack), x \in ToSet(stack[i].ids)
      PROVE  \E k \in 1 .. c : x \in ToSet(Value(k))
  <2>1. Len(stack) - i + 1 \in 1 .. c /\ Len(stack) - (Len(stack) - i + 1) + 1 = i
    BY <1>1 DEF Top
  <2>. QED
    BY <1>2, <2>1 DEF Value
<1>3. ASSUME NEW x, NEW i \in 1 .. c, x \in ToSet(Value(i))
      PROVE  \E k \in Top(c) .. Len(stack) : x \in ToSet(stack[k].ids)
  <2>1. Len(stack) - i + 1 \in Top(c) .. Len(stack)
    BY <1>1 DEF Top
  <2>. QED
    BY <1>3, <2>1 DEF Value
<1>. QED
  BY <1>2, <1>3 DEF Tops

\* A node that is made is where it belongs.
Fits(node) ==
  /\ ToSet(node.exprs) \subseteq IF node.tag = "function" THEN ParameterIds ELSE ExpressionIds
  /\ ToSet(node.block) \cup ToSet(node.orelse) \subseteq StatementIds
  /\ node.block # <<>> => node.tag \in {"if", "while", "for", "function"}
  /\ node.orelse # <<>> => node.tag = "if"
  /\ node.tag \in {"assignment", "return", "if", "while", "for"} => Len(node.exprs) <= 1
  /\ node.tag \in {"assignment", "while", "for"} => node.exprs # <<>>
  /\ node.tag = "if" => node.exprs # <<>>
  /\ node.tag \in Atoms => node.exprs = <<>>

\* The lists of a node and what is behind it do not meet.
Apart(node, rest) ==
  /\ IsInjective(node.exprs) /\ IsInjective(node.block) /\ IsInjective(node.orelse) /\ IsInjective(rest)
  /\ ToSet(node.exprs) \cap ToSet(node.block) = {}
  /\ ToSet(node.exprs) \cap ToSet(node.orelse) = {}
  /\ ToSet(node.block) \cap ToSet(node.orelse) = {}
  /\ ToSet(rest) \cap ToSet(node.exprs) = {}
  /\ ToSet(rest) \cap ToSet(node.block) = {}
  /\ ToSet(rest) \cap ToSet(node.orelse) = {}

\* The value that the node becomes part of.
Becomes(kind, node, rest) ==
  \/ kind = "expression" /\ rest = <<>> /\ node.tag \in ExpressionTags
  \/ kind = "parameters" /\ ToSet(rest) \subseteq ParameterIds /\ node.tag = "parameter"
  \/ /\ kind = "block" /\ ToSet(rest) \subseteq StatementIds
     /\ node.tag \in Tags \ (ExpressionTags \cup {"parameter"})

\* A node has each part once, if its lists do and have nothing in common.
LEMMA ListsApart ==
  ASSUME NEW d, IsNode(d), IsInjective(d.exprs), IsInjective(d.block), IsInjective(d.orelse),
         ToSet(d.exprs) \cap ToSet(d.block) = {}, ToSet(d.exprs) \cap ToSet(d.orelse) = {},
         ToSet(d.block) \cap ToSet(d.orelse) = {}
  PROVE  IsInjective(Lists(d))
<1>1. d.exprs \o d.block \in Seq(Nat) /\ ToSet(d.exprs \o d.block) = ToSet(d.exprs) \cup ToSet(d.block)
      /\ IsInjective(d.exprs \o d.block)
  BY Joined DEF IsNode
<1>2. d.orelse \in Seq(Nat)
  BY DEF IsNode
<1>. DEFINE s == d.exprs \o d.block
            t == d.orelse
<1>3. s \in Seq(Nat) /\ t \in Seq(Nat) /\ IsInjective(s) /\ IsInjective(t) /\ ToSet(s) \cap ToSet(t) = {}
  BY <1>1, <1>2
<1>4. Lists(d) = s \o t
  BY DEF Lists
<1>. HIDE DEF s, t
<1>. QED
  BY <1>3, <1>4, Joined

\* One node is made, and put behind the rest.
LEMMA OneNode ==
  ASSUME Parsing, NEW node, IsNode(node), NEW c \in 0 .. Len(stack), NEW kind, NEW rest \in Seq(Nat),
         Fits(node), Apart(node, rest), Becomes(kind, node, rest),
         \A x : x \in Tops(c) <=> x \in ToSet(node.exprs) \/ x \in ToSet(node.block)
                                    \/ x \in ToSet(node.orelse) \/ x \in ToSet(rest),
         NEW new, new = New, NEW item, item = Item(kind, rest \o << new >>),
         Makes(<< node >>, c, item)
  PROVE  TreeInv'
<1>. DEFINE made == << node >>
<1>1. /\ Typed /\ Ids = 1 .. Len(nodes) /\ Len(nodes) \in Nat /\ Len(stack) \in Nat
      /\ DOMAIN stack = 1 .. Len(stack) /\ new = Len(nodes) + 1 /\ new \in Nat
  BY ParsingIs DEF New
<1>2. made \in Seq({node}) /\ DOMAIN made = {1} /\ made[1] = node /\ Len(made) = 1
  OBVIOUS
<1>. HIDE DEF made
<1>3. MadeIds(made) = {new}
  BY <1>1, <1>2 DEF MadeIds
<1>4. nodes' = nodes \o made /\ freed' = freed \o [i \in DOMAIN made |-> 0]
  BY DEF Makes, made
<1>5. /\ Ids' = Ids \cup {new} /\ new \notin Ids
      /\ \A n \in Ids : nodes'[n] = nodes[n]
      /\ nodes'[new] = node
  <2>0. PICK M : made \in Seq(M)
    BY <1>2
  <2>1. /\ Ids' = Ids \cup MadeIds(made) /\ Ids \cap MadeIds(made) = {}
        /\ \A n \in Ids : nodes'[n] = nodes[n] /\ freed'[n] = freed[n]
        /\ \A i \in DOMAIN made : nodes'[Len(nodes) + i] = made[i] /\ freed'[Len(nodes) + i] = 0
    <3>1. Typed
      BY <1>1
    <3>. QED
      BY <3>1, <2>0, <1>4, MadeNodes
  <2>2. nodes'[Len(nodes) + 1] = made[1]
    BY <1>2, <2>1
  <2>. QED
    BY <1>1, <1>2, <1>3, <2>1, <2>2
<1>6. /\ Lists(node) \in Seq(Nat) /\ IsInjective(Lists(node))
      /\ ToSet(Lists(node)) = ToSet(node.exprs) \cup ToSet(node.block) \cup ToSet(node.orelse)
  BY NodeLists, ListsApart DEF Apart
<1>7. Tops(c) \subseteq Ids
  <2>1. ASSUME NEW i \in Top(c) .. Len(stack) PROVE ToSet(stack[i].ids) \subseteq Ids
    <3>1. i \in 1 .. Len(stack)
      BY <1>1 DEF Top
    <3>. QED
      BY <1>1, <3>1 DEF Typed
  <2>. QED
    BY <2>1 DEF Tops
<1>8. << new >> \in Seq(Nat) /\ ToSet(<< new >>) = {new} /\ IsInjective(<< new >>)
  BY <1>1, Short
<1>9. /\ item.ids \in Seq(Nat) /\ ToSet(item.ids) = ToSet(rest) \cup {new} /\ IsInjective(item.ids)
      /\ item.kind = kind /\ item = Item(item.kind, item.ids) /\ item.ids = rest \o << new >>
  <2>1. item.ids = rest \o << new >> /\ item.kind = kind /\ item = Item(item.kind, item.ids)
    BY DEF Item
  <2>2. new \notin ToSet(rest)
    BY <1>5, <1>7
  <2>3. IsInjective(rest) /\ ToSet(rest) \cap ToSet(<< new >>) = {}
    BY <1>8, <2>2 DEF Apart
  <2>. DEFINE t == << new >>
  <2>4. t \in Seq(Nat) /\ ToSet(t) = {new} /\ IsInjective(t) /\ ToSet(rest) \cap ToSet(t) = {}
        /\ item.ids = rest \o t
    BY <1>8, <2>1, <2>3
  <2>. HIDE DEF t
  <2>5. item.ids \in Seq(Nat) /\ ToSet(item.ids) = ToSet(rest) \cup {new} /\ IsInjective(item.ids)
    BY <2>3, <2>4, Joined
  <2>. QED
    BY <2>1, <2>5
<1>10. item.kind \in {"block", "expression", "arguments", "parameters"}
  BY <1>9 DEF Becomes
<1>11. Gives(made, item, new) = Lists(node)
  BY <1>1, <1>2 DEF Gives
<1>12. PICK top : top = 0 - Top(c)
  OBVIOUS
<1>13. Gives(made, item, top) = item.ids /\ top # new /\ MadeHolders(made, c) = {new, top}
  <2>1. ~(top > 0) /\ top # new
    BY <1>1, <1>12 DEF Top
  <2>. QED
    BY <1>3, <1>12, <2>1 DEF Gives, MadeHolders
<1>14. Passes(made, c, item)
  <2>1. ToSet(Lists(node)) \cap ToSet(item.ids) = {}
    <3>1. ToSet(Lists(node)) \subseteq Ids
      BY <1>6, <1>7
    <3>2. ToSet(Lists(node)) \cap ToSet(rest) = {}
      <4>1. /\ ToSet(rest) \cap ToSet(node.exprs) = {} /\ ToSet(rest) \cap ToSet(node.block) = {}
            /\ ToSet(rest) \cap ToSet(node.orelse) = {}
        BY DEF Apart
      <4>2. ToSet(Lists(node)) = ToSet(node.exprs) \cup ToSet(node.block) \cup ToSet(node.orelse)
        BY <1>6
      <4>. QED
        BY <4>1, <4>2
    <3>. QED
      BY <1>5, <1>9, <3>1, <3>2
  <2>2. \A x : x \in Tops(c) \cup {new} <=> x \in ToSet(Lists(node)) \/ x \in ToSet(item.ids)
    BY <1>6, <1>9
  <2>3. \A h \in MadeHolders(made, c) : IsInjective(Gives(made, item, h))
    BY <1>6, <1>9, <1>11, <1>13
  <2>4. \A h, g \in MadeHolders(made, c) :
          h # g => ToSet(Gives(made, item, h)) \cap ToSet(Gives(made, item, g)) = {}
    BY <1>11, <1>13, <2>1
  <2>5. \A x : x \in Tops(c) \cup MadeIds(made)
                 <=> \E h \in MadeHolders(made, c) : x \in ToSet(Gives(made, item, h))
    BY <1>3, <1>11, <1>13, <2>2
  <2>. QED
    BY <2>3, <2>4, <2>5 DEF Passes
<1>15. /\ ExpressionIds \subseteq ExpressionIds' /\ ParameterIds \subseteq ParameterIds'
       /\ StatementIds \subseteq StatementIds'
  BY <1>5 DEF ExpressionIds, ParameterIds, StatementIds
<1>16. stage' = "parse"
  BY DEF Makes, Parsing
<1>17. ASSUME NEW n \in MadeIds(made) PROVE Tagged(n)'
  <2>1. n = new /\ nodes'[n] = node
    BY <1>3, <1>5
  <2>2. Parts(n)' = Lists(node)
    BY <2>1 DEF Parts, Lists
  <2>3. \A k \in ToSet(Lists(node)) : k < n
    BY <1>1, <1>6, <1>7, <2>1
  <2>. QED
    BY <1>15, <2>1, <2>2, <2>3 DEF Tagged, Fits
<1>18. Valued(item)'
  <2>1. CASE kind = "expression"
    <3>1. item.ids = << new >> /\ new \in ExpressionIds'
      BY <1>5, <1>9, <2>1, <1>8 DEF Becomes, ExpressionIds
    <3>. QED
      BY <1>8, <1>9, <2>1, <3>1 DEF Valued
  <2>2. CASE kind = "parameters"
    <3>1. new \in ParameterIds' /\ ToSet(rest) \subseteq ParameterIds
      BY <1>5, <2>2 DEF Becomes, ParameterIds
    <3>. QED
      BY <1>9, <1>15, <2>2, <3>1 DEF Valued
  <2>3. CASE kind = "block"
    <3>1. new \in StatementIds' /\ ToSet(rest) \subseteq StatementIds
      BY <1>5, <2>3 DEF Becomes, StatementIds
    <3>. QED
      BY <1>9, <1>15, <2>3, <3>1 DEF Valued
  <2>. QED
    BY <2>1, <2>2, <2>3 DEF Becomes
<1>19. \A i \in DOMAIN made : IsNode(made[i])
  BY <1>2
<1>20. Makes(made, c, item)
  BY DEF made
<1>. QED
  BY <1>2, <1>9, <1>10, <1>14, <1>17, <1>18, <1>19, <1>20, ParserStep

-----------------------------------------------------------------------------
(* The reductions. *)

\* A node that is made.
LEMMA NodeIs ==
  ASSUME NEW tag \in Tags, NEW exprs \in Seq(Nat), NEW block \in Seq(Nat), NEW orelse \in Seq(Nat),
         NEW node, node = Node(tag, exprs, block, orelse)
  PROVE  /\ IsNode(node)
         /\ node.tag = tag /\ node.exprs = exprs /\ node.block = block /\ node.orelse = orelse
  BY DEF Node, IsNode

\* The kinds that Kinds asks for.
LEMMA KindsHave ==
  ASSUME Len(stack) \in Nat
  PROVE  /\ \A a : Kinds(<<a>>) => 1 <= Len(stack) /\ KindOf(1) = a
         /\ \A a, b : Kinds(<<a, b>>) => 2 <= Len(stack) /\ KindOf(2) = a /\ KindOf(1) = b
         /\ \A a, b, d : Kinds(<<a, b, d>>)
              => 3 <= Len(stack) /\ KindOf(3) = a /\ KindOf(2) = b /\ KindOf(1) = d
         /\ \A a, b, d, e : Kinds(<<a, b, d, e>>)
              => 4 <= Len(stack) /\ KindOf(4) = a /\ KindOf(3) = b /\ KindOf(2) = d /\ KindOf(1) = e
<1>1. ASSUME NEW a, Kinds(<<a>>) PROVE 1 <= Len(stack) /\ KindOf(1) = a
  BY <1>1 DEF Kinds, KindOf
<1>2. ASSUME NEW a, NEW b, Kinds(<<a, b>>) PROVE 2 <= Len(stack) /\ KindOf(2) = a /\ KindOf(1) = b
  <2>. DEFINE k == <<a, b>>
  <2>1. Len(k) = 2 /\ DOMAIN k = 1 .. 2 /\ k[1] = a /\ k[2] = b
    OBVIOUS
  <2>. HIDE DEF k
  <2>2. Kinds(k)
    BY <1>2 DEF k
  <2>3. Len(stack) >= 2 /\ \A i \in 1 .. 2 : stack[Len(stack) - 2 + i].kind = k[i]
    BY <2>1, <2>2 DEF Kinds
  <2>4. Len(stack) - 2 + 1 = Len(stack) - 1 /\ Len(stack) - 2 + 2 = Len(stack)
    OBVIOUS
  <2>. QED
    BY <2>1, <2>3, <2>4 DEF KindOf
<1>3. ASSUME NEW a, NEW b, NEW d, Kinds(<<a, b, d>>)
      PROVE  3 <= Len(stack) /\ KindOf(3) = a /\ KindOf(2) = b /\ KindOf(1) = d
  <2>. DEFINE k == <<a, b, d>>
  <2>1. Len(k) = 3 /\ DOMAIN k = 1 .. 3 /\ k[1] = a /\ k[2] = b /\ k[3] = d
    OBVIOUS
  <2>. HIDE DEF k
  <2>2. Kinds(k)
    BY <1>3 DEF k
  <2>3. Len(stack) >= 3 /\ \A i \in 1 .. 3 : stack[Len(stack) - 3 + i].kind = k[i]
    BY <2>1, <2>2 DEF Kinds
  <2>. QED
    BY <2>1, <2>3 DEF KindOf
<1>4. ASSUME NEW a, NEW b, NEW d, NEW e, Kinds(<<a, b, d, e>>)
      PROVE  4 <= Len(stack) /\ KindOf(4) = a /\ KindOf(3) = b /\ KindOf(2) = d /\ KindOf(1) = e
  <2>. DEFINE k == <<a, b, d, e>>
  <2>1. Len(k) = 4 /\ DOMAIN k = 1 .. 4 /\ k[1] = a /\ k[2] = b /\ k[3] = d /\ k[4] = e
    OBVIOUS
  <2>. HIDE DEF k
  <2>2. Kinds(k)
    BY <1>4 DEF k
  <2>3. Len(stack) >= 4 /\ \A i \in 1 .. 4 : stack[Len(stack) - 4 + i].kind = k[i]
    BY <2>1, <2>2 DEF Kinds
  <2>. QED
    BY <2>1, <2>3 DEF KindOf
<1>. QED
  BY <1>1, <1>2, <1>3, <1>4

\* A reduction to an expression.
LEMMA ExpressionStep ==
  ASSUME Parsing, NEW tag \in ExpressionTags, NEW exprs \in Seq(Nat), IsInjective(exprs),
         ToSet(exprs) \subseteq ExpressionIds, tag \in Atoms => exprs = <<>>, NEW c \in 0 .. Len(stack),
         \A x : x \in Tops(c) <=> x \in ToSet(exprs), Expression(tag, exprs, c)
  PROVE  TreeInv'
<1>1. PICK node, new, item :
        node = Node(tag, exprs, <<>>, <<>>) /\ new = New /\ item = Item("expression", << new >>)
  OBVIOUS
<1>2. Makes(<< node >>, c, item)
  BY <1>1 DEF Expression, Reduce, ReduceTo, Makes
<1>3. <<>> \in Seq(Nat) /\ ToSet(<<>>) = {} /\ IsInjective(<<>>)
  BY Short
<1>4. tag \in Tags /\ tag \notin {"function", "assignment", "return", "if", "while", "for"}
  BY DEF Tags, ExpressionTags, Atoms, CallTags
<1>7. PICK rest : rest = <<>>
  OBVIOUS
<1>8. rest \in Seq(Nat) /\ ToSet(rest) = {} /\ IsInjective(rest)
  BY <1>3, <1>7
<1>5. /\ IsNode(node) /\ node.tag = tag /\ node.exprs = exprs /\ node.block = rest /\ node.orelse = rest
  <2>1. node = Node(tag, exprs, rest, rest)
    BY <1>1, <1>7
  <2>. QED
    BY <2>1, <1>4, <1>8, NodeIs
<1>6. Fits(node)
  BY <1>4, <1>5, <1>7, <1>8 DEF Fits
<1>9. Apart(node, rest)
  BY <1>5, <1>8 DEF Apart
<1>10. item = Item("expression", rest \o << new >>)
  BY <1>1, <1>7
<1>11. Becomes("expression", node, rest)
  BY <1>5, <1>7 DEF Becomes
<1>12. \A x : x \in Tops(c) <=> x \in ToSet(node.exprs) \/ x \in ToSet(node.block)
                                  \/ x \in ToSet(node.orelse) \/ x \in ToSet(rest)
  BY <1>5, <1>8
<1>. QED
  BY <1>1, <1>2, <1>5, <1>6, <1>8, <1>9, <1>10, <1>11, <1>12, OneNode

\* A reduction to a statement, behind those of its list.
LEMMA StatementStep ==
  ASSUME Parsing, NEW c \in Nat, c + 1 <= Len(stack), KindOf(c + 1) = "block",
         NEW tag \in Tags \ (ExpressionTags \cup {"parameter"}),
         NEW exprs \in Seq(Nat), NEW block \in Seq(Nat), NEW orelse \in Seq(Nat),
         NEW node, node = Node(tag, exprs, block, orelse), Fits(node),
         IsInjective(exprs), IsInjective(block), IsInjective(orelse),
         ToSet(exprs) \cap ToSet(block) = {}, ToSet(exprs) \cap ToSet(orelse) = {},
         ToSet(block) \cap ToSet(orelse) = {},
         \A x : (\E i \in 1 .. c : x \in ToSet(Value(i)))
                   <=> x \in ToSet(exprs) \/ x \in ToSet(block) \/ x \in ToSet(orelse),
         Statement(node, c)
  PROVE  TreeInv'
<1>1. PICK rest, new, item :
        rest = Value(c + 1) /\ new = New /\ item = Item("block", rest \o << new >>)
  OBVIOUS
<1>2. Makes(<< node >>, c + 1, item)
  BY <1>1 DEF Statement, Reduce, ReduceTo, Makes
<1>3. IsNode(node) /\ node.tag = tag /\ node.exprs = exprs /\ node.block = block /\ node.orelse = orelse
  BY NodeIs
<1>4. Len(stack) \in Nat
  BY ParsingIs
<1>5. c + 1 \in 1 .. Len(stack) /\ c + 1 \in 0 .. Len(stack) /\ \A i \in 1 .. c : i \in 1 .. Len(stack) /\ i # c + 1
  BY <1>4
<1>6. /\ rest \in Seq(Nat) /\ IsInjective(rest) /\ ToSet(rest) \subseteq StatementIds
      /\ \A i \in 1 .. c : ToSet(Value(i)) \cap ToSet(rest) = {}
  BY <1>1, <1>5, ValuesHold DEF Holds
<1>7. \A x \in ToSet(rest) : x \notin ToSet(exprs) /\ x \notin ToSet(block) /\ x \notin ToSet(orelse)
  BY <1>6
<1>8. Apart(node, rest)
  BY <1>3, <1>6, <1>7 DEF Apart
<1>9. Becomes("block", node, rest)
  BY <1>3, <1>6 DEF Becomes
<1>10. \A x : x \in Tops(c + 1) <=> x \in ToSet(node.exprs) \/ x \in ToSet(node.block)
                                      \/ x \in ToSet(node.orelse) \/ x \in ToSet(rest)
  <2>1. \A x : x \in Tops(c + 1) <=> \E i \in 1 .. c + 1 : x \in ToSet(Value(i))
    BY <1>5, TopsAre
  <2>2. \A i : i \in 1 .. c + 1 <=> i \in 1 .. c \/ i = c + 1
    OBVIOUS
  <2>. QED
    BY <1>1, <1>3, <2>1, <2>2
<1>. QED
  BY <1>1, <1>2, <1>3, <1>5, <1>6, <1>8, <1>9, <1>10, OneNode

\* A step of the parser that makes no node.
LEMMA NoNode ==
  ASSUME Parsing, NEW c \in 0 .. Len(stack), NEW kind, NEW ids \in Seq(Nat), NEW item,
         item = Item(kind, ids), kind \in {"block", "expression", "arguments", "parameters"},
         IsInjective(ids), \A x : x \in Tops(c) <=> x \in ToSet(ids), Valued(item),
         UNCHANGED <<nodes, stage, todo, freed, dropped, stale>>,
         stack' = Append(SubSeq(stack, 1, Len(stack) - c), item)
  PROVE  TreeInv'
<1>. PICK made : made = <<>>
  OBVIOUS
<1>1. Typed /\ Len(stack) \in Nat /\ Len(nodes) \in Nat
  BY ParsingIs
<1>2. made \in Seq({}) /\ DOMAIN made = {}
  OBVIOUS
<1>3. nodes \o made = nodes
  BY <1>1 DEF Typed
<1>4. freed \o [i \in DOMAIN made |-> 0] = freed
  <2>1. freed \in Seq(Nat)
    <3>1. freed = [i \in 1 .. Len(nodes) |-> freed[i]] /\ \A i \in 1 .. Len(nodes) : freed[i] \in Nat
      BY <1>1, ParsingIs DEF Typed
    <3>. QED
      BY <1>1, <3>1, SeqFrom
  <2>2. [i \in DOMAIN made |-> 0] = <<>>
    BY <1>2
  <2>. QED
    BY <2>1, <2>2
<1>5. Makes(made, c, item)
  BY <1>3, <1>4 DEF Makes
<1>6. MadeIds(made) = {}
  BY <1>2 DEF MadeIds
<1>7. PICK top : top = 0 - Top(c)
  OBVIOUS
<1>8. MadeHolders(made, c) = {top} /\ ~(top > 0)
  BY <1>1, <1>6, <1>7 DEF MadeHolders, Top
<1>9. item.ids = ids /\ item.kind = kind
  BY DEF Item
<1>10. Gives(made, item, top) = ids
  BY <1>8, <1>9 DEF Gives
<1>11. Passes(made, c, item)
  BY <1>6, <1>8, <1>10 DEF Passes
<1>12. Valued(item)'
  BY DEF Valued, ExpressionIds, ParameterIds, StatementIds, Ids
<1>. QED
  BY <1>2, <1>5, <1>6, <1>9, <1>11, <1>12, ParserStep

\* An empty value on top of the others.
LEMMA OpenStep ==
  ASSUME Parsing, NEW kind \in {"block", "arguments", "parameters"}, Open(Item(kind, <<>>))
  PROVE  TreeInv'
<1>1. Len(stack) \in Nat /\ stack = [i \in 1 .. Len(stack) |-> stack[i]]
  BY ParsingIs DEF Typed
<1>2. PICK ids, item : ids = <<>> /\ item = Item(kind, ids)
  OBVIOUS
<1>3. ids \in Seq(Nat) /\ ToSet(ids) = {} /\ IsInjective(ids)
  BY <1>2, Short
<1>4. SubSeq(stack, 1, Len(stack) - 0) = stack
  BY <1>1
<1>5. stack' = Append(SubSeq(stack, 1, Len(stack) - 0), item)
  BY <1>2, <1>4 DEF Open
<1>6. \A x : x \in Tops(0) <=> x \in ToSet(ids)
  BY <1>1, <1>3 DEF Tops, Top
<1>7. Valued(item)
  BY <1>2, <1>3 DEF Valued, Item
<1>8. 0 \in 0 .. Len(stack)
  BY <1>1
<1>. QED
  BY <1>2, <1>3, <1>5, <1>6, <1>7, <1>8, NoNode DEF Open

\* What is on top, of two values.
LEMMA TopsTwo ==
  ASSUME Parsing, 2 <= Len(stack)
  PROVE  /\ 2 \in 0 .. Len(stack) /\ Holds(1) /\ Holds(2)
         /\ ToSet(Value(2)) \cap ToSet(Value(1)) = {}
         /\ Value(2) \o Value(1) \in Seq(Nat) /\ IsInjective(Value(2) \o Value(1))
         /\ ToSet(Value(2) \o Value(1)) = ToSet(Value(2)) \cup ToSet(Value(1))
         /\ \A x : x \in Tops(2) <=> x \in ToSet(Value(2) \o Value(1))
<1>1. Len(stack) \in Nat
  BY ParsingIs
<1>2. 2 \in 0 .. Len(stack) /\ 1 \in 1 .. Len(stack) /\ 2 \in 1 .. Len(stack)
  BY <1>1
<1>3. Holds(1) /\ Holds(2) /\ ToSet(Value(2)) \cap ToSet(Value(1)) = {}
  BY <1>2, ValuesHold
<1>4. PICK s, t : s = Value(2) /\ t = Value(1)
  OBVIOUS
<1>5. s \in Seq(Nat) /\ t \in Seq(Nat) /\ IsInjective(s) /\ IsInjective(t) /\ ToSet(s) \cap ToSet(t) = {}
  BY <1>3, <1>4 DEF Holds
<1>6. s \o t \in Seq(Nat) /\ IsInjective(s \o t) /\ ToSet(s \o t) = ToSet(s) \cup ToSet(t)
  BY <1>5, Joined
<1>7. \A x : x \in Tops(2) <=> \E i \in 1 .. 2 : x \in ToSet(Value(i))
  BY <1>2, TopsAre
<1>8. \A i : i \in 1 .. 2 <=> i = 1 \/ i = 2
  OBVIOUS
<1>9. \A x : x \in Tops(2) <=> x \in ToSet(s \o t)
  BY <1>4, <1>6, <1>7, <1>8
<1>. QED
  BY <1>2, <1>3, <1>4, <1>6, <1>9

\* The nodes of the value on top.
LEMMA TopsOne ==
  ASSUME Parsing, 1 <= Len(stack)
  PROVE  1 \in 0 .. Len(stack) /\ Holds(1) /\ \A x : x \in Tops(1) <=> x \in ToSet(Value(1))
<1>1. Len(stack) \in Nat
  BY ParsingIs
<1>2. 1 \in 0 .. Len(stack) /\ 1 \in 1 .. Len(stack) /\ \A i : i \in 1 .. 1 <=> i = 1
  BY <1>1
<1>. QED
  BY <1>2, ValuesHold, TopsAre

\* The reductions to expressions keep the invariant.
LEMMA AtomKeeps ==
  ASSUME Parsing, NEW tag \in Atoms, Atom(tag)
  PROVE  TreeInv'
<1>1. Len(stack) \in Nat
  BY ParsingIs
<1>2. PICK exprs : exprs = <<>>
  OBVIOUS
<1>3. exprs \in Seq(Nat) /\ ToSet(exprs) = {} /\ IsInjective(exprs)
  BY <1>2, Short
<1>4. \A x : x \in Tops(0) <=> x \in ToSet(exprs)
  BY <1>1, <1>3 DEF Tops, Top
<1>5. tag \in ExpressionTags /\ 0 \in 0 .. Len(stack) /\ Expression(tag, exprs, 0) /\ ToSet(exprs) \subseteq ExpressionIds
  BY <1>1, <1>2, <1>3 DEF ExpressionTags, Atom
<1>. QED
  BY <1>2, <1>3, <1>4, <1>5, ExpressionStep

\* An operation holds its operands.
LEMMA BinaryOpKeeps ==
  ASSUME Parsing, BinaryOp
  PROVE  TreeInv'
<1>1. Len(stack) \in Nat /\ Kinds(<<"expression", "expression">>)
  BY ParsingIs DEF BinaryOp
<1>2. 2 <= Len(stack) /\ KindOf(2) = "expression" /\ KindOf(1) = "expression"
  BY <1>1, KindsHave
<1>3. PICK exprs : exprs = Value(2) \o Value(1)
  OBVIOUS
<1>4. /\ 2 \in 0 .. Len(stack) /\ exprs \in Seq(Nat) /\ IsInjective(exprs)
      /\ \A x : x \in Tops(2) <=> x \in ToSet(exprs)
      /\ ToSet(exprs) \subseteq ExpressionIds
  BY <1>2, <1>3, TopsTwo DEF Holds
<1>5. "binary" \in ExpressionTags /\ "binary" \notin Atoms /\ Expression("binary", exprs, 2)
  BY <1>3 DEF ExpressionTags, Atoms, BinaryOp
<1>. QED
  BY <1>4, <1>5, ExpressionStep

\* An operation holds its operand.
LEMMA UnaryOpKeeps ==
  ASSUME Parsing, UnaryOp
  PROVE  TreeInv'
<1>1. Len(stack) \in Nat /\ Kinds(<<"expression">>)
  BY ParsingIs DEF UnaryOp
<1>2. 1 <= Len(stack) /\ KindOf(1) = "expression"
  BY <1>1, KindsHave
<1>3. PICK exprs : exprs = Value(1)
  OBVIOUS
<1>4. /\ 1 \in 0 .. Len(stack) /\ exprs \in Seq(Nat) /\ IsInjective(exprs)
      /\ \A x : x \in Tops(1) <=> x \in ToSet(exprs)
      /\ ToSet(exprs) \subseteq ExpressionIds
  BY <1>2, <1>3, TopsOne DEF Holds
<1>5. "unary" \in ExpressionTags /\ "unary" \notin Atoms /\ Expression("unary", exprs, 1)
  BY <1>3 DEF ExpressionTags, Atoms, UnaryOp
<1>. QED
  BY <1>4, <1>5, ExpressionStep

\* A call holds its arguments.
LEMMA FunctionCallKeeps ==
  ASSUME Parsing, NEW tag \in CallTags, FunctionCall(tag)
  PROVE  TreeInv'
<1>1. Len(stack) \in Nat /\ Kinds(<<"arguments">>)
  BY ParsingIs DEF FunctionCall
<1>2. 1 <= Len(stack) /\ KindOf(1) = "arguments"
  BY <1>1, KindsHave
<1>3. PICK exprs : exprs = Value(1)
  OBVIOUS
<1>4. /\ 1 \in 0 .. Len(stack) /\ exprs \in Seq(Nat) /\ IsInjective(exprs)
      /\ \A x : x \in Tops(1) <=> x \in ToSet(exprs)
      /\ ToSet(exprs) \subseteq ExpressionIds
  BY <1>2, <1>3, TopsOne DEF Holds
<1>5. tag \in ExpressionTags /\ tag \notin Atoms /\ Expression(tag, exprs, 1)
  BY <1>3 DEF ExpressionTags, CallTags, Atoms, FunctionCall
<1>. QED
  BY <1>4, <1>5, ExpressionStep

\* append_arguments moves an expression to the arguments.
LEMMA AppendArgumentKeeps ==
  ASSUME Parsing, AppendArgument
  PROVE  TreeInv'
<1>1. Len(stack) \in Nat /\ Kinds(<<"arguments", "expression">>)
  BY ParsingIs DEF AppendArgument
<1>2. 2 <= Len(stack) /\ KindOf(2) = "arguments" /\ KindOf(1) = "expression"
  BY <1>1, KindsHave
<1>3. PICK ids, item : ids = Value(2) \o Value(1) /\ item = Item("arguments", ids)
  OBVIOUS
<1>4. /\ 2 \in 0 .. Len(stack) /\ ids \in Seq(Nat) /\ IsInjective(ids)
      /\ \A x : x \in Tops(2) <=> x \in ToSet(ids)
      /\ ToSet(ids) \subseteq ExpressionIds
  BY <1>2, <1>3, TopsTwo DEF Holds
<1>5. Valued(item)
  BY <1>3, <1>4 DEF Valued, Item
<1>6. /\ UNCHANGED <<nodes, stage, todo, freed, dropped, stale>>
      /\ stack' = Append(SubSeq(stack, 1, Len(stack) - 2), item)
  BY <1>3 DEF AppendArgument
<1>. QED
  BY <1>3, <1>4, <1>5, <1>6, NoNode

\* The tags of statements.
StatementTags == Tags \ (ExpressionTags \cup {"parameter"})

\* A statement is no expression and no parameter.
LEMMA StatementTagsAre ==
  /\ {"assignment", "return", "flow", "if", "while", "for", "function"} = StatementTags
  /\ StatementTags \cap ExpressionTags = {} /\ StatementTags \cap Atoms = {} /\ "parameter" \in Tags /\ "parameter" \notin ExpressionTags
  /\ StatementTags \subseteq Tags
  BY DEF StatementTags, Tags, ExpressionTags, Atoms, CallTags

\* A list of one, and of nothing.
LEMMA OneLong ==
  ASSUME NEW v \in Seq(Nat), Len(v) = 1
  PROVE  v # <<>> /\ Len(v) <= 1 /\ v = << v[1] >> /\ ToSet(v) = {v[1]} /\ v[1] \in Nat
<1>1. v # <<>>
  <2>. SUFFICES ASSUME v = <<>> PROVE FALSE
    OBVIOUS
  <2>. QED
    OBVIOUS
<1>2. v = << v[1] >> /\ v[1] \in Nat
  <2>1. v[1] \in Nat
    <3>1. 1 \in 1 .. Len(v) /\ \A i \in 1 .. Len(v) : v[i] \in Nat
      BY SeqIs
    <3>. QED
      BY <3>1
  <2>. DEFINE w == << v[1] >>
  <2>2. w \in Seq(Nat) /\ Len(w) = 1 /\ w[1] = v[1]
    BY <2>1
  <2>. HIDE DEF w
  <2>3. \A i \in 1 .. Len(v) : v[i] = w[i]
    BY <2>2
  <2>4. v = w
    BY <2>2, <2>3, SeqEqual
  <2>. QED
    BY <2>1, <2>4 DEF w
<1>3. ToSet(v) = {v[1]}
  BY <1>2, Short
<1>. QED
  BY <1>1, <1>2, <1>3

\* A statement without values, with one, with two and with three.
LEMMA BareStatement ==
  ASSUME Parsing, Kinds(<<"block">>), NEW tag \in {"return", "flow"}, NEW node,
         node = Node(tag, <<>>, <<>>, <<>>), Statement(node, 0)
  PROVE  TreeInv'
<1>1. Len(stack) \in Nat
  BY ParsingIs
<1>2. 1 <= Len(stack) /\ KindOf(1) = "block"
  BY <1>1, KindsHave
<1>3. PICK e : e = <<>>
  OBVIOUS
<1>4. e \in Seq(Nat) /\ ToSet(e) = {} /\ IsInjective(e)
  BY <1>3, Short
<1>5. tag \in StatementTags /\ tag \in Tags /\ tag \notin Atoms
  BY StatementTagsAre
<1>6. node.tag = tag /\ node.exprs = e /\ node.block = e /\ node.orelse = e /\ node = Node(tag, e, e, e)
  <2>1. node = Node(tag, e, e, e)
    BY <1>3
  <2>. QED
    BY <2>1, <1>4, <1>5, NodeIs
<1>7. Fits(node)
  BY <1>3, <1>4, <1>6 DEF Fits
<1>8. 0 \in Nat /\ 0 + 1 <= Len(stack) /\ KindOf(0 + 1) = "block"
  BY <1>2
<1>9. \A x : (\E i \in 1 .. 0 : x \in ToSet(Value(i))) <=> x \in ToSet(e) \/ x \in ToSet(e) \/ x \in ToSet(e)
  BY <1>4
<1>. QED
  BY <1>4, <1>5, <1>6, <1>7, <1>8, <1>9, StatementStep DEF StatementTags

\* A statement of an expression.
LEMMA ValueStatement ==
  ASSUME Parsing, Kinds(<<"block", "expression">>), NEW tag \in {"assignment", "return"}, NEW node,
         node = Node(tag, Value(1), <<>>, <<>>), Statement(node, 1)
  PROVE  TreeInv'
<1>1. Len(stack) \in Nat
  BY ParsingIs
<1>2. 2 <= Len(stack) /\ KindOf(2) = "block" /\ KindOf(1) = "expression"
  BY <1>1, KindsHave
<1>3. PICK e, v : e = <<>> /\ v = Value(1)
  OBVIOUS
<1>4. e \in Seq(Nat) /\ ToSet(e) = {} /\ IsInjective(e)
  BY <1>3, Short
<1>5. tag \in StatementTags /\ tag \in Tags /\ tag \notin Atoms
  BY StatementTagsAre
<1>6. v \in Seq(Nat) /\ IsInjective(v) /\ Len(v) = 1 /\ ToSet(v) \subseteq ExpressionIds
  BY <1>2, <1>3, TopsTwo DEF Holds
<1>7. node.tag = tag /\ node.exprs = v /\ node.block = e /\ node.orelse = e /\ node = Node(tag, v, e, e)
  <2>1. node = Node(tag, v, e, e)
    BY <1>3
  <2>. QED
    BY <2>1, <1>4, <1>5, <1>6, NodeIs
<1>8. Fits(node)
  <2>1. tag # "function" /\ v # <<>> /\ Len(v) <= 1
    BY <1>6, OneLong
  <2>. QED
    BY <1>3, <1>4, <1>5, <1>6, <1>7, <2>1 DEF Fits
<1>9. 1 \in Nat /\ 1 + 1 <= Len(stack) /\ KindOf(1 + 1) = "block"
  BY <1>2
<1>10. \A x : (\E i \in 1 .. 1 : x \in ToSet(Value(i))) <=> x \in ToSet(v) \/ x \in ToSet(e) \/ x \in ToSet(e)
  <2>1. \A i : i \in 1 .. 1 <=> i = 1
    OBVIOUS
  <2>. QED
    BY <1>3, <1>4, <2>1
<1>11. ToSet(v) \cap ToSet(e) = {} /\ ToSet(e) \cap ToSet(e) = {}
  BY <1>4
<1>. QED
  BY <1>4, <1>5, <1>6, <1>7, <1>8, <1>9, <1>10, <1>11, StatementStep DEF StatementTags

\* A statement of an expression or of parameters, and a block.
LEMMA BlockStatement ==
  ASSUME Parsing, NEW kind \in {"expression", "parameters"}, Kinds(<<"block", kind, "block">>),
         NEW tag \in {"if", "while", "for", "function"}, tag = "function" <=> kind = "parameters",
         NEW node, node = Node(tag, Value(2), Value(1), <<>>), Statement(node, 2)
  PROVE  TreeInv'
<1>1. Len(stack) \in Nat
  BY ParsingIs
<1>2. 3 <= Len(stack) /\ KindOf(3) = "block" /\ KindOf(2) = kind /\ KindOf(1) = "block"
  BY <1>1, KindsHave
<1>3. PICK e, v, b : e = <<>> /\ v = Value(2) /\ b = Value(1)
  OBVIOUS
<1>4. e \in Seq(Nat) /\ ToSet(e) = {} /\ IsInjective(e)
  BY <1>3, Short
<1>5. tag \in StatementTags /\ tag \in Tags /\ tag \notin Atoms
  BY StatementTagsAre
<1>6. Holds(1) /\ Holds(2) /\ ToSet(v) \cap ToSet(b) = {}
  BY <1>2, <1>3, TopsTwo
<1>7. /\ v \in Seq(Nat) /\ IsInjective(v) /\ b \in Seq(Nat) /\ IsInjective(b) /\ ToSet(b) \subseteq StatementIds
      /\ IF tag = "function" THEN ToSet(v) \subseteq ParameterIds
         ELSE Len(v) = 1 /\ ToSet(v) \subseteq ExpressionIds
  BY <1>2, <1>3, <1>6 DEF Holds
<1>8. node.tag = tag /\ node.exprs = v /\ node.block = b /\ node.orelse = e /\ node = Node(tag, v, b, e)
  <2>1. node = Node(tag, v, b, e)
    BY <1>3
  <2>. QED
    BY <2>1, <1>4, <1>5, <1>7, NodeIs
<1>9. Fits(node)
  <2>1. CASE tag = "function"
    <3>1. ToSet(v) \subseteq ParameterIds
      BY <1>7, <2>1
    <3>. QED
      BY <1>3, <1>4, <1>5, <1>7, <1>8, <2>1, <3>1 DEF Fits
  <2>2. CASE tag # "function"
    <3>1. v # <<>> /\ Len(v) <= 1 /\ ToSet(v) \subseteq ExpressionIds
      BY <1>7, <2>2, OneLong
    <3>. QED
      BY <1>3, <1>4, <1>5, <1>7, <1>8, <2>2, <3>1 DEF Fits
  <2>. QED
    BY <2>1, <2>2
<1>10. 2 \in Nat /\ 2 + 1 <= Len(stack) /\ KindOf(2 + 1) = "block"
  BY <1>2
<1>11. \A x : (\E i \in 1 .. 2 : x \in ToSet(Value(i))) <=> x \in ToSet(v) \/ x \in ToSet(b) \/ x \in ToSet(e)
  <2>1. \A i : i \in 1 .. 2 <=> i = 1 \/ i = 2
    OBVIOUS
  <2>. QED
    BY <1>3, <1>4, <2>1
<1>12. ToSet(v) \cap ToSet(e) = {} /\ ToSet(b) \cap ToSet(e) = {}
  BY <1>4
<1>. QED
  BY <1>4, <1>5, <1>6, <1>7, <1>8, <1>9, <1>10, <1>11, <1>12, StatementStep DEF StatementTags

\* An if with two blocks.
LEMMA IfElseStatement ==
  ASSUME Parsing, Kinds(<<"block", "expression", "block", "block">>),
         NEW node, node = Node("if", Value(3), Value(2), Value(1)), Statement(node, 3)
  PROVE  TreeInv'
<1>1. Len(stack) \in Nat
  BY ParsingIs
<1>2. /\ 4 <= Len(stack) /\ KindOf(4) = "block" /\ KindOf(3) = "expression"
      /\ KindOf(2) = "block" /\ KindOf(1) = "block"
  BY <1>1, KindsHave
<1>3. PICK v, b, o : v = Value(3) /\ b = Value(2) /\ o = Value(1)
  OBVIOUS
<1>4. 1 \in 1 .. Len(stack) /\ 2 \in 1 .. Len(stack) /\ 3 \in 1 .. Len(stack)
  BY <1>1, <1>2
<1>5. "if" \in StatementTags /\ "if" \in Tags /\ "if" \notin Atoms
  BY StatementTagsAre
<1>6. /\ Holds(1) /\ Holds(2) /\ Holds(3)
      /\ ToSet(v) \cap ToSet(b) = {} /\ ToSet(v) \cap ToSet(o) = {} /\ ToSet(b) \cap ToSet(o) = {}
  BY <1>3, <1>4, ValuesHold
<1>7. /\ v \in Seq(Nat) /\ IsInjective(v) /\ Len(v) = 1 /\ ToSet(v) \subseteq ExpressionIds
      /\ b \in Seq(Nat) /\ IsInjective(b) /\ ToSet(b) \subseteq StatementIds
      /\ o \in Seq(Nat) /\ IsInjective(o) /\ ToSet(o) \subseteq StatementIds
  BY <1>2, <1>3, <1>6 DEF Holds
<1>8. node.tag = "if" /\ node.exprs = v /\ node.block = b /\ node.orelse = o /\ node = Node("if", v, b, o)
  BY <1>3, <1>5, <1>7, NodeIs
<1>9. Fits(node)
  <2>1. v # <<>> /\ Len(v) <= 1
    BY <1>7, OneLong
  <2>. QED
    BY <1>5, <1>7, <1>8, <2>1 DEF Fits
<1>10. 3 \in Nat /\ 3 + 1 <= Len(stack) /\ KindOf(3 + 1) = "block"
  BY <1>2
<1>11. \A x : (\E i \in 1 .. 3 : x \in ToSet(Value(i))) <=> x \in ToSet(v) \/ x \in ToSet(b) \/ x \in ToSet(o)
  <2>1. \A i : i \in 1 .. 3 <=> i = 1 \/ i = 2 \/ i = 3
    OBVIOUS
  <2>. QED
    BY <1>3, <2>1
<1>. QED
  BY <1>5, <1>6, <1>7, <1>8, <1>9, <1>10, <1>11, StatementStep DEF StatementTags

\* append_parameters makes a parameter behind the others.
LEMMA AppendParameterKeeps ==
  ASSUME Parsing, AppendParameter
  PROVE  TreeInv'
<1>1. Len(stack) \in Nat /\ Kinds(<<"parameters">>)
  BY ParsingIs DEF AppendParameter
<1>2. 1 <= Len(stack) /\ KindOf(1) = "parameters"
  BY <1>1, KindsHave
<1>3. PICK e, rest, new : e = <<>> /\ rest = Value(1) /\ new = New
  OBVIOUS
<1>4. e \in Seq(Nat) /\ ToSet(e) = {} /\ IsInjective(e)
  BY <1>3, Short
<1>5. PICK node, item : node = Node("parameter", e, e, e) /\ item = Item("parameters", rest \o << new >>)
  OBVIOUS
<1>6. node.tag = "parameter" /\ node.exprs = e /\ node.block = e /\ node.orelse = e /\ IsNode(node)
  BY <1>4, <1>5, StatementTagsAre, NodeIs
<1>7. /\ 1 \in 0 .. Len(stack) /\ rest \in Seq(Nat) /\ IsInjective(rest) /\ ToSet(rest) \subseteq ParameterIds
      /\ \A x : x \in Tops(1) <=> x \in ToSet(rest)
  BY <1>2, <1>3, TopsOne DEF Holds
<1>8. Fits(node)
  BY <1>3, <1>4, <1>6 DEF Fits
<1>9. Apart(node, rest)
  BY <1>4, <1>6, <1>7 DEF Apart
<1>10. Becomes("parameters", node, rest)
  BY <1>6, <1>7 DEF Becomes
<1>11. Append(rest, new) = rest \o << new >>
  BY <1>7
<1>12. Makes(<< node >>, 1, item)
  <2>1. node = Node("parameter", <<>>, <<>>, <<>>) /\ item = Item("parameters", Append(Value(1), New))
    BY <1>3, <1>5, <1>11
  <2>. QED
    BY <2>1 DEF AppendParameter, Reduce, ReduceTo, Makes
<1>13. \A x : x \in Tops(1) <=> x \in ToSet(node.exprs) \/ x \in ToSet(node.block)
                                  \/ x \in ToSet(node.orelse) \/ x \in ToSet(rest)
  BY <1>4, <1>6, <1>7
<1>. QED
  BY <1>3, <1>5, <1>6, <1>7, <1>8, <1>9, <1>10, <1>12, <1>13, OneNode

\* The lists of a node whose blocks are empty.
LEMMA ListsShort ==
  ASSUME NEW d, IsNode(d), d.block = <<>>, d.orelse = <<>>
  PROVE  Lists(d) = d.exprs
  BY DEF IsNode, Lists

\* The name, the operation and the assignment of OpAssignment.
LEMMA OpAssignmentKeeps ==
  ASSUME Parsing, OpAssignment
  PROVE  TreeInv'
<1>1. /\ Typed /\ Len(stack) \in Nat /\ Len(nodes) \in Nat /\ Ids = 1 .. Len(nodes)
      /\ Kinds(<<"block", "expression">>)
  BY ParsingIs DEF OpAssignment
<1>2. 2 <= Len(stack) /\ KindOf(2) = "block" /\ KindOf(1) = "expression"
  BY <1>1, KindsHave
<1>3. PICK e, v, rest, new : e = <<>> /\ v = Value(1) /\ rest = Value(2) /\ new = New
  OBVIOUS
<1>4. e \in Seq(Nat) /\ ToSet(e) = {} /\ IsInjective(e)
  BY <1>3, Short
<1>5. /\ v \in Seq(Nat) /\ IsInjective(v) /\ ToSet(v) \subseteq ExpressionIds
      /\ rest \in Seq(Nat) /\ IsInjective(rest) /\ ToSet(rest) \subseteq StatementIds
      /\ ToSet(rest) \cap ToSet(v) = {} /\ 2 \in 0 .. Len(stack)
  BY <1>2, <1>3, TopsTwo DEF Holds
<1>6. \A x : x \in Tops(2) <=> x \in ToSet(rest) \/ x \in ToSet(v)
  BY <1>2, <1>3, TopsTwo
<1>7. /\ ToSet(v) \subseteq Ids /\ ToSet(rest) \subseteq Ids /\ new = Len(nodes) + 1
      /\ new \in Nat /\ new + 1 \in Nat /\ new + 2 \in Nat
      /\ new \notin Ids /\ new + 1 \notin Ids /\ new + 2 \notin Ids
  BY <1>1, <1>3, <1>5 DEF New, ExpressionIds, StatementIds
<1>8. PICK ops, one, last, ids :
        ops = << new >> \o v /\ one = << new + 1 >> /\ last = << new + 2 >> /\ ids = rest \o << new + 2 >>
  OBVIOUS
<1>9. one \in Seq(Nat) /\ ToSet(one) = {new + 1} /\ IsInjective(one)
  BY <1>7, <1>8, Short
<1>10. last \in Seq(Nat) /\ ToSet(last) = {new + 2} /\ IsInjective(last)
  BY <1>7, <1>8, Short
<1>11. ops \in Seq(Nat) /\ ToSet(ops) = {new} \cup ToSet(v) /\ IsInjective(ops)
  <2>1. PICK s : s = << new >>
    OBVIOUS
  <2>2. s \in Seq(Nat) /\ ToSet(s) = {new} /\ IsInjective(s)
    BY <1>7, <2>1, Short
  <2>3. ToSet(s) \cap ToSet(v) = {}
    BY <1>7, <2>2
  <2>4. s \o v \in Seq(Nat) /\ ToSet(s \o v) = ToSet(s) \cup ToSet(v) /\ IsInjective(s \o v)
    BY <1>5, <2>2, <2>3, Joined
  <2>. QED
    BY <1>8, <2>1, <2>2, <2>4
<1>12. ids \in Seq(Nat) /\ ToSet(ids) = ToSet(rest) \cup {new + 2} /\ IsInjective(ids)
  <2>1. ToSet(rest) \cap ToSet(last) = {}
    BY <1>7, <1>10
  <2>2. /\ rest \o last \in Seq(Nat) /\ ToSet(rest \o last) = ToSet(rest) \cup ToSet(last)
        /\ IsInjective(rest \o last)
    BY <1>5, <1>10, <2>1, Joined
  <2>. QED
    BY <1>8, <1>10, <2>2
<1>13. PICK a, b, d, item : /\ a = Node("name", e, e, e) /\ b = Node("binary", ops, e, e)
                            /\ d = Node("assignment", one, e, e) /\ item = Item("block", ids)
  OBVIOUS
<1>14. {"name", "binary", "assignment"} \subseteq Tags /\ {"name", "binary"} \subseteq ExpressionTags
       /\ "assignment" \notin ExpressionTags /\ "assignment" \notin Atoms /\ "binary" \notin Atoms
  BY DEF Tags, ExpressionTags, Atoms, CallTags
<1>15. IsNode(a) /\ a.tag = "name" /\ a.exprs = e /\ a.block = e /\ a.orelse = e
  BY <1>4, <1>13, <1>14, NodeIs
<1>16. IsNode(b) /\ b.tag = "binary" /\ b.exprs = ops /\ b.block = e /\ b.orelse = e
  BY <1>4, <1>11, <1>13, <1>14, NodeIs
<1>17. IsNode(d) /\ d.tag = "assignment" /\ d.exprs = one /\ d.block = e /\ d.orelse = e
  BY <1>4, <1>9, <1>13, <1>14, NodeIs
<1>18. Lists(a) = e /\ Lists(b) = ops /\ Lists(d) = one
  BY <1>3, <1>15, <1>16, <1>17, ListsShort
<1>19. PICK made : made = << a, b, d >>
  OBVIOUS
<1>20. /\ made \in Seq({a, b, d}) /\ Len(made) = 3 /\ DOMAIN made = {1, 2, 3}
       /\ made[1] = a /\ made[2] = b /\ made[3] = d
  BY <1>19
<1>21. item.ids = ids /\ item.kind = "block" /\ item = Item(item.kind, item.ids)
  BY <1>13 DEF Item
<1>22. Makes(made, 2, item)
  <2>1. made = << Node("name", <<>>, <<>>, <<>>), Node("binary", << New >> \o Value(1), <<>>, <<>>),
                  Node("assignment", << New + 1 >>, <<>>, <<>>) >>
    BY <1>3, <1>8, <1>13, <1>19
  <2>2. Append(rest, new + 2) = ids
    BY <1>5, <1>8
  <2>3. item = Item("block", Append(Value(2), New + 2))
    BY <1>3, <1>13, <2>2
  <2>. QED
    BY <2>1, <2>3 DEF OpAssignment, ReduceTo, Makes
<1>23. MadeIds(made) = {new, new + 1, new + 2}
  <2>1. new = Len(nodes) + 1 /\ new + 1 = Len(nodes) + 2 /\ new + 2 = Len(nodes) + 3
    BY <1>1, <1>7
  <2>. QED
    BY <1>20, <2>1 DEF MadeIds
<1>24. PICK top : top = 0 - Top(2)
  OBVIOUS
<1>25. /\ MadeHolders(made, 2) = {new, new + 1, new + 2, top}
       /\ ~(top > 0) /\ top \notin {new, new + 1, new + 2}
  BY <1>1, <1>2, <1>7, <1>23, <1>24 DEF MadeHolders, Top
<1>26. /\ Gives(made, item, new) = e /\ Gives(made, item, new + 1) = ops
       /\ Gives(made, item, new + 2) = one /\ Gives(made, item, top) = ids
  <2>1. /\ new > 0 /\ new - Len(nodes) = 1 /\ new + 1 > 0 /\ new + 1 - Len(nodes) = 2
        /\ new + 2 > 0 /\ new + 2 - Len(nodes) = 3
    BY <1>1, <1>7
  <2>2. Gives(made, item, new) = Lists(made[1])
    BY <2>1 DEF Gives
  <2>3. Gives(made, item, new + 1) = Lists(made[2])
    <3>1. PICK p : p = new + 1
      OBVIOUS
    <3>2. p > 0 /\ p - Len(nodes) = 2
      BY <1>1, <1>7, <3>1
    <3>3. Gives(made, item, p) = Lists(made[2])
      BY <3>2 DEF Gives
    <3>. QED
      BY <3>1, <3>3
  <2>4. Gives(made, item, new + 2) = Lists(made[3])
    <3>1. PICK p : p = new + 2
      OBVIOUS
    <3>2. p > 0 /\ p - Len(nodes) = 3
      BY <1>1, <1>7, <3>1
    <3>3. Gives(made, item, p) = Lists(made[3])
      BY <3>2 DEF Gives
    <3>. QED
      BY <3>1, <3>3
  <2>5. Gives(made, item, top) = ids
    BY <1>21, <1>25 DEF Gives
  <2>. QED
    BY <1>18, <1>20, <2>2, <2>3, <2>4, <2>5
<1>27. new # new + 1 /\ new # new + 2 /\ new + 1 # new + 2
  BY <1>7
<1>28. PICK p, q : p = new + 1 /\ q = new + 2
  OBVIOUS
<1>29. Passes(made, 2, item)
  <2>1. /\ MadeHolders(made, 2) = {new, p, q, top} /\ MadeIds(made) = {new, p, q}
        /\ Gives(made, item, new) = e /\ Gives(made, item, p) = ops
        /\ Gives(made, item, q) = one /\ Gives(made, item, top) = ids
        /\ new # p /\ new # q /\ p # q /\ new \notin Ids /\ p \notin Ids /\ q \notin Ids
        /\ ToSet(e) = {} /\ ToSet(ops) = {new} \cup ToSet(v) /\ ToSet(one) = {p} /\ ToSet(ids) = ToSet(rest) \cup {q}
    BY <1>4, <1>7, <1>9, <1>11, <1>12, <1>23, <1>25, <1>26, <1>27, <1>28
  <2>2. \A h \in MadeHolders(made, 2) : IsInjective(Gives(made, item, h))
    BY <1>4, <1>9, <1>11, <1>12, <2>1
  <2>3. /\ ToSet(ops) \cap ToSet(one) = {} /\ ToSet(ops) \cap ToSet(ids) = {}
        /\ ToSet(one) \cap ToSet(ids) = {}
    BY <1>5, <1>7, <2>1
  <2>4. \A h, g \in MadeHolders(made, 2) :
          h # g => ToSet(Gives(made, item, h)) \cap ToSet(Gives(made, item, g)) = {}
    BY <2>1, <2>3
  <2>5. ASSUME NEW x
        PROVE  x \in Tops(2) \cup MadeIds(made) <=> \E h \in MadeHolders(made, 2) : x \in ToSet(Gives(made, item, h))
    BY <1>6, <2>1
  <2>. QED
    BY <2>2, <2>4, <2>5 DEF Passes
<1>30. /\ Ids' = Ids \cup {new, new + 1, new + 2}
       /\ \A n \in Ids : nodes'[n] = nodes[n]
       /\ nodes'[new] = a /\ nodes'[new + 1] = b /\ nodes'[new + 2] = d
  <2>1. nodes' = nodes \o made /\ freed' = freed \o [i \in DOMAIN made |-> 0]
    BY <1>22 DEF Makes
  <2>2. PICK M : made \in Seq(M)
    BY <1>20
  <2>3. /\ Ids' = Ids \cup MadeIds(made)
        /\ \A n \in Ids : nodes'[n] = nodes[n] /\ freed'[n] = freed[n]
        /\ \A i \in DOMAIN made : nodes'[Len(nodes) + i] = made[i] /\ freed'[Len(nodes) + i] = 0
    <3>1. Typed
      BY <1>1
    <3>. QED
      BY <2>1, <2>2, <3>1, MadeNodes
  <2>4. nodes'[Len(nodes) + 1] = a /\ nodes'[Len(nodes) + 2] = b /\ nodes'[Len(nodes) + 3] = d
    BY <1>20, <2>3
  <2>5. new = Len(nodes) + 1 /\ new + 1 = Len(nodes) + 2 /\ new + 2 = Len(nodes) + 3
    BY <1>1, <1>7
  <2>. QED
    BY <1>23, <2>3, <2>4, <2>5
<1>31. /\ ExpressionIds \subseteq ExpressionIds' /\ StatementIds \subseteq StatementIds'
       /\ new \in ExpressionIds' /\ new + 1 \in ExpressionIds' /\ new + 2 \in StatementIds'
  BY <1>14, <1>15, <1>16, <1>17, <1>30 DEF ExpressionIds, StatementIds
<1>32. ASSUME NEW n \in MadeIds(made) PROVE Tagged(n)'
  <2>1. CASE n = new
    <3>1. nodes'[n] = a /\ Parts(n)' = Lists(a)
      BY <1>30, <2>1 DEF Parts, Lists
    <3>. QED
      BY <1>3, <1>4, <1>15, <1>18, <2>1, <3>1 DEF Tagged
  <2>2. CASE n = new + 1
    <3>1. nodes'[n] = b /\ Parts(n)' = Lists(b)
      BY <1>30, <2>2 DEF Parts, Lists
    <3>2. \A k \in ToSet(ops) : k < n
      BY <1>1, <1>7, <1>11, <2>2
    <3>3. ToSet(ops) \subseteq ExpressionIds'
      BY <1>5, <1>11, <1>31
    <3>. QED
      BY <1>3, <1>4, <1>14, <1>16, <1>18, <2>2, <3>1, <3>2, <3>3 DEF Tagged
  <2>3. CASE n = new + 2
    <3>1. nodes'[n] = d /\ Parts(n)' = Lists(d)
      BY <1>30, <2>3 DEF Parts, Lists
    <3>2. \A k \in ToSet(one) : k < n
      BY <1>1, <1>7, <1>9, <2>3
    <3>3. ToSet(one) \subseteq ExpressionIds'
      BY <1>9, <1>31
    <3>4. Len(one) <= 1 /\ one # <<>>
      BY <1>8
    <3>. QED
      BY <1>3, <1>4, <1>14, <1>17, <1>18, <2>3, <3>1, <3>2, <3>3, <3>4 DEF Tagged
  <2>. QED
    BY <1>23, <2>1, <2>2, <2>3
<1>33. Valued(item)'
  <2>1. ToSet(ids) \subseteq StatementIds'
    BY <1>5, <1>12, <1>31
  <2>. QED
    BY <1>21, <2>1 DEF Valued
<1>34. \A i \in DOMAIN made : IsNode(made[i])
  BY <1>15, <1>16, <1>17, <1>20
<1>35. item.kind \in {"block", "expression", "arguments", "parameters"} /\ item.ids \in Seq(Nat)
  BY <1>12, <1>21
<1>. QED
  BY <1>5, <1>20, <1>21, <1>22, <1>29, <1>32, <1>33, <1>34, <1>35, ParserStep

\* Every step of the parser keeps the invariant.
LEMMA ParseKeeps == Parsing /\ Parse => TreeInv'
<1>. SUFFICES ASSUME Parsing, Parse PROVE TreeInv'
  OBVIOUS
<1>1. ASSUME NEW tag \in Atoms, Atom(tag) PROVE TreeInv'
  BY <1>1, AtomKeeps
<1>2. ASSUME NEW tag \in CallTags, FunctionCall(tag) PROVE TreeInv'
  BY <1>2, FunctionCallKeeps
<1>3. CASE BinaryOp
  BY <1>3, BinaryOpKeeps
<1>4. CASE UnaryOp
  BY <1>4, UnaryOpKeeps
<1>5. CASE OpenArguments
  BY <1>5, OpenStep DEF OpenArguments
<1>6. CASE AppendArgument
  BY <1>6, AppendArgumentKeeps
<1>7. CASE Assignment
  <2>1. PICK node : node = Node("assignment", Value(1), <<>>, <<>>)
    OBVIOUS
  <2>. QED
    BY <1>7, <2>1, ValueStatement DEF Assignment
<1>8. CASE OpAssignment
  BY <1>8, OpAssignmentKeeps
<1>9. CASE Return
  <2>1. CASE /\ Kinds(<<"block", "expression">>)
             /\ Statement(Node("return", Value(1), <<>>, <<>>), 1)
    <3>1. PICK node : node = Node("return", Value(1), <<>>, <<>>)
      OBVIOUS
    <3>. QED
      BY <2>1, <3>1, ValueStatement
  <2>2. CASE Kinds(<<"block">>) /\ Statement(Node("return", <<>>, <<>>, <<>>), 0)
    BY <2>2, BareStatement
  <2>. QED
    BY <1>9, <2>1, <2>2 DEF Return
<1>10. CASE Flow
  BY <1>10, BareStatement DEF Flow
<1>11. CASE OpenBlock
  BY <1>11, OpenStep DEF OpenBlock
<1>12. CASE OpenElse
  BY <1>12, OpenStep DEF OpenElse
<1>13. CASE If
  <2>1. CASE /\ Kinds(<<"block", "expression", "block">>)
             /\ Statement(Node("if", Value(2), Value(1), <<>>), 2)
    <3>1. PICK node : node = Node("if", Value(2), Value(1), <<>>)
      OBVIOUS
    <3>. QED
      BY <2>1, <3>1, BlockStatement
  <2>2. CASE /\ Kinds(<<"block", "expression", "block", "block">>)
             /\ Statement(Node("if", Value(3), Value(2), Value(1)), 3)
    <3>1. PICK node : node = Node("if", Value(3), Value(2), Value(1))
      OBVIOUS
    <3>. QED
      BY <2>2, <3>1, IfElseStatement
  <2>. QED
    BY <1>13, <2>1, <2>2 DEF If
<1>14. CASE While
  <2>1. PICK node : node = Node("while", Value(2), Value(1), <<>>)
    OBVIOUS
  <2>. QED
    BY <1>14, <2>1, BlockStatement DEF While
<1>15. CASE For
  <2>1. PICK node : node = Node("for", Value(2), Value(1), <<>>)
    OBVIOUS
  <2>. QED
    BY <1>15, <2>1, BlockStatement DEF For
<1>16. CASE OpenParameters
  BY <1>16, OpenStep DEF OpenParameters
<1>17. CASE AppendParameter
  BY <1>17, AppendParameterKeeps
<1>18. CASE OpenBody
  BY <1>18, OpenStep DEF OpenBody
<1>19. CASE FunctionDef
  <2>1. PICK node : node = Node("function", Value(2), Value(1), <<>>)
    OBVIOUS
  <2>. QED
    BY <1>19, <2>1, BlockStatement DEF FunctionDef
<1>. QED
  BY <1>1, <1>2, <1>3, <1>4, <1>5, <1>6, <1>7, <1>8, <1>9, <1>10, <1>11, <1>12, <1>13, <1>14,
     <1>15, <1>16, <1>17, <1>18, <1>19 DEF Parse

-----------------------------------------------------------------------------
(* The compiler changes neither the nodes nor the statements of the program. *)

\* What is left to compile is this.
GoodItem(v) ==
  /\ v = Item(v.kind, v.ids) /\ v.kind \in {"functions", "statements", "bound"}
  /\ v.ids \in Seq(Nat) /\ ToSet(v.ids) \subseteq Ids /\ v.ids # <<>>
  /\ v.kind = "functions" => \A n \in ToSet(v.ids) : nodes[n].tag = "function"
  /\ v.kind = "statements" => ToSet(v.ids) \subseteq StatementIds
  /\ v.kind = "bound" => Len(v.ids) = 1 /\ ToSet(v.ids) \subseteq ExpressionIds

\* All that is left to compile.
GoodItems(s) ==
  /\ Len(s) \in Nat /\ DOMAIN s = 1 .. Len(s) /\ s = [i \in 1 .. Len(s) |-> s[i]]
  /\ \A i \in DOMAIN s : GoodItem(s[i])

\* The nodes and the statements stay.
LEMMA NodesStay ==
  ASSUME TreeInv, UNCHANGED <<nodes, stack>>, stage' \in {"parse", "compile"} => stage \in {"parse", "compile"}
  PROVE  TagInv' /\ Ids' = Ids /\ StatementIds' = StatementIds /\ ExpressionIds' = ExpressionIds
<1>1. /\ Ids' = Ids /\ ExpressionIds' = ExpressionIds /\ ParameterIds' = ParameterIds
      /\ StatementIds' = StatementIds
  BY DEF ExpressionIds, ParameterIds, StatementIds, Ids
<1>2. TagInv
  BY DEF TreeInv
<1>3. ASSUME NEW n \in Ids PROVE Tagged(n)'
  <2>1. Tagged(n) /\ Parts(n)' = Parts(n)
    BY <1>2, <1>3 DEF TagInv, Parts
  <2>. QED
    BY <1>1, <2>1 DEF Tagged
<1>4. ASSUME NEW i \in DOMAIN stack PROVE Valued(stack[i])'
  <2>1. Valued(stack[i])
    BY <1>2, <1>4 DEF TagInv
  <2>. QED
    BY <1>1, <2>1 DEF Valued
<1>. QED
  BY <1>1, <1>3, <1>4 DEF TagInv

\* Steps that leave the nodes: what is left to compile is good, and what has been
\* freed is a number.
LEMMA TypesStay ==
  ASSUME TreeInv, UNCHANGED <<nodes, stack, dropped>>, todo' = todo \/ GoodItems(todo'),
         stage' \in {"parse", "compile", "optimise", "released", "exited", "wild"},
         freed' = freed \/ \E set : freed' = AndFreed(set), stale' \in BOOLEAN
  PROVE  TreeTypeOK'
<1>1. Typed
  BY TypesAre DEF TreeInv
<1>2. Ids' = Ids
  BY DEF Ids
<1>3. freed' = [n \in Ids' |-> freed'[n]] /\ \A n \in Ids' : freed'[n] \in Nat
  <2>1. CASE freed' = freed
    BY <1>1, <1>2, <2>1 DEF Typed
  <2>2. ASSUME NEW set, freed' = AndFreed(set)
        PROVE  freed' = [n \in Ids' |-> freed'[n]] /\ \A n \in Ids' : freed'[n] \in Nat
    <3>1. \A n \in Ids : freed'[n] = freed[n] + IF n \in set THEN 1 ELSE 0
      BY <2>2 DEF AndFreed
    <3>2. freed' = [n \in Ids |-> freed'[n]]
      BY <2>2 DEF AndFreed
    <3>3. \A n \in Ids : freed[n] \in Nat
      BY <1>1 DEF Typed
    <3>. QED
      BY <1>2, <3>1, <3>2, <3>3
  <2>. QED
    BY <2>1, <2>2
<1>4. \A n \in Ids' : IsNode(nodes'[n]) /\ ToSet(Parts(n)') \subseteq Ids'
  BY <1>1, <1>2 DEF Typed, Parts
<1>5. /\ Len(todo') \in Nat /\ DOMAIN todo' = 1 .. Len(todo') /\ todo' = [i \in 1 .. Len(todo') |-> todo'[i]]
      /\ \A i \in DOMAIN todo' :
           /\ todo'[i] = Item(todo'[i].kind, todo'[i].ids)
           /\ todo'[i].kind \in {"functions", "statements", "bound"}
           /\ todo'[i].ids \in Seq(Nat) /\ ToSet(todo'[i].ids) \subseteq Ids'
  <2>1. CASE todo' = todo
    BY <1>1, <1>2, <2>1 DEF Typed
  <2>2. CASE GoodItems(todo')
    BY <1>2, <2>2 DEF GoodItems, GoodItem
  <2>. QED
    BY <2>1, <2>2
<1>6. Typed'
  BY <1>1, <1>2, <1>3, <1>4, <1>5 DEF Typed
<1>7. (TreeTypeOK <=> Typed)'
  BY TypesAre, PTL
<1>. QED
  BY <1>6, <1>7

\* So does an end of the program,
LEMMA EndKeeps ==
  ASSUME TreeInv, NEW how \in {"exited", "wild"}, End(how)
  PROVE  TreeInv'
<1>1. UNCHANGED <<nodes, stack, todo, freed, dropped, stale>> /\ stage' = how
  BY DEF End
<1>2. stale \in BOOLEAN
  BY DEF TreeInv, TreeTypeOK
<1>3. TreeTypeOK'
  BY <1>1, <1>2, TypesStay
<1>4. TagInv'
  BY <1>1, NodesStay
<1>. QED
  BY <1>1, <1>3, <1>4 DEF TreeInv, HeldInv, StageInv

\* A step of the compiler from one item to the next.
LEMMA ProceedKeeps ==
  ASSUME TreeInv, stage = "compile", UNCHANGED <<nodes, stack, stage, dropped>>, GoodItems(todo'),
         freed' = freed \/ \E set : freed' = AndFreed(set), stale' \in BOOLEAN
  PROVE  TreeInv'
<1>1. TreeTypeOK'
  BY TypesStay
<1>2. TagInv' /\ Ids' = Ids /\ StatementIds' = StatementIds /\ ExpressionIds' = ExpressionIds
  BY NodesStay
<1>3. HeldInv'
  <2>1. Live' = Live /\ Live = Ids
    BY <1>2 DEF Live
  <2>2. Holders' = Holders
    BY <2>1 DEF Holders
  <2>3. \A h : List(h)' = List(h)
    BY DEF List, Parts
  <2>4. /\ \A h \in Holders : ToSet(List(h)) \subseteq Live /\ IsInjective(List(h))
        /\ \A h, g \in Holders : h # g => ToSet(List(h)) \cap ToSet(List(g)) = {}
        /\ \A n \in Live : \E h \in Holders : n \in ToSet(List(h))
    BY DEF TreeInv, HeldInv
  <2>. QED
    BY <2>1, <2>2, <2>3, <2>4 DEF HeldInv
<1>4. ItemInv'
  BY <1>2 DEF ItemInv, GoodItems, GoodItem
<1>. QED
  BY <1>1, <1>2, <1>3, <1>4 DEF TreeInv, StageInv

\* Putting an item before others.
LEMMA PutGood ==
  ASSUME NEW s, GoodItems(s), NEW v, v.ids = <<>> \/ GoodItem(v)
  PROVE  GoodItems(Put(v, s))
<1>1. CASE v.ids = <<>>
  BY <1>1 DEF Put
<1>2. CASE v.ids # <<>>
  <2>1. GoodItem(v)
    BY <1>2
  <2>. DEFINE t == << v >> \o s
              T == {s[i] : i \in DOMAIN s}
  <2>2. s \in Seq(T)
    <3>1. /\ Len(s) \in Nat /\ s = [i \in 1 .. Len(s) |-> s[i]] /\ \A i \in 1 .. Len(s) : s[i] \in T
      BY DEF GoodItems
    <3>. HIDE DEF T
    <3>. QED
      BY <3>1, SeqFrom
  <2>. HIDE DEF T
  <2>3. << v >> \in Seq({v}) /\ Len(<< v >>) = 1 /\ DOMAIN << v >> = {1} /\ << v >>[1] = v
    OBVIOUS
  <2>4. /\ Len(s) \in Nat /\ t \in Seq({v} \cup T) /\ Len(t) = 1 + Len(s) /\ DOMAIN t = 1 .. 1 + Len(s)
        /\ t[1] = v /\ \A i \in DOMAIN s : t[1 + i] = s[i]
    <3>1. PICK w : w = << v >>
      OBVIOUS
    <3>2. w \in Seq({v}) /\ Len(w) = 1 /\ 1 \in DOMAIN w /\ w[1] = v
      BY <2>3, <3>1
    <3>3. /\ Len(s) \in Nat /\ w \o s \in Seq({v} \cup T) /\ Len(w \o s) = Len(w) + Len(s)
          /\ DOMAIN (w \o s) = 1 .. Len(w) + Len(s)
          /\ \A i \in DOMAIN w : (w \o s)[i] = w[i]
          /\ \A i \in DOMAIN s : (w \o s)[Len(w) + i] = s[i]
      BY <2>2, <3>2, Behind
    <3>. QED
      BY <3>1, <3>2, <3>3
  <2>. HIDE DEF t
  <2>5. t = [i \in 1 .. Len(t) |-> t[i]]
    BY <2>4, SeqIs
  <2>6. ASSUME NEW i \in DOMAIN t PROVE GoodItem(t[i])
    <3>1. i = 1 \/ i - 1 \in 1 .. Len(s)
      BY <2>4
    <3>2. CASE i = 1
      BY <2>1, <2>4, <3>2
    <3>3. CASE i - 1 \in 1 .. Len(s)
      <4>1. i - 1 \in DOMAIN s /\ 1 + (i - 1) = i
        BY <2>4, <3>3 DEF GoodItems
      <4>2. t[i] = s[i - 1]
        BY <2>4, <4>1
      <4>. QED
        BY <4>1, <4>2 DEF GoodItems
    <3>. QED
      BY <3>1, <3>2, <3>3
  <2>7. GoodItems(t)
    BY <2>4, <2>5, <2>6 DEF GoodItems
  <2>. QED
    BY <1>2, <2>7 DEF Put, t
<1>. QED
  BY <1>1, <1>2

\* The first of a list and the others.
LEMMA HeadTail ==
  ASSUME NEW s \in Seq(Nat), s # <<>>
  PROVE  /\ Head(s) = s[1] /\ Head(s) \in ToSet(s) /\ Head(s) \in Nat /\ 1 \in DOMAIN s
         /\ Tail(s) \in Seq(Nat) /\ Len(Tail(s)) = Len(s) - 1
         /\ \A i \in 1 .. Len(s) - 1 : Tail(s)[i] = s[i + 1]
         /\ ToSet(Tail(s)) \subseteq ToSet(s)
         /\ \A x : x \in ToSet(s) <=> x = Head(s) \/ x \in ToSet(Tail(s))
<1>1. Len(s) \in Nat /\ Len(s) >= 1 /\ Head(s) = s[1] /\ DOMAIN s = 1 .. Len(s)
  OBVIOUS
<1>2. s[1] \in Nat
  BY <1>1
<1>3. /\ Tail(s) \in Seq(Nat) /\ Len(Tail(s)) = Len(s) - 1 /\ DOMAIN Tail(s) = 1 .. Len(s) - 1
      /\ \A i \in 1 .. Len(s) - 1 : Tail(s)[i] = s[i + 1]
  OBVIOUS
<1>4. \A x : x \in ToSet(s) <=> \E i \in 1 .. Len(s) : s[i] = x
  BY <1>1 DEF ToSet
<1>5. \A x : x \in ToSet(Tail(s)) <=> \E i \in 1 .. Len(s) - 1 : s[i + 1] = x
  BY <1>3 DEF ToSet
<1>6. ASSUME NEW x, NEW i \in 1 .. Len(s), s[i] = x PROVE x = Head(s) \/ x \in ToSet(Tail(s))
  <2>1. CASE i = 1
    BY <1>1, <1>6, <2>1
  <2>2. CASE i # 1
    <3>1. i - 1 \in 1 .. Len(s) - 1 /\ (i - 1) + 1 = i
      BY <1>1, <2>2
    <3>. QED
      BY <1>5, <1>6, <3>1
  <2>. QED
    BY <2>1, <2>2
<1>7. ASSUME NEW x, NEW i \in 1 .. Len(s) - 1, s[i + 1] = x PROVE x \in ToSet(s)
  <2>1. i + 1 \in 1 .. Len(s)
    BY <1>1
  <2>. QED
    BY <1>4, <1>7, <2>1
<1>8. Head(s) \in ToSet(s) /\ 1 \in DOMAIN s
  BY <1>1, <1>4
<1>9. \A x : x \in ToSet(s) <=> x = Head(s) \/ x \in ToSet(Tail(s))
  BY <1>4, <1>5, <1>6, <1>7, <1>8
<1>. QED
  BY <1>1, <1>2, <1>3, <1>8, <1>9

\* What is left to compile once the first item is taken off.
LEMMA RestOf ==
  ASSUME NEW s, GoodItems(s), s # <<>>
  PROVE  /\ 1 <= Len(s) /\ Head(s) = s[1] /\ GoodItem(s[1]) /\ GoodItems(Tail(s))
         /\ Len(Tail(s)) = Len(s) - 1 /\ \A i \in 1 .. Len(s) - 1 : Tail(s)[i] = s[i + 1]
<1>. DEFINE T == {s[i] : i \in DOMAIN s}
<1>1. s \in Seq(T)
  <2>1. /\ Len(s) \in Nat /\ s = [i \in 1 .. Len(s) |-> s[i]] /\ \A i \in 1 .. Len(s) : s[i] \in T
    BY DEF GoodItems
  <2>. HIDE DEF T
  <2>. QED
    BY <2>1, SeqFrom
<1>. HIDE DEF T
<1>2. Len(s) \in Nat /\ Len(s) >= 1 /\ Head(s) = s[1] /\ DOMAIN s = 1 .. Len(s)
  BY <1>1
<1>3. /\ Tail(s) \in Seq(T) /\ Len(Tail(s)) = Len(s) - 1 /\ DOMAIN Tail(s) = 1 .. Len(s) - 1
      /\ \A i \in 1 .. Len(s) - 1 : Tail(s)[i] = s[i + 1]
  BY <1>1
<1>4. Tail(s) = [i \in 1 .. Len(Tail(s)) |-> Tail(s)[i]]
  BY <1>3, SeqIs
<1>5. ASSUME NEW i \in 1 .. Len(s) - 1 PROVE GoodItem(Tail(s)[i])
  <2>1. i + 1 \in DOMAIN s
    BY <1>2
  <2>. QED
    BY <1>3, <2>1 DEF GoodItems
<1>6. GoodItems(Tail(s))
  BY <1>2, <1>3, <1>4, <1>5 DEF GoodItems
<1>7. GoodItem(s[1])
  BY <1>2 DEF GoodItems
<1>. QED
  BY <1>2, <1>3, <1>6, <1>7

\* What is left to compile, by the invariant.
LEMMA TodoGood ==
  ASSUME TreeInv, stage = "compile"
  PROVE  GoodItems(todo)
<1>1. Typed /\ ItemInv
  BY TypesAre DEF TreeInv, StageInv
<1>. QED
  BY <1>1 DEF Typed, ItemInv, GoodItems, GoodItem

\* The item at hand, its first node and what follows.
LEMMA CurrentGood ==
  ASSUME TreeInv, stage = "compile", todo # <<>>
  PROVE  /\ GoodItems(todo) /\ GoodItem(Current) /\ GoodItems(Tail(todo)) /\ GoodItems(Rest)
         /\ Current = todo[1]
         /\ Head(Current.ids) \in Ids /\ Head(Current.ids) \in ToSet(Current.ids)
<1>1. GoodItems(todo) /\ Current = todo[1] /\ GoodItem(Current) /\ GoodItems(Tail(todo))
  BY TodoGood, RestOf DEF Current
<1>2. PICK v : v = Current
  OBVIOUS
<1>3. /\ v = Item(v.kind, v.ids) /\ v.kind \in {"functions", "statements", "bound"}
      /\ v.ids \in Seq(Nat) /\ ToSet(v.ids) \subseteq Ids /\ v.ids # <<>>
      /\ v.kind = "functions" => \A n \in ToSet(v.ids) : nodes[n].tag = "function"
      /\ v.kind = "statements" => ToSet(v.ids) \subseteq StatementIds
      /\ v.kind = "bound" => Len(v.ids) = 1 /\ ToSet(v.ids) \subseteq ExpressionIds
  BY <1>1, <1>2 DEF GoodItem
<1>4. /\ Tail(v.ids) \in Seq(Nat) /\ ToSet(Tail(v.ids)) \subseteq ToSet(v.ids)
      /\ Head(v.ids) \in ToSet(v.ids)
  BY <1>3, HeadTail
<1>5. PICK w : w = Item(v.kind, Tail(v.ids))
  OBVIOUS
<1>6. w.kind = v.kind /\ w.ids = Tail(v.ids) /\ w = Item(w.kind, w.ids)
  BY <1>5 DEF Item
<1>7. w.ids = <<>> \/ GoodItem(w)
  <2>1. CASE v.kind = "bound"
    <3>1. Len(w.ids) = 0 /\ w.ids \in Seq(Nat)
      BY <1>3, <1>6, <2>1, HeadTail
    <3>. QED
      BY <3>1
  <2>. QED
    BY <1>3, <1>4, <1>6, <2>1 DEF GoodItem
<1>8. Rest = Put(w, Tail(todo))
  BY <1>2, <1>5 DEF Rest
<1>9. GoodItems(Rest)
  BY <1>1, <1>7, <1>8, PutGood
<1>. QED
  BY <1>1, <1>2, <1>3, <1>4, <1>9

\* A block of a node, put before what is left.
LEMMA BlockGood ==
  ASSUME TreeInv, NEW n \in Ids, NEW s, GoodItems(s)
  PROVE  /\ GoodItems(Put(Item("statements", nodes[n].block), s))
         /\ GoodItems(Put(Item("statements", nodes[n].orelse), s))
<1>1. Typed /\ Tagged(n)
  BY TypesAre DEF TreeInv, TagInv
<1>2. IsNode(nodes[n])
  BY <1>1 DEF Typed
<1>3. ASSUME NEW ids \in Seq(Nat), ToSet(ids) \subseteq StatementIds
      PROVE  GoodItems(Put(Item("statements", ids), s))
  <2>1. PICK v : v = Item("statements", ids)
    OBVIOUS
  <2>2. v.kind = "statements" /\ v.ids = ids /\ v = Item(v.kind, v.ids)
    BY <2>1 DEF Item
  <2>3. v.ids = <<>> \/ GoodItem(v)
    BY <1>3, <2>2 DEF GoodItem, StatementIds
  <2>. QED
    BY <2>1, <2>3, PutGood
<1>. QED
  BY <1>1, <1>2, <1>3 DEF IsNode, Tagged

\* and every step of the compiler.
LEMMA CompileKeeps == TreeInv /\ Compile => TreeInv'
<1>. SUFFICES ASSUME TreeInv, Compile PROVE TreeInv'
  OBVIOUS
<1>1. stale \in BOOLEAN /\ Typed /\ TagInv
  BY TypesAre DEF TreeInv, Typed
<1>2. \A set : Read(set) => stale' \in BOOLEAN
  BY <1>1 DEF Read
<1>3. stage = "compile" /\ todo # <<>>
  BY DEF Compile, Compiling, At, CompileFunction, CompileAssignment, CompileFlow, CompileReturn,
         CompileWhile, CompileIf, CompileFor, EndFor, CompileFails
<1>4. GoodItem(Current) /\ GoodItems(Rest) /\ Head(Current.ids) \in Ids /\ Head(Current.ids) \in ToSet(Current.ids)
  BY <1>3, CurrentGood
<1>5. ASSUME NEW items, GoodItems(items), Proceed(items),
             freed' = freed \/ \E set : freed' = AndFreed(set), stale' \in BOOLEAN
      PROVE  TreeInv'
  <2>1. GoodItems(todo')
    BY <1>5 DEF Proceed
  <2>. QED
    BY <1>3, <1>5, <2>1, ProceedKeeps DEF Proceed
<1>6. PICK items : items = Put(Item("statements", Node1.block), Rest)
  OBVIOUS
<1>7. GoodItems(items)
  BY <1>4, <1>6, BlockGood DEF Node1
<1>8. CASE CompileFunction
  BY <1>2, <1>4, <1>5, <1>6, <1>7, <1>8 DEF CompileFunction
<1>9. CASE CompileAssignment
  <2>1. CASE End("wild")
    BY <2>1, EndKeeps
  <2>2. CASE Read(Header) /\ Proceed(Rest) /\ UNCHANGED freed
    BY <1>2, <1>4, <1>5, <2>2
  <2>. QED
    BY <1>9, <2>1, <2>2 DEF CompileAssignment
<1>10. CASE CompileFlow
  BY <1>2, <1>4, <1>5, <1>10 DEF CompileFlow
<1>11. CASE CompileReturn
  <2>1. CASE End("wild")
    BY <2>1, EndKeeps
  <2>2. CASE /\ Read(Header) /\ Proceed(Rest)
             /\ freed' = IF nodes[Node1.exprs[1]].tag = "LOOP" THEN freed
                         ELSE AndFreed(Trees(Node1.exprs))
    <3>1. freed' = freed \/ \E set : freed' = AndFreed(set)
      BY <2>2
    <3>. QED
      BY <1>2, <1>4, <1>5, <2>2, <3>1
  <2>. QED
    BY <1>11, <2>1, <2>2 DEF CompileReturn
<1>12. CASE CompileWhile
  <2>1. CASE End("exited")
    BY <2>1, EndKeeps
  <2>2. CASE /\ Read(Header) /\ Proceed(Put(Item("statements", Node1.block), Rest))
             /\ UNCHANGED freed
    BY <1>2, <1>5, <1>6, <1>7, <2>2
  <2>. QED
    BY <1>12, <2>1, <2>2 DEF CompileWhile
<1>13. CASE CompileIf
  <2>1. CASE End("wild")
    BY <2>1, EndKeeps
  <2>2. PICK rest, both : /\ rest = Put(Item("statements", Node1.orelse), Rest)
                          /\ both = Put(Item("statements", Node1.block), rest)
    OBVIOUS
  <2>3. GoodItems(rest)
    BY <1>4, <2>2, BlockGood DEF Node1
  <2>4. GoodItems(both)
    BY <1>4, <2>2, <2>3, BlockGood DEF Node1
  <2>5. CASE Read(Header) /\ Proceed(both) /\ UNCHANGED freed
    BY <1>2, <1>5, <2>4, <2>5
  <2>. QED
    BY <1>13, <2>1, <2>2, <2>5 DEF CompileIf
<1>14. CASE CompileFor
  <2>1. PICK range : range = nodes[Node1.exprs[1]]
    OBVIOUS
  <2>2. CASE End("wild")
    BY <2>2, EndKeeps
  <2>3. CASE End("exited")
    BY <2>3, EndKeeps
  <2>4. CASE /\ Read(Header) /\ Len(range.exprs) >= 2
             /\ Proceed(Put(Item("statements", Node1.block),
                            Put(Item("bound", << Head(range.exprs) >>), Rest)))
             /\ UNCHANGED freed
    <3>1. PICK n : n = Head(Current.ids)
      OBVIOUS
    <3>2. n \in Ids /\ Node1 = nodes[n] /\ nodes[n].tag = "for" /\ Tagged(n) /\ IsNode(nodes[n])
      BY <1>1, <1>4, <1>14, <3>1 DEF Node1, TagInv, Typed, CompileFor, At
    <3>3. nodes[n].exprs \in Seq(Nat) /\ nodes[n].exprs # <<>>
      BY <3>2 DEF Tagged, IsNode
    <3>4. PICK k : k = nodes[n].exprs[1]
      OBVIOUS
    <3>5. k \in ToSet(nodes[n].exprs)
      BY <3>3, <3>4, HeadTail
    <3>6. k \in Ids
      BY <3>2, <3>5 DEF Tagged, ExpressionIds
    <3>7. range = nodes[k] /\ IsNode(nodes[k]) /\ ToSet(Parts(k)) \subseteq Ids
      BY <1>1, <2>1, <3>2, <3>4, <3>6 DEF Typed
    <3>8. range.exprs \in Seq(Nat) /\ range.exprs # <<>>
      <4>1. range.exprs \in Seq(Nat)
        BY <3>7 DEF IsNode
      <4>2. Len(<<>>) = 0
        OBVIOUS
      <4>. QED
        BY <2>4, <4>1, <4>2
    <3>9. Head(range.exprs) \in ToSet(range.exprs)
      BY <3>8, HeadTail
    <3>10. Head(range.exprs) \in Ids
      <4>1. ToSet(Lists(nodes[k])) = ToSet(nodes[k].exprs) \cup ToSet(nodes[k].block) \cup ToSet(nodes[k].orelse)
        BY <3>7, NodeLists
      <4>2. Parts(k) = Lists(nodes[k])
        BY DEF Parts, Lists
      <4>. QED
        BY <3>7, <3>9, <4>1, <4>2
    <3>11. PICK b, ids, v : b = Head(range.exprs) /\ ids = << b >> /\ v = Item("bound", ids)
      OBVIOUS
    <3>12. ids \in Seq(Nat) /\ ToSet(ids) \subseteq Ids /\ ids # <<>>
      <4>1. b \in Nat
        BY <3>8, <3>11, HeadTail
      <4>2. ids \in Seq(Nat) /\ ToSet(ids) = {b}
        BY <3>11, <4>1, Short
      <4>. QED
        BY <3>10, <3>11, <4>2
    <3>13. v.kind = "bound" /\ v.ids = ids /\ v = Item(v.kind, v.ids)
      BY <3>11 DEF Item
    <3>14. GoodItem(v)
      <4>1. Len(ids) = 1
        BY <3>11
      <4>2. ToSet(ids) \subseteq ExpressionIds
        <5>1. nodes[k].tag # "function" /\ Tagged(k)
          <6>1. k \in ExpressionIds
            BY <3>2, <3>5 DEF Tagged
          <6>. QED
            BY <1>1, <3>6, <6>1 DEF TagInv, ExpressionIds, ExpressionTags, Atoms, CallTags
        <5>2. b \in ExpressionIds
          BY <3>7, <3>9, <3>11, <5>1 DEF Tagged
        <5>3. b \in Nat
          BY <3>8, <3>11, HeadTail
        <5>4. ToSet(ids) = {b}
          BY <3>11, <5>3, Short
        <5>. QED
          BY <5>2, <5>4
      <4>. QED
        BY <3>12, <3>13, <4>1, <4>2 DEF GoodItem
    <3>15. PICK rest, both : rest = Put(v, Rest) /\ both = Put(Item("statements", Node1.block), rest)
      OBVIOUS
    <3>16. GoodItems(rest)
      BY <1>4, <3>14, <3>15, PutGood
    <3>17. GoodItems(both)
      BY <3>2, <3>15, <3>16, BlockGood
    <3>. QED
      BY <1>2, <1>5, <2>4, <3>11, <3>15, <3>17
  <2>. QED
    <3>1. \/ End("wild") \/ End("exited")
          \/ /\ Read(Header) /\ ~(Len(range.exprs) < 2)
             /\ Proceed(Put(Item("statements", Node1.block),
                            Put(Item("bound", << Head(range.exprs) >>), Rest)))
             /\ UNCHANGED freed
      BY <1>14, <2>1 DEF CompileFor
    <3>2. Len(range.exprs) \in Int
      <4>1. PICK n : n = Head(Current.ids)
        OBVIOUS
      <4>2. n \in Ids /\ Node1 = nodes[n] /\ nodes[n].tag = "for" /\ Tagged(n) /\ IsNode(nodes[n])
        BY <1>1, <1>4, <1>14, <4>1 DEF Node1, TagInv, Typed, CompileFor, At
      <4>3. nodes[n].exprs \in Seq(Nat) /\ nodes[n].exprs # <<>>
        BY <4>2 DEF Tagged, IsNode
      <4>4. nodes[n].exprs[1] \in Ids
        <5>1. nodes[n].exprs[1] \in ToSet(nodes[n].exprs)
          BY <4>3, HeadTail
        <5>. QED
          BY <4>2, <5>1 DEF Tagged, ExpressionIds
      <4>5. IsNode(range)
        BY <1>1, <2>1, <4>2, <4>4 DEF Typed
      <4>. QED
        BY <4>5 DEF IsNode
    <3>. QED
      BY <2>2, <2>3, <2>4, <3>1, <3>2
<1>15. CASE EndFor
  <2>1. freed' = AndFreed(Trees(Current.ids)) /\ Read(Trees(Current.ids)) /\ Proceed(Rest)
    BY <1>15 DEF EndFor
  <2>. QED
    BY <1>2, <1>4, <1>5, <2>1
<1>16. CASE CompileFails
  BY <1>16, EndKeeps DEF CompileFails
<1>. QED
  BY <1>8, <1>9, <1>10, <1>11, <1>12, <1>13, <1>14, <1>15, <1>16 DEF Compile

-----------------------------------------------------------------------------
(* The ends of the parser and of the program. *)

\* The leading functions are functions of the program.
LEMMA LeadingIs ==
  ASSUME TreeInv, Len(stack) = 1
  PROVE  /\ Program \in Seq(Nat) /\ ToSet(Program) \subseteq Ids
         /\ Leading \in Seq(Nat) /\ ToSet(Leading) \subseteq ToSet(Program)
         /\ \A n \in ToSet(Leading) : nodes[n].tag = "function"
         /\ Len(Leading) <= Len(Program) /\ \A i \in 1 .. Len(Leading) : Leading[i] = Program[i]
<1>1. Program \in Seq(Nat) /\ ToSet(Program) \subseteq Ids
  BY TypesAre DEF TreeInv, Typed, Program
<1>2. PICK p : p = Program
  OBVIOUS
<1>3. p \in Seq(Nat) /\ Len(p) \in Nat /\ DOMAIN p = 1 .. Len(p)
  BY <1>1, <1>2
<1>. DEFINE others == {i \in DOMAIN Program : nodes[Program[i]].tag # "function"}
<1>4. \A i : i \in others <=> i \in DOMAIN p /\ nodes[p[i]].tag # "function"
  BY <1>2
<1>5. Leading = IF others = {} THEN p ELSE SubSeq(p, 1, Min(others) - 1)
  BY <1>2 DEF Leading
<1>. HIDE DEF others
<1>6. PICK m \in 0 .. Len(p) : /\ Leading = IF m = Len(p) THEN p ELSE SubSeq(p, 1, m)
                               /\ \A i \in 1 .. m : nodes[p[i]].tag = "function"
  <2>1. CASE others = {}
    <3>1. Len(p) \in 0 .. Len(p) /\ Leading = p /\ \A i \in 1 .. Len(p) : nodes[p[i]].tag = "function"
      BY <1>3, <1>4, <1>5, <2>1
    <3>. QED
      BY <3>1
  <2>2. CASE others # {}
    <3>1. others \in SUBSET Nat
      BY <1>3, <1>4
    <3>2. PICK r \in others : \A s \in others : r <= s
      BY <2>2, <3>1, Least
    <3>3. Min(others) \in others /\ \A s \in others : Min(others) <= s
      BY <3>2 DEF Min
    <3>4. PICK q : q = Min(others)
      OBVIOUS
    <3>5. q \in 1 .. Len(p) /\ \A i \in 1 .. q - 1 : i \notin others
      <4>1. q \in 1 .. Len(p)
        BY <1>3, <1>4, <3>3, <3>4
      <4>2. ASSUME NEW i \in 1 .. q - 1, i \in others PROVE FALSE
        BY <3>3, <3>4, <4>1, <4>2
      <4>. QED
        BY <4>1, <4>2
    <3>6. q - 1 \in 0 .. Len(p) /\ q - 1 # Len(p)
      BY <1>3, <3>5
    <3>7. \A i \in 1 .. q - 1 : nodes[p[i]].tag = "function"
      BY <1>3, <1>4, <3>5
    <3>. QED
      BY <1>5, <2>2, <3>4, <3>6, <3>7
  <2>. QED
    BY <2>1, <2>2
<1>7. /\ Leading \in Seq(Nat) /\ Len(Leading) = m /\ DOMAIN Leading = 1 .. m
      /\ \A i \in 1 .. m : Leading[i] = p[i]
  <2>1. CASE m = Len(p)
    BY <1>3, <1>6, <2>1
  <2>2. CASE m # Len(p)
    <3>0. Leading = SubSeq(p, 1, m)
      <4>1. Leading = IF m = Len(p) THEN p ELSE SubSeq(p, 1, m)
        BY <1>6
      <4>. QED
        BY <2>2, <4>1, Zenon
    <3>1. m < Len(p) /\ m \in Nat
      <4>1. PICK l : l = Len(p)
        OBVIOUS
      <4>2. l \in Nat /\ m \in 0 .. l /\ m # l
        BY <1>3, <1>6, <2>2, <4>1
      <4>3. m < l /\ m \in Nat
        BY <4>2
      <4>. QED
        BY <4>1, <4>3
    <3>2. PICK s : s = SubSeq(p, 1, m) /\ s = Leading
      BY <3>0
    <3>3. s \in Seq(Nat) /\ Len(s) = m
      BY <1>3, <3>1, <3>2
    <3>4. \A i \in 1 .. m : s[i] = p[i]
      BY <1>3, <3>1, <3>2
    <3>. QED
      BY <3>1, <3>2, <3>3, <3>4
  <2>. QED
    BY <2>1, <2>2
<1>8. \A x \in ToSet(Leading) : \E i \in 1 .. m : x = p[i] /\ i \in DOMAIN p
  BY <1>3, <1>7 DEF ToSet
<1>9. \A x \in ToSet(Leading) : x \in ToSet(p) /\ nodes[x].tag = "function"
  BY <1>6, <1>8 DEF ToSet
<1>. QED
  BY <1>1, <1>2, <1>3, <1>7, <1>9

\* create_program keeps the invariant,
LEMMA EndParseKeeps == TreeInv /\ EndParse => TreeInv'
<1>. SUFFICES ASSUME TreeInv, EndParse PROVE TreeInv'
  OBVIOUS
<1>1. /\ stage = "parse" /\ Len(stack) = 1 /\ Kinds(<<"block">>)
      /\ UNCHANGED <<nodes, stack, freed, dropped, stale>>
  BY DEF EndParse, Kinds
<1>2. KindOf(1) = "block" /\ stack[1].kind = "block"
  BY <1>1, KindsHave DEF KindOf
<1>3. Parsing
  BY <1>1 DEF Parsing
<1>4. /\ Live = Ids /\ Alive = Ids /\ dropped = {} /\ todo = <<>> /\ stale \in BOOLEAN /\ Typed /\ TagInv
      /\ \A n \in Ids : freed[n] = 0
  BY <1>1, <1>3, ParsingIs, TypesAre DEF TreeInv, StageInv, TreeTypeOK
<1>5. stage' = "compile" \/ stage' = "optimise"
  BY DEF EndParse
<1>6. GoodItems(todo')
  <2>1. PICK v, w, e : v = Item("functions", Leading) /\ w = Item("statements", Program) /\ e = <<>>
    OBVIOUS
  <2>2. v.kind = "functions" /\ v.ids = Leading /\ v = Item(v.kind, v.ids)
    BY <2>1 DEF Item
  <2>3. w.kind = "statements" /\ w.ids = Program /\ w = Item(w.kind, w.ids)
    BY <2>1 DEF Item
  <2>4. ToSet(Program) \subseteq StatementIds
    BY <1>1, <1>2, <1>4 DEF TagInv, Valued, Program
  <2>5. v.ids = <<>> \/ GoodItem(v)
    BY <1>1, <2>2, LeadingIs DEF GoodItem
  <2>6. w.ids = <<>> \/ GoodItem(w)
    BY <1>1, <2>3, <2>4, LeadingIs DEF GoodItem
  <2>7. GoodItems(e)
    BY <2>1 DEF GoodItems
  <2>8. PICK rest : rest = Put(w, e)
    OBVIOUS
  <2>9. GoodItems(rest)
    BY <2>6, <2>7, <2>8, PutGood
  <2>10. GoodItems(Put(v, rest))
    BY <2>5, <2>9, PutGood
  <2>11. todo' = Put(v, rest) \/ todo' = e
    BY <1>4, <2>1, <2>8 DEF EndParse
  <2>. QED
    BY <2>7, <2>10, <2>11
<1>7. TreeTypeOK'
  BY <1>1, <1>4, <1>5, <1>6, TypesStay
<1>8. TagInv' /\ Ids' = Ids /\ StatementIds' = StatementIds /\ ExpressionIds' = ExpressionIds
  BY <1>1, NodesStay
<1>9. HeldInv'
  <2>1. Live' = Live
    <3>1. Alive' = Ids
      BY <1>1, <1>4, <1>8 DEF Alive
    <3>. QED
      BY <1>4, <1>8, <3>1 DEF Live
  <2>2. Holders' = Holders
    BY <1>1, <2>1 DEF Holders
  <2>3. \A h : List(h)' = List(h)
    BY <1>1 DEF List, Parts
  <2>4. /\ \A h \in Holders : ToSet(List(h)) \subseteq Live /\ IsInjective(List(h))
        /\ \A h, g \in Holders : h # g => ToSet(List(h)) \cap ToSet(List(g)) = {}
        /\ \A n \in Live : \E h \in Holders : n \in ToSet(List(h))
    BY <1>1 DEF TreeInv, HeldInv
  <2>. QED
    BY <2>1, <2>2, <2>3, <2>4 DEF HeldInv
<1>10. ItemInv'
  BY <1>1, <1>6, <1>8 DEF ItemInv, GoodItems, GoodItem
<1>11. StageInv'
  BY <1>1, <1>2, <1>4, <1>5, <1>8, <1>10 DEF StageInv
<1>. QED
  BY <1>7, <1>8, <1>9, <1>11 DEF TreeInv

\* and free_program.
LEMMA FreeProgramKeeps == TreeInv /\ FreeProgram => TreeInv'
<1>. SUFFICES ASSUME TreeInv, FreeProgram PROVE TreeInv'
  OBVIOUS
<1>1. CASE End("wild")
  BY <1>1, EndKeeps
<1>2. CASE /\ freed' = AndFreed(Trees(Program)) /\ stage' = "released"
           /\ UNCHANGED <<nodes, stack, todo, dropped, stale>>
  <2>1. stale' \in BOOLEAN
    BY <1>2 DEF TreeInv, TreeTypeOK
  <2>2. TreeTypeOK'
    BY <1>2, <2>1, TypesStay
  <2>3. TagInv'
    BY <1>2, NodesStay
  <2>. QED
    BY <1>2, <2>2, <2>3 DEF TreeInv, HeldInv, StageInv
<1>. QED
  BY <1>1, <1>2 DEF FreeProgram

-----------------------------------------------------------------------------
(* The optimiser takes parts from nodes, with all that is below them. *)

\* The nodes have this form.
LEMMA ShapedIs ==
  ASSUME TreeInv
  PROVE  Shaped
<1>1. Typed /\ TagInv
  BY TypesAre DEF TreeInv
<1>2. Ids \subseteq Nat
  BY <1>1, IdsAre DEF Typed
<1>. QED
  BY <1>1, <1>2 DEF Shaped, Typed, TagInv, Tagged

\* A node's parts are those of its three lists.
LEMMA PartsAre ==
  ASSUME TreeInv, NEW n \in Ids
  PROVE  /\ Parts(n) = Lists(nodes[n]) /\ Parts(n) \in Seq(Nat) /\ IsNode(nodes[n])
         /\ ToSet(Parts(n)) = ToSet(nodes[n].exprs) \cup ToSet(nodes[n].block) \cup ToSet(nodes[n].orelse)
         /\ nodes[n].exprs \in Seq(Nat) /\ nodes[n].block \in Seq(Nat) /\ nodes[n].orelse \in Seq(Nat)
<1>1. IsNode(nodes[n])
  BY TypesAre DEF TreeInv, Typed
<1>2. Parts(n) = Lists(nodes[n])
  BY DEF Parts, Lists
<1>3. nodes[n].exprs \in Seq(Nat) /\ nodes[n].block \in Seq(Nat) /\ nodes[n].orelse \in Seq(Nat)
  BY <1>1 DEF IsNode
<1>. QED
  BY <1>1, <1>2, <1>3, NodeLists

\* What is in a joined list once is in one of the two once.
LEMMA JoinedBack ==
  ASSUME NEW s \in Seq(Nat), NEW t \in Seq(Nat), IsInjective(s \o t)
  PROVE  IsInjective(s) /\ IsInjective(t) /\ ToSet(s) \cap ToSet(t) = {}
<1>. DEFINE u == s \o t
<1>1. /\ Len(s) \in Nat /\ Len(t) \in Nat /\ DOMAIN u = 1 .. Len(s) + Len(t)
      /\ DOMAIN s = 1 .. Len(s) /\ DOMAIN t = 1 .. Len(t)
      /\ \A i \in DOMAIN s : u[i] = s[i]
      /\ \A i \in DOMAIN t : u[Len(s) + i] = t[i]
  <2>1. DOMAIN s = 1 .. Len(s) /\ DOMAIN t = 1 .. Len(t)
    OBVIOUS
  <2>. QED
    BY <2>1, Behind
<1>2. IsInjective(u)
  OBVIOUS
<1>. HIDE DEF u
<1>3. \A i, j \in DOMAIN u : u[i] = u[j] => i = j
  BY <1>2 DEF IsInjective
<1>4. ASSUME NEW i \in DOMAIN s, NEW j \in DOMAIN s, s[i] = s[j] PROVE i = j
  <2>1. i \in DOMAIN u /\ j \in DOMAIN u
    BY <1>1
  <2>. QED
    BY <1>1, <1>3, <1>4, <2>1
<1>5. ASSUME NEW i \in DOMAIN t, NEW j \in DOMAIN t, t[i] = t[j] PROVE i = j
  <2>1. Len(s) + i \in DOMAIN u /\ Len(s) + j \in DOMAIN u
    BY <1>1
  <2>2. Len(s) + i = Len(s) + j
    BY <1>1, <1>3, <1>5, <2>1
  <2>. QED
    BY <1>1, <2>2
<1>6. ASSUME NEW i \in DOMAIN s, NEW j \in DOMAIN t PROVE s[i] # t[j]
  <2>1. i \in DOMAIN u /\ Len(s) + j \in DOMAIN u /\ i # Len(s) + j
    BY <1>1
  <2>. QED
    BY <1>1, <1>3, <2>1
<1>7. ToSet(s) \cap ToSet(t) = {}
  BY <1>6 DEF ToSet
<1>. QED
  BY <1>4, <1>5, <1>7 DEF IsInjective

\* A node that has each part once has each in one list, once.
LEMMA ListsBack ==
  ASSUME NEW d, IsNode(d), IsInjective(Lists(d))
  PROVE  /\ IsInjective(d.exprs) /\ IsInjective(d.block) /\ IsInjective(d.orelse)
         /\ ToSet(d.exprs) \cap ToSet(d.block) = {} /\ ToSet(d.exprs) \cap ToSet(d.orelse) = {}
         /\ ToSet(d.block) \cap ToSet(d.orelse) = {}
<1>1. PICK s, t : s = d.exprs \o d.block /\ t = d.orelse
  OBVIOUS
<1>2. s \in Seq(Nat) /\ ToSet(s) = ToSet(d.exprs) \cup ToSet(d.block) /\ t \in Seq(Nat)
  BY <1>1, Joined DEF IsNode
<1>3. Lists(d) = s \o t
  BY <1>1 DEF Lists
<1>4. IsInjective(s) /\ IsInjective(t) /\ ToSet(s) \cap ToSet(t) = {}
  BY <1>2, <1>3, JoinedBack
<1>5. IsInjective(d.exprs) /\ IsInjective(d.block) /\ ToSet(d.exprs) \cap ToSet(d.block) = {}
  BY <1>1, <1>4, JoinedBack DEF IsNode
<1>. QED
  BY <1>1, <1>2, <1>4, <1>5

\* The optimiser: who holds what.
LEMMA OptimisingIs ==
  ASSUME TreeInv, stage = "optimise"
  PROVE  /\ Live = Alive /\ Holders = Alive \cup {-1} /\ List(-1) = Program /\ Alive \subseteq Ids
         /\ -1 \notin Ids /\ Ids \subseteq Nat /\ \A n \in Ids : List(n) = Parts(n)
         /\ \A h \in Holders : ToSet(List(h)) \subseteq Alive /\ IsInjective(List(h))
         /\ \A h, g \in Holders : h # g => ToSet(List(h)) \cap ToSet(List(g)) = {}
         /\ \A n \in Alive : \E h \in Holders : n \in ToSet(List(h))
         /\ \A n \in Alive : ToSet(Parts(n)) \subseteq Alive /\ TreeOf[n] \subseteq Alive
         /\ Trees(Program) \subseteq Alive
<1>1. Typed /\ Len(stack) = 1
  BY TypesAre DEF TreeInv, StageInv
<1>2. Ids = 1 .. Len(nodes) /\ Len(nodes) \in Nat
  BY <1>1, IdsAre DEF Typed
<1>3. Live = Alive
  BY DEF Live
<1>4. Holders = Alive \cup {-1}
  <2>1. {0 - i : i \in DOMAIN stack} = {-1}
    <3>1. DOMAIN stack = {1}
      BY <1>1 DEF Typed
    <3>. QED
      BY <3>1
  <2>. QED
    BY <1>3, <2>1 DEF Holders
<1>5. List(-1) = Program
  BY DEF List, Program
<1>6. \A n \in Ids : List(n) = Parts(n)
  BY <1>2 DEF List
<1>7. -1 \notin Ids /\ Ids \subseteq Nat /\ Alive \subseteq Ids
  BY <1>2 DEF Alive
<1>8. /\ \A h \in Holders : ToSet(List(h)) \subseteq Alive /\ IsInjective(List(h))
      /\ \A h, g \in Holders : h # g => ToSet(List(h)) \cap ToSet(List(g)) = {}
      /\ \A n \in Alive : \E h \in Holders : n \in ToSet(List(h))
  BY <1>3 DEF TreeInv, HeldInv
<1>9. \A n \in Alive : ToSet(Parts(n)) \subseteq Alive
  BY <1>4, <1>6, <1>7, <1>8
<1>10. \A n \in Alive : TreeOf[n] \subseteq Alive
  BY <1>7, <1>9, ShapedIs, TreeWithin
<1>11. Trees(Program) \subseteq Alive
  BY <1>4, <1>5, <1>8, <1>10 DEF Trees
<1>. QED
  BY <1>3, <1>4, <1>5, <1>6, <1>7, <1>8, <1>9, <1>10, <1>11

\* What is taken from the nodes that live, and all below it.
Taken(G) == \A x : x \in G <=> \E h \in Alive : \E r \in ToSet(Parts(h)) \ ToSet(Parts(h)') : x \in TreeOf[r]

\* Each node that is left has one holder still.
LEMMA HeldAfterTaking ==
  ASSUME TreeInv, stage = "optimise", stage' = "optimise", UNCHANGED stack, Ids' = Ids, NEW G, Taken(G),
         \A h \in Alive : ToSet(Parts(h)') \subseteq ToSet(Parts(h)) /\ IsInjective(Parts(h)'),
         Alive' = Alive \ G
  PROVE  HeldInv'
<1>1. /\ Live = Alive /\ Holders = Alive \cup {-1} /\ List(-1) = Program /\ Alive \subseteq Ids
      /\ -1 \notin Ids /\ Ids \subseteq Nat /\ \A n \in Ids : List(n) = Parts(n)
      /\ \A h \in Holders : ToSet(List(h)) \subseteq Alive /\ IsInjective(List(h))
      /\ \A h, g \in Holders : h # g => ToSet(List(h)) \cap ToSet(List(g)) = {}
      /\ \A n \in Alive : \E h \in Holders : n \in ToSet(List(h))
      /\ \A n \in Alive : ToSet(Parts(n)) \subseteq Alive /\ TreeOf[n] \subseteq Alive
  BY OptimisingIs
<1>2. Shaped
  BY ShapedIs
<1>3. Live' = Alive \ G
  BY DEF Live
<1>4. Holders' = (Alive \ G) \cup {-1}
  <2>1. DOMAIN stack = {1}
    BY TypesAre DEF TreeInv, StageInv, Typed
  <2>2. {0 - i : i \in DOMAIN stack}' = {-1}
    BY <2>1
  <2>. QED
    BY <1>3, <2>2 DEF Holders
<1>5. List(-1)' = List(-1) /\ \A n \in Ids : List(n)' = Parts(n)'
  <2>1. List(-1)' = List(-1)
    <3>1. ~(-1 > 0) /\ 0 - (-1) = 1
      OBVIOUS
    <3>. QED
      BY <3>1 DEF List
  <2>2. ASSUME NEW n \in Ids PROVE List(n)' = Parts(n)'
    <3>1. n > 0
      BY TypesAre, IdsAre DEF TreeInv, Typed
    <3>. QED
      BY <3>1 DEF List
  <2>. QED
    BY <2>1, <2>2
<1>6. ASSUME NEW h \in Holders' PROVE h \in Holders /\ ToSet(List(h)') \subseteq ToSet(List(h)) /\ IsInjective(List(h)')
  BY <1>1, <1>4, <1>5
<1>7. ASSUME NEW h \in Holders', NEW x \in ToSet(List(h)') PROVE x \in Alive \ G
  <2>1. x \in ToSet(List(h)) /\ h \in Holders /\ x \in Alive
    BY <1>1, <1>6, <1>7
  <2>2. ASSUME x \in G PROVE FALSE
    <3>1. PICK g \in Alive : \E r \in ToSet(Parts(g)) \ ToSet(Parts(g)') : x \in TreeOf[r]
      BY <2>2 DEF Taken
    <3>2. PICK r \in ToSet(Parts(g)) \ ToSet(Parts(g)') : x \in TreeOf[r]
      BY <3>1
    <3>3. r \in Alive /\ r \in Ids
      BY <1>1, <3>1, <3>2
    <3>4. CASE x = r
      <4>1. x \in ToSet(List(g)) /\ g \in Holders
        BY <1>1, <3>1, <3>2, <3>4
      <4>2. h = g
        BY <1>1, <2>1, <4>1
      <4>. QED
        BY <1>1, <1>5, <1>7, <3>1, <3>2, <3>4, <4>2
    <3>5. CASE x # r
      <4>1. PICK q \in TreeOf[r] : x \in ToSet(Parts(q))
        BY <1>2, <3>2, <3>3, <3>5, TreeHas
      <4>2. q \in Alive /\ q \in Holders /\ x \in ToSet(List(q))
        BY <1>1, <3>3, <4>1
      <4>3. h = q
        BY <1>1, <2>1, <4>2
      <4>4. q \in G
        BY <3>1, <3>2, <4>1 DEF Taken
      <4>. QED
        BY <1>1, <1>4, <1>7, <4>2, <4>3, <4>4
    <3>. QED
      BY <3>4, <3>5
  <2>. QED
    BY <2>1, <2>2
<1>8. ASSUME NEW n \in Alive \ G PROVE \E h \in Holders' : n \in ToSet(List(h)')
  <2>1. PICK h \in Holders : n \in ToSet(List(h))
    BY <1>1, <1>8
  <2>2. CASE h = -1
    BY <1>4, <1>5, <2>1, <2>2
  <2>3. CASE h \in Alive
    <3>1. h \in Ids /\ n \in ToSet(Parts(h)) /\ n \in Ids
      BY <1>1, <2>1, <2>3
    <3>2. ASSUME h \in G PROVE FALSE
      <4>1. PICK g \in Alive : \E r \in ToSet(Parts(g)) \ ToSet(Parts(g)') : h \in TreeOf[r]
        BY <3>2 DEF Taken
      <4>2. PICK r \in ToSet(Parts(g)) \ ToSet(Parts(g)') : h \in TreeOf[r]
        BY <4>1
      <4>3. r \in Ids
        BY <1>1, <4>1, <4>2
      <4>4. n \in TreeOf[r]
        BY <1>2, <3>1, <4>2, <4>3, TreeHas
      <4>5. n \in G
        BY <4>1, <4>2, <4>4 DEF Taken
      <4>. QED
        BY <1>8, <4>5
    <3>3. ASSUME n \notin ToSet(Parts(h)') PROVE FALSE
      <4>1. n \in TreeOf[n]
        BY <1>2, <3>1, TreeHas
      <4>2. n \in G
        BY <2>3, <3>1, <3>3, <4>1 DEF Taken
      <4>. QED
        BY <1>8, <4>2
    <3>. QED
      BY <1>4, <1>5, <2>3, <3>1, <3>2, <3>3
  <2>. QED
    BY <1>1, <2>1, <2>2, <2>3
<1>9. \A h, g \in Holders' : h # g => ToSet(List(h)') \cap ToSet(List(g)') = {}
  <2>1. ASSUME NEW h \in Holders', NEW g \in Holders', h # g PROVE ToSet(List(h)') \cap ToSet(List(g)') = {}
    <3>1. ToSet(List(h)) \cap ToSet(List(g)) = {}
      BY <1>1, <1>6, <2>1
    <3>. QED
      BY <1>6, <3>1
  <2>. QED
    BY <2>1
<1>. QED
  BY <1>3, <1>6, <1>7, <1>8, <1>9 DEF HeldInv

\* What the optimiser may make of a node.
Trimmed(n) ==
  /\ IsNode(nodes'[n])
  /\ \/ nodes'[n] = nodes[n]
     \/ /\ n \in ExpressionIds
        /\ nodes'[n].tag = "int" /\ nodes'[n].exprs = <<>> /\ nodes'[n].block = <<>> /\ nodes'[n].orelse = <<>>
     \/ /\ nodes[n].tag = "if" /\ nodes'[n].tag = "if" /\ nodes'[n].exprs = <<>>
        /\ nodes'[n].block \in {<<>>, nodes[n].block} /\ nodes'[n].orelse \in {<<>>, nodes[n].orelse}

\* Nothing is added to a node's parts.
LEMMA TrimmedLists ==
  ASSUME TreeInv, NEW n \in Ids, Trimmed(n)
  PROVE  /\ Parts(n)' \in Seq(Nat) /\ ToSet(Parts(n)') \subseteq ToSet(Parts(n))
         /\ ToSet(nodes'[n].exprs) \subseteq ToSet(nodes[n].exprs)
         /\ ToSet(nodes'[n].block) \subseteq ToSet(nodes[n].block)
         /\ ToSet(nodes'[n].orelse) \subseteq ToSet(nodes[n].orelse)
         /\ ToSet(Parts(n)') = ToSet(nodes'[n].exprs) \cup ToSet(nodes'[n].block) \cup ToSet(nodes'[n].orelse)
         /\ IsInjective(Parts(n)) => IsInjective(Parts(n)')
<1>1. PICK d, e : d = nodes[n] /\ e = nodes'[n]
  OBVIOUS
<1>2. IsNode(d) /\ Parts(n) = Lists(d) /\ ToSet(Parts(n)) = ToSet(d.exprs) \cup ToSet(d.block) \cup ToSet(d.orelse)
  BY <1>1, PartsAre
<1>3. IsNode(e) /\ Parts(n)' = Lists(e)
  BY <1>1 DEF Trimmed, Parts, Lists
<1>4. Lists(e) \in Seq(Nat) /\ ToSet(Lists(e)) = ToSet(e.exprs) \cup ToSet(e.block) \cup ToSet(e.orelse)
  BY <1>3, NodeLists
<1>5. ToSet(<<>>) = {} /\ IsInjective(<<>>)
  BY Short
<1>6. /\ ToSet(e.exprs) \subseteq ToSet(d.exprs) /\ ToSet(e.block) \subseteq ToSet(d.block)
      /\ ToSet(e.orelse) \subseteq ToSet(d.orelse)
      /\ e.exprs \in {<<>>, d.exprs} /\ e.block \in {<<>>, d.block} /\ e.orelse \in {<<>>, d.orelse}
  BY <1>1, <1>5 DEF Trimmed
<1>7. ASSUME IsInjective(Lists(d)) PROVE IsInjective(Lists(e))
  <2>1. /\ IsInjective(d.exprs) /\ IsInjective(d.block) /\ IsInjective(d.orelse)
        /\ ToSet(d.exprs) \cap ToSet(d.block) = {} /\ ToSet(d.exprs) \cap ToSet(d.orelse) = {}
        /\ ToSet(d.block) \cap ToSet(d.orelse) = {}
    BY <1>2, <1>7, ListsBack
  <2>2. IsInjective(e.exprs) /\ IsInjective(e.block) /\ IsInjective(e.orelse)
    BY <1>5, <1>6, <2>1
  <2>3. /\ ToSet(e.exprs) \cap ToSet(e.block) = {} /\ ToSet(e.exprs) \cap ToSet(e.orelse) = {}
        /\ ToSet(e.block) \cap ToSet(e.orelse) = {}
    BY <1>6, <2>1
  <2>. QED
    BY <1>3, <2>2, <2>3, ListsApart
<1>. QED
  BY <1>1, <1>2, <1>3, <1>4, <1>6, <1>7

\* What takes parts away, and frees or unlinks them with their trees, keeps the invariant.
LEMMA TrimmedKeeps ==
  ASSUME TreeInv, stage = "optimise", stage' = "optimise", UNCHANGED <<stack, todo, stale>>,
         nodes' = [n \in Ids |-> nodes'[n]], \A n \in Ids : Trimmed(n), NEW G, Taken(G),
         \/ freed' = AndFreed(G) /\ dropped' = dropped
         \/ freed' = freed /\ dropped' = dropped \cup G
  PROVE  TreeInv'
<1>1. /\ Typed /\ Ids = 1 .. Len(nodes) /\ Len(nodes) \in Nat /\ TagInv /\ Ids \subseteq Nat
  BY TypesAre, IdsAre DEF TreeInv, Typed
<1>2. Ids' = Ids
  BY DEF Ids
<1>3. nodes' \in Seq({nodes'[n] : n \in Ids'}) /\ Len(nodes') = Len(nodes)
  <2>1. PICK m, b : m = Len(nodes) /\ b = nodes'
    OBVIOUS
  <2>2. m \in Nat /\ b = [n \in 1 .. m |-> b[n]]
    BY <1>1, <2>1
  <2>3. PICK S : S = {b[n] : n \in 1 .. m}
    OBVIOUS
  <2>4. \A n \in 1 .. m : b[n] \in S
    BY <2>3
  <2>5. b \in Seq(S) /\ Len(b) = m
    BY <2>2, <2>4, SeqFrom
  <2>. QED
    BY <1>1, <1>2, <2>1, <2>3, <2>5
<1>4. /\ Alive \subseteq Ids /\ \A n \in Alive : ToSet(Parts(n)) \subseteq Alive /\ TreeOf[n] \subseteq Alive
      /\ \A h \in Holders : ToSet(List(h)) \subseteq Alive /\ IsInjective(List(h))
      /\ Holders = Alive \cup {-1} /\ \A n \in Ids : List(n) = Parts(n)
  BY OptimisingIs
<1>5. G \subseteq Alive
  <2>1. ASSUME NEW x \in G PROVE x \in Alive
    <3>1. PICK h \in Alive : \E r \in ToSet(Parts(h)) \ ToSet(Parts(h)') : x \in TreeOf[r]
      BY DEF Taken
    <3>2. PICK r \in ToSet(Parts(h)) : x \in TreeOf[r]
      BY <3>1
    <3>. QED
      BY <1>4, <3>2
  <2>. QED
    BY <2>1
<1>6. \A n \in Ids : freed[n] \in {0, 1} /\ (n \in dropped => freed[n] = 0)
  BY DEF TreeInv, StageInv
<1>7. /\ \A n \in Alive : freed[n] = 0 /\ n \notin dropped
      /\ \A n \in Ids : n \notin Alive => freed[n] # 0 \/ n \in dropped
  BY DEF Alive
<1>8. /\ freed' = [n \in Ids |-> freed'[n]]
      /\ \A n \in Ids : freed'[n] \in {0, 1} /\ (n \in dropped' => freed'[n] = 0)
      /\ Alive' = Alive \ G /\ dropped' \subseteq Ids
  <2>1. CASE freed' = AndFreed(G) /\ dropped' = dropped
    <3>1. \A n \in Ids : freed'[n] = freed[n] + IF n \in G THEN 1 ELSE 0
      BY <2>1 DEF AndFreed
    <3>2. freed' = [n \in Ids |-> freed'[n]]
      BY <2>1 DEF AndFreed
    <3>3. ASSUME NEW n \in Ids
          PROVE  /\ freed'[n] \in {0, 1} /\ (n \in dropped' => freed'[n] = 0)
                 /\ freed'[n] = 0 /\ n \notin dropped' <=> n \in Alive \ G
      <4>1. CASE n \in G
        BY <1>5, <1>7, <2>1, <3>1, <4>1
      <4>2. CASE n \notin G
        <5>1. freed'[n] = freed[n]
          BY <1>6, <3>1, <4>2
        <5>. QED
          BY <1>6, <1>7, <2>1, <4>2, <5>1
      <4>. QED
        BY <4>1, <4>2
    <3>4. Alive' = {n \in Ids : freed'[n] = 0 /\ n \notin dropped'}
      BY <1>2 DEF Alive
    <3>5. dropped' \subseteq Ids
      BY <1>1, <2>1 DEF Typed
    <3>. QED
      BY <1>4, <3>2, <3>3, <3>4, <3>5
  <2>2. CASE freed' = freed /\ dropped' = dropped \cup G
    <3>1. Alive' = {n \in Ids : freed'[n] = 0 /\ n \notin dropped'}
      BY <1>2 DEF Alive
    <3>2. Alive' = Alive \ G
      BY <1>4, <1>7, <2>2, <3>1
    <3>3. freed' = [n \in Ids |-> freed'[n]] /\ dropped' \subseteq Ids
      BY <1>1, <1>4, <1>5, <2>2 DEF Typed
    <3>. QED
      BY <1>5, <1>6, <1>7, <2>2, <3>2, <3>3
  <2>. QED
    BY <2>1, <2>2
<1>9. \A n \in Ids : /\ IsNode(nodes'[n]) /\ Parts(n)' \in Seq(Nat) /\ ToSet(Parts(n)') \subseteq ToSet(Parts(n))
                     /\ IsInjective(Parts(n)) => IsInjective(Parts(n)')
  BY TrimmedLists DEF Trimmed
<1>10. HeldInv'
  <2>1. \A h \in Alive : ToSet(Parts(h)') \subseteq ToSet(Parts(h)) /\ IsInjective(Parts(h)')
    BY <1>4, <1>9
  <2>. QED
    BY <1>2, <1>8, <2>1, HeldAfterTaking
<1>11. TreeTypeOK'
  <2>1. \A n \in Ids' : IsNode(nodes'[n]) /\ ToSet(Parts(n)') \subseteq Ids'
    BY <1>1, <1>2, <1>9 DEF Typed
  <2>2. \A n \in Ids' : freed'[n] \in Nat
    BY <1>2, <1>8
  <2>3. Typed'
    BY <1>1, <1>2, <1>3, <1>8, <2>1, <2>2 DEF Typed
  <2>4. (TreeTypeOK <=> Typed)'
    BY TypesAre, PTL
  <2>. QED
    BY <2>3, <2>4
<1>12. /\ ExpressionIds' = ExpressionIds /\ ParameterIds' = ParameterIds /\ StatementIds' = StatementIds
  <2>1. "int" \in ExpressionTags /\ "parameter" \notin ExpressionTags /\ "int" # "parameter"
    BY DEF ExpressionTags, Atoms, CallTags
  <2>2. ASSUME NEW n \in Ids
        PROVE  /\ nodes'[n].tag \in ExpressionTags <=> nodes[n].tag \in ExpressionTags
               /\ nodes'[n].tag = "parameter" <=> nodes[n].tag = "parameter"
    BY <2>1 DEF Trimmed, ExpressionIds
  <2>. QED
    BY <1>2, <2>2 DEF ExpressionIds, ParameterIds, StatementIds
<1>13. TagInv'
  <2>1. ASSUME NEW n \in Ids PROVE Tagged(n)'
    <3>1. Tagged(n) /\ Trimmed(n)
      BY <1>1 DEF TagInv
    <3>2. /\ ToSet(Parts(n)') \subseteq ToSet(Parts(n))
          /\ ToSet(nodes'[n].exprs) \subseteq ToSet(nodes[n].exprs)
          /\ ToSet(nodes'[n].block) \subseteq ToSet(nodes[n].block)
          /\ ToSet(nodes'[n].orelse) \subseteq ToSet(nodes[n].orelse)
      BY <3>1, TrimmedLists
    <3>3. CASE nodes'[n] = nodes[n]
      BY <1>12, <3>1, <3>2, <3>3 DEF Tagged
    <3>4. CASE /\ n \in ExpressionIds
               /\ nodes'[n].tag = "int" /\ nodes'[n].exprs = <<>> /\ nodes'[n].block = <<>>
               /\ nodes'[n].orelse = <<>>
      <4>1. nodes[n].tag # "function"
        <5>1. nodes[n].tag \in ExpressionTags
          BY <3>4 DEF ExpressionIds
        <5>. QED
          BY <5>1 DEF ExpressionTags, Atoms, CallTags
      <4>. QED
        BY <1>12, <3>1, <3>2, <3>4, <4>1 DEF Tagged
    <3>5. CASE /\ nodes[n].tag = "if" /\ nodes'[n].tag = "if" /\ nodes'[n].exprs = <<>>
               /\ nodes'[n].block \in {<<>>, nodes[n].block} /\ nodes'[n].orelse \in {<<>>, nodes[n].orelse}
      BY <1>12, <3>1, <3>2, <3>5 DEF Tagged
    <3>. QED
      BY <3>1, <3>3, <3>4, <3>5 DEF Trimmed
  <2>2. ASSUME NEW i \in DOMAIN stack PROVE Valued(stack[i])'
    <3>1. Valued(stack[i])
      BY <1>1 DEF TagInv
    <3>. QED
      BY <1>12, <3>1 DEF Valued
  <2>. QED
    BY <1>2, <2>1, <2>2 DEF TagInv
<1>14. StageInv'
  <2>1. Len(stack) = 1 /\ stack[1].kind = "block"
    BY DEF TreeInv, StageInv
  <2>. QED
    BY <1>2, <1>8, <2>1 DEF StageInv
<1>. QED
  BY <1>10, <1>11, <1>13, <1>14 DEF TreeInv

\* What is below an expression is an expression.
LEMMA ExpressionTrees ==
  ASSUME TreeInv, NEW n \in ExpressionIds
  PROVE  TreeOf[n] \subseteq ExpressionIds
<1>1. Shaped /\ TagInv
  BY ShapedIs DEF TreeInv
<1>2. ASSUME NEW m \in ExpressionIds PROVE ToSet(Parts(m)) \subseteq ExpressionIds
  <2>1. m \in Ids /\ Tagged(m) /\ nodes[m].tag \in ExpressionTags
    BY <1>1 DEF TagInv, ExpressionIds
  <2>2. nodes[m].tag \notin {"if", "while", "for", "function"}
    BY <2>1 DEF ExpressionTags, Atoms, CallTags
  <2>3. nodes[m].block = <<>> /\ nodes[m].orelse = <<>>
    BY <2>1, <2>2 DEF Tagged
  <2>4. ToSet(Parts(m)) = ToSet(nodes[m].exprs) \cup ToSet(nodes[m].block) \cup ToSet(nodes[m].orelse)
    BY <2>1, PartsAre
  <2>5. ToSet(nodes[m].exprs) \subseteq ExpressionIds
    BY <2>1, <2>2 DEF Tagged
  <2>. QED
    BY <2>3, <2>4, <2>5, Short
<1>3. ExpressionIds \subseteq Ids
  BY DEF ExpressionIds
<1>. QED
  BY <1>1, <1>2, <1>3, TreeWithin

\* Expressions that become integers.
LEMMA IntOfTrims ==
  ASSUME TreeInv, NEW S \in SUBSET ExpressionIds, nodes' = IntOf(S)
  PROVE  /\ nodes' = [n \in Ids |-> nodes'[n]] /\ \A n \in Ids : Trimmed(n)
         /\ \A n \in Ids : IF n \in S THEN ToSet(Parts(n)') = {} ELSE Parts(n)' = Parts(n)
<1>1. PICK e : e = <<>>
  OBVIOUS
<1>2. e \in Seq(Nat) /\ ToSet(e) = {}
  BY <1>1, Short
<1>3. PICK int : int = Node("int", e, e, e)
  OBVIOUS
<1>4. IsNode(int) /\ int.tag = "int" /\ int.exprs = e /\ int.block = e /\ int.orelse = e
  <2>1. "int" \in Tags
    BY DEF Tags, ExpressionTags, Atoms
  <2>. QED
    BY <1>2, <1>3, <2>1, NodeIs
<1>5. nodes' = [n \in Ids |-> IF n \in S THEN int ELSE nodes[n]]
  BY <1>1, <1>3 DEF IntOf
<1>6. \A n \in Ids : nodes'[n] = IF n \in S THEN int ELSE nodes[n]
  BY <1>5
<1>7. nodes' = [n \in Ids |-> nodes'[n]]
  BY <1>5
<1>8. ASSUME NEW n \in Ids PROVE Trimmed(n)
  <2>1. CASE n \in S
    BY <1>1, <1>4, <1>6, <2>1 DEF Trimmed
  <2>2. CASE n \notin S
    <3>1. IsNode(nodes[n])
      BY PartsAre
    <3>. QED
      BY <1>6, <2>2, <3>1 DEF Trimmed
  <2>. QED
    BY <2>1, <2>2
<1>9. ASSUME NEW n \in Ids PROVE IF n \in S THEN ToSet(Parts(n)') = {} ELSE Parts(n)' = Parts(n)
  <2>1. CASE n \in S
    <3>1. Parts(n)' = Lists(int)
      BY <1>6, <2>1 DEF Parts, Lists
    <3>. QED
      BY <1>2, <1>4, <2>1, <3>1, NodeLists
  <2>2. CASE n \notin S
    BY <1>6, <2>2 DEF Parts
  <2>. QED
    BY <2>1, <2>2
<1>. QED
  BY <1>7, <1>8, <1>9

\* const_prop takes nothing.
LEMMA ConstPropKeeps ==
  ASSUME TreeInv, NEW n \in Expressions, ConstProp(n)
  PROVE  TreeInv'
<1>1. stage = "optimise" /\ UNCHANGED <<stack, stage, todo, freed, dropped, stale>>
  BY DEF ConstProp, Optimising
<1>2. PICK S : S = {k \in TreeOf[n] : nodes[k].tag = "name"}
  OBVIOUS
<1>3. n \in ExpressionIds
  BY <1>1, OptimisingIs DEF Expressions, ExpressionIds
<1>4. S \in SUBSET ExpressionIds
  BY <1>2, <1>3, ExpressionTrees
<1>5. nodes' = IntOf(S)
  BY <1>2 DEF ConstProp
<1>6. /\ nodes' = [k \in Ids |-> nodes'[k]] /\ \A k \in Ids : Trimmed(k)
      /\ \A k \in Ids : IF k \in S THEN ToSet(Parts(k)') = {} ELSE Parts(k)' = Parts(k)
  BY <1>4, <1>5, IntOfTrims
<1>7. ASSUME NEW k \in S PROVE ToSet(Parts(k)) = {}
  <2>1. k \in Ids /\ Tagged(k) /\ nodes[k].tag = "name"
    BY <1>2, <1>4 DEF ExpressionIds, TreeInv, TagInv
  <2>2. nodes[k].exprs = <<>> /\ nodes[k].block = <<>> /\ nodes[k].orelse = <<>>
    BY <2>1 DEF Tagged, Atoms
  <2>. QED
    BY <2>1, <2>2, PartsAre, Short
<1>8. PICK G : G = {}
  OBVIOUS
<1>9. \A h \in Ids : ToSet(Parts(h)) \ ToSet(Parts(h)') = {}
  BY <1>6, <1>7
<1>10. Taken(G)
  <2>1. Alive \subseteq Ids
    BY DEF Alive
  <2>. QED
    BY <1>8, <1>9, <2>1 DEF Taken
<1>11. freed' = freed /\ dropped' = dropped \cup G
  BY <1>1, <1>8
<1>. QED
  BY <1>1, <1>6, <1>10, <1>11, TrimmedKeeps

\* const_fold takes the parts of what it folds.
LEMMA ConstFoldKeeps ==
  ASSUME TreeInv, NEW n \in Expressions, ConstFold(n)
  PROVE  TreeInv'
<1>1. stage = "optimise" /\ UNCHANGED <<stack, stage, todo, dropped, stale>>
  BY DEF ConstFold, Optimising
<1>2. PICK S : S = {k \in TreeOf[n] : Folds[k]}
  OBVIOUS
<1>3. n \in ExpressionIds /\ n \in Alive /\ TreeOf[n] \subseteq Alive /\ Alive \subseteq Ids
  BY <1>1, OptimisingIs DEF Expressions, ExpressionIds
<1>4. S \in SUBSET ExpressionIds /\ S \subseteq Alive
  BY <1>2, <1>3, ExpressionTrees
<1>5. PICK G : G = UNION {TreeOf[k] \ {k} : k \in S}
  OBVIOUS
<1>6. nodes' = IntOf(S) /\ freed' = AndFreed(G)
  BY <1>2, <1>5 DEF ConstFold
<1>7. /\ nodes' = [k \in Ids |-> nodes'[k]] /\ \A k \in Ids : Trimmed(k)
      /\ \A k \in Ids : IF k \in S THEN ToSet(Parts(k)') = {} ELSE Parts(k)' = Parts(k)
  BY <1>4, <1>6, IntOfTrims
<1>8. Shaped
  BY ShapedIs
<1>9. ASSUME NEW x, NEW k \in Ids
      PROVE  x \in TreeOf[k] \ {k} <=> \E r \in ToSet(Parts(k)) : x \in TreeOf[r]
  <2>1. x \in TreeOf[k] <=> x = k \/ \E r \in ToSet(Parts(k)) : x \in TreeOf[r]
    BY <1>8, TreeIs
  <2>2. ASSUME NEW r \in ToSet(Parts(k)), k \in TreeOf[r] PROVE FALSE
    <3>1. r \in Ids /\ r < k /\ r \in Nat /\ k \in Nat
      BY <1>8 DEF Shaped
    <3>2. k <= r
      BY <1>8, <2>2, <3>1, TreeHas
    <3>. QED
      BY <3>1, <3>2
  <2>. QED
    BY <2>1, <2>2
<1>10. Taken(G)
  <2>1. ASSUME NEW x PROVE x \in G <=> \E k \in S : x \in TreeOf[k] \ {k}
    BY <1>5
  <2>2. ASSUME NEW x, NEW k \in S, x \in TreeOf[k] \ {k}
        PROVE  \E h \in Alive : \E r \in ToSet(Parts(h)) \ ToSet(Parts(h)') : x \in TreeOf[r]
    <3>1. k \in Ids /\ k \in Alive /\ ToSet(Parts(k)') = {}
      BY <1>3, <1>4, <1>7
    <3>. QED
      BY <1>9, <2>2, <3>1
  <2>3. ASSUME NEW x, NEW h \in Alive, NEW r \in ToSet(Parts(h)) \ ToSet(Parts(h)'), x \in TreeOf[r]
        PROVE  \E k \in S : x \in TreeOf[k] \ {k}
    <3>1. h \in Ids
      BY <1>3
    <3>2. h \in S
      BY <1>7, <2>3, <3>1
    <3>. QED
      BY <1>9, <2>3, <3>1, <3>2
  <2>. QED
    BY <2>1, <2>2, <2>3 DEF Taken
<1>. QED
  BY <1>1, <1>6, <1>7, <1>10, TrimmedKeeps

\* What simplify_statements visits are ifs of the program.
LEMMA VisitedIs ==
  ASSUME TreeInv, stage = "optimise", NEW truths
  PROVE  Visited(truths) \subseteq {n \in Trees(Program) : nodes[n].tag = "if"}
<1>. DEFINE own == [n \in Ids |-> IF nodes[n].tag = "if" THEN {n} ELSE {}]
            next == [n \in Ids |-> IF nodes[n].tag = "if" THEN ToSet(Block(n, truths) \o OrElse(n, truths)) ELSE {}]
            Is(f) == f = [n \in Ids |-> IF nodes[n].tag # "if" THEN {}
                            ELSE {n} \cup UNION {f[k] : k \in ToSet(Block(n, truths) \o OrElse(n, truths))}]
            from == CHOOSE f : Is(f)
<1>1. Shaped /\ Ids \subseteq Nat
  BY ShapedIs DEF Shaped
<1>2. ASSUME NEW n \in Ids
      PROVE  ToSet(Block(n, truths) \o OrElse(n, truths)) \subseteq ToSet(Parts(n))
  <2>1. PICK s, t : s = Block(n, truths) /\ t = OrElse(n, truths)
    OBVIOUS
  <2>2. <<>> \in Seq(Nat) /\ ToSet(<<>>) = {}
    BY Short
  <2>3. /\ s \in Seq(Nat) /\ t \in Seq(Nat) /\ ToSet(s) \subseteq ToSet(nodes[n].block)
        /\ ToSet(t) \subseteq ToSet(nodes[n].orelse)
    BY <2>1, <2>2, PartsAre DEF Block, OrElse
  <2>4. ToSet(s \o t) = ToSet(s) \cup ToSet(t)
    BY <2>3, Joined
  <2>. QED
    BY <2>1, <2>3, <2>4, PartsAre
<1>3. own \in [Ids -> SUBSET Ids]
  OBVIOUS
<1>4. next \in [Ids -> SUBSET Ids]
  <2>1. \A n \in Ids : ToSet(Parts(n)) \subseteq Ids
    BY <1>1 DEF Shaped
  <2>. QED
    BY <1>2, <2>1
<1>5. \A n \in Ids : \A x : x \in own[n] <=> nodes[n].tag = "if" /\ x = n
  OBVIOUS
<1>6. \A n \in Ids : \A k : k \in next[n] <=> nodes[n].tag = "if" /\ k \in ToSet(Block(n, truths) \o OrElse(n, truths))
  OBVIOUS
<1>. HIDE DEF own, next
<1>7. PICK f \in [Ids -> SUBSET Ids] : Solves(f, Ids, own, next)
  BY <1>3, <1>4, Recursion
<1>8. Is(f)
  <2>. DEFINE g == [n \in Ids |-> IF nodes[n].tag # "if" THEN {}
                      ELSE {n} \cup UNION {f[k] : k \in ToSet(Block(n, truths) \o OrElse(n, truths))}]
  <2>1. ASSUME NEW n \in Ids, NEW x PROVE x \in g[n] <=> x \in f[n]
    <3>1. x \in f[n] <=> x \in own[n] \/ \E k \in next[n] : x \in f[k]
      BY <1>7 DEF Solves
    <3>2. x \in g[n] <=> /\ nodes[n].tag = "if"
                         /\ x = n \/ \E k \in ToSet(Block(n, truths) \o OrElse(n, truths)) : x \in f[k]
      OBVIOUS
    <3>. QED
      BY <1>5, <1>6, <3>1, <3>2
  <2>2. g = [n \in Ids |-> g[n]] /\ f = [n \in Ids |-> f[n]]
    OBVIOUS
  <2>. HIDE DEF g
  <2>3. \A n \in Ids : g[n] = f[n]
    BY <2>1
  <2>4. g = f
    BY <2>2, <2>3
  <2>. QED
    BY <2>4 DEF g
<1>10. Visited(truths) = UNION {from[n] : n \in ToSet(Program)}
  BY DEF Visited
<1>. HIDE DEF Is
<1>9. Is(from)
  BY <1>8
<1>11. ASSUME NEW n \in Ids, NEW x
       PROVE  x \in from[n] <=> /\ nodes[n].tag = "if"
                                /\ x = n \/ \E k \in ToSet(Block(n, truths) \o OrElse(n, truths)) : x \in from[k]
  <2>1. PICK h : h = from
    OBVIOUS
  <2>2. Is(h)
    <3>. HIDE DEF from
    <3>. QED
      BY <1>9, <2>1
  <2>. HIDE DEF from
  <2>3. h[n] = IF nodes[n].tag # "if" THEN {}
               ELSE {n} \cup UNION {h[k] : k \in ToSet(Block(n, truths) \o OrElse(n, truths))}
    BY <2>2 DEF Is
  <2>4. x \in h[n] <=> /\ nodes[n].tag = "if"
                       /\ x = n \/ \E k \in ToSet(Block(n, truths) \o OrElse(n, truths)) : x \in h[k]
    BY <2>3
  <2>. QED
    BY <2>1, <2>4
<1>. HIDE DEF from
<1>. DEFINE Good(n) == \A x \in from[n] : x \in TreeOf[n] /\ nodes[x].tag = "if"
            Bad == {n \in Ids : ~Good(n)}
<1>12. Bad = {}
  <2>. SUFFICES ASSUME Bad # {} PROVE FALSE
    OBVIOUS
  <2>1. Bad \in SUBSET Nat
    BY <1>1
  <2>2. PICK r \in Bad : \A s \in Bad : r <= s
    BY <2>1, Least
  <2>3. r \in Ids /\ ~Good(r)
    OBVIOUS
  <2>4. PICK x \in from[r] : ~(x \in TreeOf[r] /\ nodes[x].tag = "if")
    BY <2>3
  <2>5. nodes[r].tag = "if" /\ (x = r \/ \E k \in ToSet(Block(r, truths) \o OrElse(r, truths)) : x \in from[k])
    BY <1>11, <2>3, <2>4
  <2>6. CASE x = r
    BY <1>1, <2>3, <2>4, <2>5, <2>6, TreeHas
  <2>7. ASSUME NEW k \in ToSet(Block(r, truths) \o OrElse(r, truths)), x \in from[k] PROVE FALSE
    <3>1. k \in ToSet(Parts(r)) /\ k \in Ids /\ k < r /\ k \in Nat /\ r \in Nat
      BY <1>1, <1>2, <2>3 DEF Shaped
    <3>2. k \notin Bad
      BY <2>2, <3>1
    <3>3. Good(k)
      BY <3>1, <3>2
    <3>4. x \in TreeOf[k] /\ nodes[x].tag = "if"
      BY <2>7, <3>3
    <3>5. x \in TreeOf[r]
      BY <1>1, <2>3, <3>1, <3>4, TreeIs
    <3>. QED
      BY <2>4, <3>4, <3>5
  <2>. QED
    BY <2>5, <2>6, <2>7
<1>13. ASSUME NEW n \in ToSet(Program), NEW x \in from[n] PROVE x \in Trees(Program) /\ nodes[x].tag = "if"
  <2>1. n \in Ids
    BY TypesAre DEF TreeInv, Typed, StageInv, Program
  <2>2. Good(n)
    BY <1>12, <2>1
  <2>. QED
    BY <1>13, <2>2 DEF Trees
<1>. QED
  BY <1>10, <1>13

\* simplify_if_statement takes a constant condition and the block it excludes.
LEMMA SimplifyKeeps ==
  ASSUME TreeInv, NEW truths, SimplifyStatements(truths)
  PROVE  TreeInv'
<1>. DEFINE constant == {n \in Visited(truths) : IsConstant(n)}
            Out(n) == IF n \in truths THEN nodes[n].orelse ELSE nodes[n].block
<1>1. stage = "optimise"
  BY DEF SimplifyStatements, Optimising
<1>2. CASE End("wild")
  BY <1>2, EndKeeps
<1>3. CASE /\ nodes' = [n \in Ids |->
                   IF n \in constant
                   THEN Node("if", <<>>, Block(n, truths), OrElse(n, truths))
                   ELSE nodes[n]]
           /\ dropped' = dropped \cup UNION {Trees(nodes[n].exprs) \cup
                     Trees(IF n \in truths THEN nodes[n].orelse ELSE nodes[n].block) :
                       n \in constant}
           /\ UNCHANGED <<stack, stage, todo, freed, stale>>
  <2>1. \A n \in constant : n \in Alive /\ n \in Ids /\ nodes[n].tag = "if" /\ IsConstant(n)
    BY <1>1, OptimisingIs, VisitedIs
  <2>2. PICK G : G = UNION {Trees(nodes[n].exprs) \cup Trees(Out(n)) : n \in constant}
    OBVIOUS
  <2>3. dropped' = dropped \cup G
    BY <1>3, <2>2
  <2>4. \A n \in Ids : nodes'[n] = IF n \in constant
                                   THEN Node("if", <<>>, Block(n, truths), OrElse(n, truths))
                                   ELSE nodes[n]
    BY <1>3
  <2>5. nodes' = [n \in Ids |-> nodes'[n]]
    BY <1>3
  <2>6. \A x : x \in G <=> \E n \in constant : x \in Trees(nodes[n].exprs) \/ x \in Trees(Out(n))
    BY <2>2
  <2>. HIDE DEF constant, Out
  <2>7. <<>> \in Seq(Nat) /\ ToSet(<<>>) = {}
    BY Short
  <2>8. "if" \in Tags
    BY DEF Tags
  <2>9. ASSUME NEW n \in constant
        PROVE  /\ Trimmed(n)
               /\ ToSet(Parts(n)) \ ToSet(Parts(n)') = ToSet(nodes[n].exprs) \cup ToSet(Out(n))
    <3>1. n \in Ids /\ nodes[n].tag = "if" /\ n \in Alive /\ IsConstant(n)
      BY <2>1
    <3>2. PICK e, b, o, d : e = <<>> /\ b = Block(n, truths) /\ o = OrElse(n, truths) /\ d = Node("if", e, b, o)
      OBVIOUS
    <3>3. /\ b = (IF n \in truths THEN nodes[n].block ELSE <<>>)
          /\ o = (IF n \in truths THEN <<>> ELSE nodes[n].orelse)
      BY <3>1, <3>2 DEF Block, OrElse
    <3>4. b \in Seq(Nat) /\ o \in Seq(Nat) /\ e \in Seq(Nat) /\ ToSet(e) = {}
      BY <2>7, <3>1, <3>2, <3>3, PartsAre
    <3>5. IsNode(d) /\ d.tag = "if" /\ d.exprs = e /\ d.block = b /\ d.orelse = o
      <4>1. d = Node("if", e, b, o)
        BY <3>2
      <4>. QED
        BY <2>8, <3>4, <4>1, NodeIs
    <3>6. nodes'[n] = d
      BY <2>4, <3>1, <3>2
    <3>7. Trimmed(n)
      BY <3>1, <3>2, <3>3, <3>5, <3>6 DEF Trimmed
    <3>8. ToSet(Parts(n)') = ToSet(b) \cup ToSet(o)
      <4>1. Parts(n)' = Lists(d)
        BY <3>6 DEF Parts, Lists
      <4>. QED
        BY <3>4, <3>5, <4>1, NodeLists
    <3>9. ToSet(Parts(n)) = ToSet(nodes[n].exprs) \cup ToSet(nodes[n].block) \cup ToSet(nodes[n].orelse)
      BY <3>1, PartsAre
    <3>10. IsInjective(Lists(nodes[n])) /\ IsNode(nodes[n])
      BY <1>1, <3>1, OptimisingIs, PartsAre
    <3>11. /\ ToSet(nodes[n].exprs) \cap ToSet(nodes[n].block) = {}
           /\ ToSet(nodes[n].exprs) \cap ToSet(nodes[n].orelse) = {}
           /\ ToSet(nodes[n].block) \cap ToSet(nodes[n].orelse) = {}
      BY <3>10, ListsBack
    <3>12. CASE n \in truths
      <4>1. b = nodes[n].block /\ o = <<>> /\ Out(n) = nodes[n].orelse
        BY <3>3, <3>12 DEF Out
      <4>2. ToSet(Parts(n)') = ToSet(nodes[n].block)
        BY <2>7, <3>8, <4>1
      <4>. QED
        BY <3>7, <3>9, <3>11, <4>1, <4>2
    <3>13. CASE n \notin truths
      <4>1. b = <<>> /\ o = nodes[n].orelse /\ Out(n) = nodes[n].block
        BY <3>3, <3>13 DEF Out
      <4>2. ToSet(Parts(n)') = ToSet(nodes[n].orelse)
        BY <2>7, <3>8, <4>1
      <4>. QED
        BY <3>7, <3>9, <3>11, <4>1, <4>2
    <3>. QED
      BY <3>12, <3>13
  <2>10. ASSUME NEW n \in Ids, n \notin constant PROVE Trimmed(n) /\ Parts(n)' = Parts(n)
    <3>1. nodes'[n] = nodes[n] /\ IsNode(nodes[n])
      BY <2>4, <2>10, PartsAre
    <3>. QED
      BY <3>1 DEF Trimmed, Parts
  <2>11. Taken(G)
    <3>1. ASSUME NEW x
          PROVE  x \in G <=> \E h \in Alive : \E r \in ToSet(Parts(h)) \ ToSet(Parts(h)') : x \in TreeOf[r]
      <4>1. ASSUME NEW n \in constant
            PROVE  x \in Trees(nodes[n].exprs) \/ x \in Trees(Out(n))
                     <=> \E r \in ToSet(Parts(n)) \ ToSet(Parts(n)') : x \in TreeOf[r]
        BY <2>9 DEF Trees
      <4>2. ASSUME NEW h \in Alive, h \notin constant
            PROVE  ~ \E r \in ToSet(Parts(h)) \ ToSet(Parts(h)') : x \in TreeOf[r]
        BY <2>10, <4>2 DEF Alive
      <4>3. \A n \in constant : n \in Alive
        BY <2>1
      <4>. QED
        BY <2>6, <4>1, <4>2, <4>3
    <3>. QED
      BY <3>1 DEF Taken
  <2>12. \A n \in Ids : Trimmed(n)
    BY <2>9, <2>10
  <2>. QED
    BY <1>1, <1>3, <2>3, <2>5, <2>11, <2>12, TrimmedKeeps
<1>. QED
  BY <1>2, <1>3 DEF SimplifyStatements

\* Every step of the optimiser keeps the invariant.
LEMMA OptimiseKeeps == TreeInv /\ Optimise => TreeInv'
<1>. SUFFICES ASSUME TreeInv, Optimise PROVE TreeInv'
  OBVIOUS
<1>1. ASSUME NEW n \in Expressions, ConstProp(n) \/ ConstFold(n) PROVE TreeInv'
  BY <1>1, ConstPropKeeps, ConstFoldKeeps
<1>2. CASE OptimiserFails
  BY <1>2, EndKeeps DEF OptimiserFails
<1>3. ASSUME NEW truths, SimplifyStatements(truths) PROVE TreeInv'
  BY <1>3, SimplifyKeeps
<1>. QED
  BY <1>1, <1>2, <1>3 DEF Optimise

\* The invariant is inductive.
LEMMA TreeInitInv == TreeInit => TreeInv
<1>. SUFFICES ASSUME TreeInit PROVE TreeInv
  OBVIOUS
<1>1. PICK e, v, s : e = <<>> /\ v = Item("block", e) /\ s = << v >>
  OBVIOUS
<1>2. e \in Seq(Nat) /\ ToSet(e) = {} /\ IsInjective(e)
  BY <1>1, Short
<1>3. v.kind = "block" /\ v.ids = e /\ v = Item(v.kind, v.ids)
  BY <1>1 DEF Item
<1>4. /\ nodes = e /\ freed = e /\ todo = e /\ stack = s /\ stage = "parse" /\ dropped = {} /\ stale = FALSE
  BY <1>1 DEF TreeInit
<1>5. Len(s) = 1 /\ DOMAIN s = 1 .. 1 /\ s[1] = v /\ s = [i \in 1 .. 1 |-> s[i]]
  BY <1>1
<1>6. DOMAIN e = {} /\ Len(e) = 0 /\ \A S : e \in Seq(S)
  BY <1>1
<1>7. Ids = {}
  BY <1>4, <1>6 DEF Ids
<1>8. Typed
  <2>1. nodes \in Seq({nodes[n] : n \in Ids})
    BY <1>4, <1>6
  <2>2. /\ Len(stack) \in Nat /\ DOMAIN stack = 1 .. Len(stack) /\ stack = [i \in 1 .. Len(stack) |-> stack[i]]
    BY <1>4, <1>5
  <2>3. ASSUME NEW i \in DOMAIN stack PROVE stack[i] = v
    BY <1>4, <1>5, <2>3
  <2>4. Len(todo) \in Nat /\ DOMAIN todo = 1 .. Len(todo) /\ todo = [i \in 1 .. Len(todo) |-> todo[i]] /\ DOMAIN todo = {}
    <3>1. Len(e) \in Nat /\ DOMAIN e = 1 .. Len(e) /\ e = [i \in 1 .. Len(e) |-> e[i]]
      BY <1>2, SeqIs
    <3>. QED
      BY <1>4, <1>6, <3>1
  <2>5. freed = [n \in Ids |-> freed[n]]
    <3>1. e = [i \in 1 .. Len(e) |-> e[i]] /\ DOMAIN e = 1 .. Len(e)
      BY <1>2, SeqIs
    <3>. QED
      BY <1>4, <1>6, <1>7, <3>1
  <2>. QED
    BY <1>2, <1>3, <1>4, <1>7, <2>1, <2>2, <2>3, <2>4, <2>5 DEF Typed
<1>9. TagInv
  <2>1. \A i \in DOMAIN stack : stack[i] = v
    BY <1>4, <1>5
  <2>. QED
    BY <1>2, <1>3, <1>7, <2>1 DEF TagInv, Valued
<1>10. StageInv
  BY <1>4, <1>7, <1>1 DEF StageInv
<1>11. HeldInv
  <2>1. Live = {}
    BY <1>4, <1>7 DEF Live, Alive
  <2>2. Holders = {-1} /\ List(-1) = e
    <3>1. Holders = {-1}
      BY <1>4, <1>5, <2>1 DEF Holders
    <3>2. ~(-1 > 0) /\ 0 - (-1) = 1
      OBVIOUS
    <3>. QED
      BY <1>3, <1>4, <1>5, <3>1, <3>2 DEF List
  <2>. QED
    BY <1>2, <2>1, <2>2 DEF HeldInv
<1>. QED
  BY <1>8, <1>9, <1>10, <1>11, TypesAre DEF TreeInv

\* It holds after every step
LEMMA TreeNextInv == TreeInv /\ [TreeNext]_treeVars => TreeInv'
<1>. SUFFICES ASSUME TreeInv, [TreeNext]_treeVars PROVE TreeInv'
  OBVIOUS
<1>1. CASE Parse
  <2>1. stage = "parse"
    BY <1>1 DEF Parse, Atom, ExpressionBegins, BinaryOp, UnaryOp, OpenArguments, AppendArgument,
        FunctionCall, Assignment, OpAssignment, Return, Flow, OpenBlock, OpenElse, If, While, For,
        OpenParameters, AppendParameter, OpenBody, FunctionDef, Kinds
  <2>. QED
    BY <1>1, <2>1, ParseKeeps DEF Parsing
<1>2. CASE EndParse
  BY <1>2, EndParseKeeps
<1>3. CASE Compile
  BY <1>3, CompileKeeps
<1>4. CASE Optimise
  BY <1>4, OptimiseKeeps
<1>5. CASE FreeProgram
  BY <1>5, FreeProgramKeeps
<1>6. CASE UNCHANGED treeVars
  <2>1. UNCHANGED <<nodes, stack, stage, todo, freed, dropped, stale>>
    BY <1>6 DEF treeVars
  <2>2. stale \in BOOLEAN
    BY DEF TreeInv, TreeTypeOK
  <2>3. TreeTypeOK'
    BY <2>1, <2>2, TypesStay, TypesAre DEF TreeInv, Typed
  <2>4. TagInv' /\ Ids' = Ids /\ StatementIds' = StatementIds /\ ExpressionIds' = ExpressionIds
    BY <2>1, NodesStay
  <2>5. HeldInv'
    <3>1. Live' = Live
      BY <2>1, <2>4 DEF Live, Alive
    <3>2. Holders' = Holders
      BY <2>1, <3>1 DEF Holders
    <3>3. \A h : List(h)' = List(h)
      BY <2>1 DEF List, Parts
    <3>. QED
      BY <2>1, <3>1, <3>2, <3>3 DEF TreeInv, HeldInv
  <2>6. StageInv'
    BY <2>1, <2>4 DEF TreeInv, StageInv, ItemInv
  <2>. QED
    BY <2>3, <2>4, <2>5, <2>6 DEF TreeInv
<1>. QED
  BY <1>1, <1>2, <1>3, <1>4, <1>5, <1>6 DEF TreeNext

\* and so always.
LEMMA TreeInvariant == TreeSpec => []TreeInv
  BY TreeInitInv, TreeNextInv, PTL DEF TreeSpec

\* The nodes, the parser's values and what is left to compile have their types, after
\* every constructor of ast.c and every pass.
THEOREM TreeTyped == TreeSpec => []TreeTypeOK
<1>1. TreeInv => TreeTypeOK
  BY DEF TreeInv
<1>. QED
  BY <1>1, TreeInvariant, PTL

-----------------------------------------------------------------------------
(* Each node has one pointer to it. *)

\* A holder of a node is one pointer to it.
LEMMA TreeHeld == TreeInv => EachHeldOnce
<1>. SUFFICES ASSUME TreeInv, stage \in {"parse", "optimise"}
     PROVE  /\ \A m \in Alive : ToSet(Parts(m)) \subseteq Alive
            /\ \A i \in DOMAIN stack : ToSet(stack[i].ids) \subseteq Alive
            /\ \A n \in Alive :
                 Cardinality(Held(Alive, Parts, n)) + Cardinality(Held(DOMAIN stack, IdsOf, n)) = 1
  BY DEF EachHeldOnce
<1>1. Typed /\ Ids \subseteq Nat /\ Ids = 1 .. Len(nodes) /\ Len(nodes) \in Nat
  BY TypesAre, IdsAre DEF TreeInv, Typed
<1>2. Live = Alive /\ Alive \subseteq Ids
  BY DEF Live, Alive
<1>3. /\ \A h \in Holders : ToSet(List(h)) \subseteq Alive /\ IsInjective(List(h))
      /\ \A h, g \in Holders : h # g => ToSet(List(h)) \cap ToSet(List(g)) = {}
      /\ \A n \in Alive : \E h \in Holders : n \in ToSet(List(h))
  BY <1>2 DEF TreeInv, HeldInv
<1>4. ASSUME NEW m \in Alive PROVE m \in Holders /\ List(m) = Parts(m)
  BY <1>1, <1>2 DEF Holders, List
<1>5. ASSUME NEW i \in DOMAIN stack PROVE 0 - i \in Holders /\ List(0 - i) = stack[i].ids
  <2>1. i \in Nat /\ i > 0 /\ ~(0 - i > 0) /\ 0 - (0 - i) = i
    BY <1>1 DEF Typed
  <2>. QED
    BY <2>1 DEF Holders, List
<1>6. ASSUME NEW m \in Alive, NEW i \in DOMAIN stack PROVE m # 0 - i
  BY <1>1, <1>2 DEF Typed
<1>7. ASSUME NEW n \in Alive
      PROVE  Cardinality(Held(Alive, Parts, n)) + Cardinality(Held(DOMAIN stack, IdsOf, n)) = 1
  <2>. DEFINE A == Held(Alive, Parts, n)
              B == Held(DOMAIN stack, IdsOf, n)
  <2>1. \A x : x \in A <=> \E h \in Alive : \E j \in DOMAIN Parts(h) : Parts(h)[j] = n /\ x = <<h, j>>
    BY DEF Held
  <2>2. \A x : x \in B <=> \E i \in DOMAIN stack : \E j \in DOMAIN stack[i].ids :
                              stack[i].ids[j] = n /\ x = <<i, j>>
    BY DEF Held, IdsOf
  <2>. HIDE DEF A, B
  <2>3. PICK h \in Holders : n \in ToSet(List(h))
    BY <1>3
  <2>4. PICK j \in DOMAIN List(h) : List(h)[j] = n
    BY <2>3 DEF ToSet
  <2>5. \A k \in DOMAIN List(h) : List(h)[k] = n => k = j
    BY <1>3, <2>4 DEF IsInjective
  <2>6. \A g \in Holders : n \in ToSet(List(g)) => g = h
    BY <1>3, <2>3
  <2>7. h \in Alive \/ \E i \in DOMAIN stack : h = 0 - i
    BY <1>2 DEF Holders
  <2>8. ASSUME NEW m \in Alive, NEW k \in DOMAIN Parts(m), Parts(m)[k] = n PROVE m = h /\ k = j
    <3>1. m \in Holders /\ List(m) = Parts(m)
      BY <1>4
    <3>2. n \in ToSet(List(m))
      BY <2>8, <3>1 DEF ToSet
    <3>3. m = h
      BY <2>6, <3>1, <3>2
    <3>. QED
      BY <2>5, <2>8, <3>1, <3>3
  <2>9. ASSUME NEW i \in DOMAIN stack, NEW k \in DOMAIN stack[i].ids, stack[i].ids[k] = n
        PROVE  0 - i = h /\ k = j
    <3>1. 0 - i \in Holders /\ List(0 - i) = stack[i].ids
      BY <1>5
    <3>2. n \in ToSet(List(0 - i))
      BY <2>9, <3>1 DEF ToSet
    <3>3. 0 - i = h
      BY <2>6, <3>1, <3>2
    <3>. QED
      BY <2>5, <2>9, <3>1, <3>3
  <2>10. CASE h \in Alive
    <3>1. List(h) = Parts(h)
      BY <1>4, <2>10
    <3>2. A = {<<h, j>>}
      BY <2>1, <2>4, <2>8, <2>10, <3>1
    <3>3. B = {}
      BY <1>6, <2>2, <2>9, <2>10
    <3>4. Cardinality(A) = 1 /\ Cardinality(B) = 0
      BY <3>2, <3>3, FS_Singleton, FS_EmptySet
    <3>. QED
      BY <3>4 DEF A, B
  <2>11. ASSUME NEW i \in DOMAIN stack, h = 0 - i
         PROVE  Cardinality(A) + Cardinality(B) = 1
    <3>1. List(h) = stack[i].ids
      BY <1>5, <2>11
    <3>2. \A k \in DOMAIN stack : 0 - k = h => k = i
      BY <1>1, <2>11 DEF Typed
    <3>3. B = {<<i, j>>}
      BY <2>2, <2>4, <2>9, <3>1, <3>2
    <3>4. A = {}
      BY <1>6, <2>1, <2>8, <2>11
    <3>5. Cardinality(A) = 0 /\ Cardinality(B) = 1
      BY <3>3, <3>4, FS_Singleton, FS_EmptySet
    <3>. QED
      BY <3>5
  <2>. QED
    BY <2>7, <2>10, <2>11 DEF A, B
<1>8. \A m \in Alive : ToSet(Parts(m)) \subseteq Alive
  BY <1>3, <1>4
<1>9. \A i \in DOMAIN stack : ToSet(stack[i].ids) \subseteq Alive
  BY <1>3, <1>5
<1>. QED
  BY <1>7, <1>8, <1>9

\* While the parser and the optimiser run, a node that is neither freed nor unlinked has
\* one pointer to it, and none leads to another node: nothing is shared, and nothing lost.
THEOREM HeldByOne == TreeSpec => []EachHeldOnce
  BY TreeHeld, TreeInvariant, PTL

-----------------------------------------------------------------------------
(* Trees that have nothing in common. *)

\* While the compiler or the optimiser runs: a node that lives is in the program, or
\* a part of one other.
LEMMA SoleHolders ==
  ASSUME TreeInv, stage \in {"compile", "optimise"}
  PROVE  /\ Shaped /\ Ids \subseteq Nat /\ Live \subseteq Ids
         /\ \A n \in Live : ToSet(Parts(n)) \subseteq Live /\ TreeOf[n] \subseteq Live /\ IsInjective(Parts(n))
         /\ \A h, g \in Live : h # g => ToSet(Parts(h)) \cap ToSet(Parts(g)) = {}
         /\ ToSet(Program) \subseteq Live /\ IsInjective(Program)
         /\ \A h \in Live : ToSet(Parts(h)) \cap ToSet(Program) = {}
         /\ \A n \in Live : n \in ToSet(Program) \/ \E h \in Live : n \in ToSet(Parts(h))
         /\ stage = "compile" => Live = Ids
<1>1. Typed /\ Len(stack) = 1 /\ Shaped
  BY TypesAre, ShapedIs DEF TreeInv, StageInv
<1>2. Ids = 1 .. Len(nodes) /\ Len(nodes) \in Nat
  BY <1>1, IdsAre DEF Typed
<1>3. Live \subseteq Ids /\ (stage = "compile" => Live = Ids)
  BY DEF Live, Alive
<1>4. Holders = Live \cup {-1}
  <2>1. {0 - i : i \in DOMAIN stack} = {-1}
    <3>1. DOMAIN stack = {1}
      BY <1>1 DEF Typed
    <3>. QED
      BY <3>1
  <2>. QED
    BY <2>1 DEF Holders
<1>5. List(-1) = Program
  BY DEF List, Program
<1>6. \A n \in Ids : List(n) = Parts(n) /\ n # -1
  BY <1>2 DEF List
<1>7. /\ \A h \in Holders : ToSet(List(h)) \subseteq Live /\ IsInjective(List(h))
      /\ \A h, g \in Holders : h # g => ToSet(List(h)) \cap ToSet(List(g)) = {}
      /\ \A n \in Live : \E h \in Holders : n \in ToSet(List(h))
  BY DEF TreeInv, HeldInv
<1>8. \A n \in Live : ToSet(Parts(n)) \subseteq Live /\ IsInjective(Parts(n))
  BY <1>3, <1>4, <1>6, <1>7
<1>9. \A n \in Live : TreeOf[n] \subseteq Live
  BY <1>1, <1>3, <1>8, TreeWithin
<1>10. \A h, g \in Live : h # g => ToSet(Parts(h)) \cap ToSet(Parts(g)) = {}
  BY <1>3, <1>4, <1>6, <1>7
<1>11. ToSet(Program) \subseteq Live /\ IsInjective(Program)
  BY <1>4, <1>5, <1>7
<1>12. \A h \in Live : ToSet(Parts(h)) \cap ToSet(Program) = {}
  BY <1>3, <1>4, <1>5, <1>6, <1>7
<1>13. \A n \in Live : n \in ToSet(Program) \/ \E h \in Live : n \in ToSet(Parts(h))
  BY <1>3, <1>4, <1>5, <1>6, <1>7
<1>. QED
  BY <1>1, <1>2, <1>3, <1>8, <1>9, <1>10, <1>11, <1>12, <1>13

\* Two trees are apart, or one is in the other.
LEMMA Comparable ==
  ASSUME TreeInv, stage \in {"compile", "optimise"}, NEW a \in Live, NEW b \in Live,
         a \notin TreeOf[b], b \notin TreeOf[a]
  PROVE  TreeOf[a] \cap TreeOf[b] = {}
<1>1. /\ Shaped /\ a \in Ids /\ b \in Ids /\ TreeOf[a] \subseteq Live /\ TreeOf[b] \subseteq Live
      /\ \A h, g \in Live : h # g => ToSet(Parts(h)) \cap ToSet(Parts(g)) = {}
  BY SoleHolders
<1>. DEFINE S == TreeOf[a] \cap TreeOf[b]
<1>. SUFFICES ASSUME S # {} PROVE FALSE
  OBVIOUS
<1>2. S \subseteq Ids
  BY <1>1, TreeHas
<1>3. PICK m \in Nat : Ids = 1 .. m
  BY TypesAre, IdsAre DEF TreeInv, Typed
<1>4. PICK r \in S : \A s \in S : s <= r
  BY <1>2, <1>3, Greatest
<1>5. r # a /\ r # b
  BY <1>4
<1>6. PICK q \in TreeOf[a] : r \in ToSet(Parts(q))
  BY <1>1, <1>4, <1>5, TreeHas
<1>7. PICK p \in TreeOf[b] : r \in ToSet(Parts(p))
  BY <1>1, <1>4, <1>5, TreeHas
<1>8. q = p
  BY <1>1, <1>6, <1>7
<1>9. q \in S /\ q \in Ids /\ r < q /\ r \in Nat /\ q \in Nat
  BY <1>1, <1>2, <1>6, <1>7, <1>8 DEF Shaped
<1>10. ~(q <= r)
  BY <1>9
<1>. QED
  BY <1>4, <1>9, <1>10

\* The trees of the parts of two nodes of which neither is in the other's part.
LEMMA PartsApart ==
  ASSUME TreeInv, stage \in {"compile", "optimise"}, NEW h \in Live, NEW g \in Live,
         NEW a \in ToSet(Parts(h)), NEW b \in ToSet(Parts(g)), a # b,
         h \notin TreeOf[b], g \notin TreeOf[a]
  PROVE  TreeOf[a] \cap TreeOf[b] = {}
<1>1. /\ Shaped /\ a \in Live /\ b \in Live /\ Live \subseteq Ids
      /\ TreeOf[a] \subseteq Live /\ TreeOf[b] \subseteq Live
      /\ \A i, k \in Live : i # k => ToSet(Parts(i)) \cap ToSet(Parts(k)) = {}
  BY SoleHolders
<1>2. ASSUME a \in TreeOf[b] PROVE FALSE
  <2>1. PICK q \in TreeOf[b] : a \in ToSet(Parts(q))
    BY <1>1, <1>2, TreeHas
  <2>2. q = h
    BY <1>1, <2>1
  <2>. QED
    BY <2>1, <2>2
<1>3. ASSUME b \in TreeOf[a] PROVE FALSE
  <2>1. PICK q \in TreeOf[a] : b \in ToSet(Parts(q))
    BY <1>1, <1>3, TreeHas
  <2>2. q = g
    BY <1>1, <2>1
  <2>. QED
    BY <2>1, <2>2
<1>. QED
  BY <1>1, <1>2, <1>3, Comparable

\* The trees of two parts of a node.
LEMMA SiblingsApart ==
  ASSUME TreeInv, stage \in {"compile", "optimise"}, NEW n \in Live,
         NEW a \in ToSet(Parts(n)), NEW b \in ToSet(Parts(n)), a # b
  PROVE  TreeOf[a] \cap TreeOf[b] = {}
<1>1. ASSUME NEW k \in ToSet(Parts(n)) PROVE n \notin TreeOf[k]
  <2>1. n \in Ids /\ Shaped
    BY SoleHolders
  <2>2. k \in Ids /\ k < n /\ k \in Nat /\ n \in Nat
    BY <2>1 DEF Shaped
  <2>3. n \in TreeOf[k] => n <= k
    BY <2>1, <2>2, TreeHas
  <2>. QED
    BY <2>2, <2>3
<1>. QED
  BY <1>1, PartsApart

\* The trees of two statements of the program.
LEMMA ProgramApart ==
  ASSUME TreeInv, stage \in {"compile", "optimise"},
         NEW a \in ToSet(Program), NEW b \in ToSet(Program), a # b
  PROVE  TreeOf[a] \cap TreeOf[b] = {}
<1>1. /\ Shaped /\ a \in Live /\ b \in Live /\ Live \subseteq Ids
      /\ TreeOf[a] \subseteq Live /\ TreeOf[b] \subseteq Live
      /\ \A h \in Live : ToSet(Parts(h)) \cap ToSet(Program) = {}
  BY SoleHolders
<1>2. ASSUME a \in TreeOf[b] PROVE FALSE
  <2>1. PICK q \in TreeOf[b] : a \in ToSet(Parts(q))
    BY <1>1, <1>2, TreeHas
  <2>. QED
    BY <1>1, <2>1
<1>3. ASSUME b \in TreeOf[a] PROVE FALSE
  <2>1. PICK q \in TreeOf[a] : b \in ToSet(Parts(q))
    BY <1>1, <1>3, TreeHas
  <2>. QED
    BY <1>1, <2>1
<1>. QED
  BY <1>1, <1>2, <1>3, Comparable

\* What the program does not reach does not live.
LEMMA ProgramHasAll ==
  ASSUME TreeInv, stage \in {"compile", "optimise"}
  PROVE  Trees(Program) = Live
<1>1. /\ Shaped /\ Live \subseteq Ids /\ ToSet(Program) \subseteq Live
      /\ \A n \in Live : TreeOf[n] \subseteq Live
      /\ \A n \in Live : n \in ToSet(Program) \/ \E h \in Live : n \in ToSet(Parts(h))
  BY SoleHolders
<1>2. Trees(Program) \subseteq Live
  BY <1>1 DEF Trees
<1>. DEFINE S == {n \in Live : n \notin Trees(Program)}
<1>3. S = {}
  <2>. SUFFICES ASSUME S # {} PROVE FALSE
    OBVIOUS
  <2>1. PICK m \in Nat : Ids = 1 .. m
    BY TypesAre, IdsAre DEF TreeInv, Typed
  <2>2. S \in SUBSET (1 .. m)
    BY <1>1, <2>1
  <2>3. PICK r \in S : \A s \in S : s <= r
    BY <2>1, <2>2, Greatest
  <2>4. r \in Live /\ r \in Ids /\ r \notin Trees(Program)
    BY <1>1, <2>3
  <2>5. r \in TreeOf[r]
    BY <1>1, <2>4, TreeHas
  <2>6. r \notin ToSet(Program)
    BY <2>4, <2>5 DEF Trees
  <2>7. PICK h \in Live : r \in ToSet(Parts(h))
    BY <1>1, <2>4, <2>6
  <2>8. h \in Ids /\ r < h /\ r \in Nat /\ h \in Nat
    BY <1>1, <2>7 DEF Shaped
  <2>9. h \in Trees(Program)
    <3>1. ~(h <= r)
      BY <2>8
    <3>. QED
      BY <2>3, <2>7, <3>1
  <2>10. PICK p \in ToSet(Program) : h \in TreeOf[p]
    BY <2>9 DEF Trees
  <2>11. r \in TreeOf[p]
    BY <1>1, <2>7, <2>10, TreeHas
  <2>. QED
    BY <2>4, <2>10, <2>11 DEF Trees
<1>. QED
  BY <1>2, <1>3

-----------------------------------------------------------------------------
(* Statements and what is under them. *)

\* What Under has, step by step.
LEMMA UnderRule ==
  ASSUME TreeInv, stage = "compile"
  PROVE  \A n \in Ids : \A x : x \in Under[n] <=>
           /\ nodes[n].tag # "function"
           /\ x = n \/ \E k \in ToSet(nodes[n].block \o nodes[n].orelse) : x \in Under[k]
<1>. DEFINE own == [n \in Ids |-> IF nodes[n].tag = "function" THEN {} ELSE {n}]
            next == [n \in Ids |-> IF nodes[n].tag = "function" THEN {}
                                   ELSE ToSet(nodes[n].block \o nodes[n].orelse)]
            Is(u) == u = [n \in Ids |-> IF nodes[n].tag = "function" THEN {}
                            ELSE {n} \cup UNION {u[k] : k \in ToSet(nodes[n].block \o nodes[n].orelse)}]
            under == CHOOSE u : Is(u)
<1>1. Shaped
  BY ShapedIs
<1>2. ASSUME NEW n \in Ids PROVE ToSet(nodes[n].block \o nodes[n].orelse) \subseteq ToSet(Parts(n))
  <2>1. PICK s, t : s = nodes[n].block /\ t = nodes[n].orelse
    OBVIOUS
  <2>2. s \in Seq(Nat) /\ t \in Seq(Nat)
    BY <2>1, PartsAre
  <2>3. ToSet(s \o t) = ToSet(s) \cup ToSet(t)
    BY <2>2, Joined
  <2>. QED
    BY <2>1, <2>3, PartsAre
<1>3. own \in [Ids -> SUBSET Ids]
  OBVIOUS
<1>4. next \in [Ids -> SUBSET Ids]
  <2>1. \A n \in Ids : ToSet(Parts(n)) \subseteq Ids
    BY <1>1 DEF Shaped
  <2>. QED
    BY <1>2, <2>1
<1>5. \A n \in Ids : \A x : x \in own[n] <=> nodes[n].tag # "function" /\ x = n
  OBVIOUS
<1>6. \A n \in Ids : \A k : k \in next[n] <=> nodes[n].tag # "function" /\ k \in ToSet(nodes[n].block \o nodes[n].orelse)
  OBVIOUS
<1>. HIDE DEF own, next
<1>7. PICK f \in [Ids -> SUBSET Ids] : Solves(f, Ids, own, next)
  BY <1>3, <1>4, Recursion
<1>8. Is(f)
  <2>. DEFINE g == [n \in Ids |-> IF nodes[n].tag = "function" THEN {}
                      ELSE {n} \cup UNION {f[k] : k \in ToSet(nodes[n].block \o nodes[n].orelse)}]
  <2>1. ASSUME NEW n \in Ids, NEW x PROVE x \in g[n] <=> x \in f[n]
    <3>1. x \in f[n] <=> x \in own[n] \/ \E k \in next[n] : x \in f[k]
      BY <1>7 DEF Solves
    <3>2. x \in g[n] <=> /\ nodes[n].tag # "function"
                         /\ x = n \/ \E k \in ToSet(nodes[n].block \o nodes[n].orelse) : x \in f[k]
      OBVIOUS
    <3>. QED
      BY <1>5, <1>6, <3>1, <3>2
  <2>2. g = [n \in Ids |-> g[n]] /\ f = [n \in Ids |-> f[n]]
    OBVIOUS
  <2>. HIDE DEF g
  <2>3. \A n \in Ids : g[n] = f[n]
    BY <2>1
  <2>4. g = f
    BY <2>2, <2>3
  <2>. QED
    BY <2>4 DEF g
<1>10. Under = under
  BY DEF Under
<1>. HIDE DEF Is
<1>9. Is(under)
  BY <1>8
<1>11. ASSUME NEW n \in Ids, NEW x
       PROVE  x \in Under[n] <=>
                /\ nodes[n].tag # "function"
                /\ x = n \/ \E k \in ToSet(nodes[n].block \o nodes[n].orelse) : x \in Under[k]
  <2>1. PICK h : h = under
    OBVIOUS
  <2>2. Is(h)
    <3>. HIDE DEF under
    <3>. QED
      BY <1>9, <2>1
  <2>. HIDE DEF under
  <2>3. h[n] = IF nodes[n].tag = "function" THEN {}
               ELSE {n} \cup UNION {h[k] : k \in ToSet(nodes[n].block \o nodes[n].orelse)}
    BY <2>2 DEF Is
  <2>4. x \in h[n] <=> /\ nodes[n].tag # "function"
                       /\ x = n \/ \E k \in ToSet(nodes[n].block \o nodes[n].orelse) : x \in h[k]
    BY <2>3
  <2>. QED
    BY <1>10, <2>1, <2>4
<1>. QED
  BY <1>11

\* CompiledStatements, with Under.
LEMMA CompiledAre ==
  CompiledStatements =
    UNION {Under[n] : n \in (UNION {ToSet(nodes[m].block) : m \in ToSet(Leading)}) \cup ToSet(Program)}
<1>. DEFINE under == CHOOSE u : u = [n \in Ids |-> IF nodes[n].tag = "function" THEN {}
                            ELSE {n} \cup UNION {u[k] : k \in ToSet(nodes[n].block \o nodes[n].orelse)}]
<1>1. CompiledStatements =
    UNION {under[n] : n \in (UNION {ToSet(nodes[m].block) : m \in ToSet(Leading)}) \cup ToSet(Program)}
  BY DEF CompiledStatements
<1>2. Under = under
  BY DEF Under
<1>. HIDE DEF under
<1>. QED
  BY <1>1, <1>2

\* The trees of expressions and parameters have nothing else.
NonStatements == ExpressionIds \cup ParameterIds

\* A tree that begins with an expression has no statement.
LEMMA ExpressionsOnly ==
  ASSUME TreeInv
  PROVE  /\ \A n \in NonStatements : TreeOf[n] \subseteq NonStatements
         /\ NonStatements \cap StatementIds = {}
         /\ \A n \in Ids : ToSet(nodes[n].exprs) \subseteq NonStatements
         /\ \A n \in Ids : Trees(nodes[n].exprs) \subseteq NonStatements
<1>1. Shaped /\ TagInv
  BY ShapedIs DEF TreeInv
<1>2. \A n \in Ids : ToSet(nodes[n].exprs) \subseteq NonStatements
  BY <1>1 DEF TagInv, Tagged, NonStatements
<1>3. ASSUME NEW n \in NonStatements PROVE ToSet(Parts(n)) \subseteq NonStatements
  <2>1. n \in Ids /\ nodes[n].tag \notin {"if", "while", "for", "function"}
    BY DEF NonStatements, ExpressionIds, ParameterIds, ExpressionTags, Atoms, CallTags
  <2>2. nodes[n].block = <<>> /\ nodes[n].orelse = <<>>
    BY <1>1, <2>1 DEF TagInv, Tagged
  <2>3. ToSet(nodes[n].block) = {} /\ ToSet(nodes[n].orelse) = {}
    BY <2>2, Short
  <2>4. ToSet(Parts(n)) = ToSet(nodes[n].exprs)
    BY <2>1, <2>3, PartsAre
  <2>. QED
    BY <1>2, <2>1, <2>4
<1>4. NonStatements \subseteq Ids
  BY DEF NonStatements, ExpressionIds, ParameterIds
<1>5. \A n \in NonStatements : TreeOf[n] \subseteq NonStatements
  BY <1>1, <1>3, <1>4, TreeWithin
<1>6. NonStatements \cap StatementIds = {}
  BY DEF NonStatements, ExpressionIds, ParameterIds, StatementIds
<1>7. \A n \in Ids : Trees(nodes[n].exprs) \subseteq NonStatements
  BY <1>2, <1>5 DEF Trees
<1>. QED
  BY <1>2, <1>5, <1>6, <1>7

\* What is under a statement.
LEMMA UnderIs ==
  ASSUME TreeInv, stage = "compile", NEW n \in StatementIds
  PROVE  /\ Under[n] \subseteq TreeOf[n] /\ Under[n] \subseteq StatementIds
         /\ \A x \in Under[n] : nodes[x].tag # "function"
         /\ nodes[n].tag = "function" => Under[n] = {}
         /\ nodes[n].tag # "function" =>
              \A x : x \in Under[n] <=> \/ x = n
                                        \/ \E k \in ToSet(nodes[n].block) : x \in Under[k]
                                        \/ \E k \in ToSet(nodes[n].orelse) : x \in Under[k]
<1>1. Shaped /\ TagInv /\ StatementIds \subseteq Ids /\ StatementIds \subseteq Nat
  BY ShapedIs DEF TreeInv, StatementIds, Shaped
<1>2. ASSUME NEW m \in StatementIds
      PROVE  /\ nodes[m].tag = "function" => Under[m] = {}
             /\ nodes[m].tag # "function" =>
                  \A x : x \in Under[m] <=> \/ x = m
                                            \/ \E k \in ToSet(nodes[m].block) : x \in Under[k]
                                            \/ \E k \in ToSet(nodes[m].orelse) : x \in Under[k]
  <2>1. PICK s, t : s = nodes[m].block /\ t = nodes[m].orelse
    OBVIOUS
  <2>2. s \in Seq(Nat) /\ t \in Seq(Nat) /\ m \in Ids
    BY <1>1, <2>1, PartsAre
  <2>3. ToSet(s \o t) = ToSet(s) \cup ToSet(t)
    BY <2>2, Joined
  <2>4. \A x : x \in Under[m] <=>
           /\ nodes[m].tag # "function"
           /\ x = m \/ \E k \in ToSet(s \o t) : x \in Under[k]
    BY <2>1, <2>2, UnderRule
  <2>. QED
    BY <2>1, <2>3, <2>4
<1>. DEFINE Good(m) == \A x \in Under[m] : x \in TreeOf[m] /\ x \in StatementIds /\ nodes[x].tag # "function"
            Bad == {m \in StatementIds : ~Good(m)}
<1>3. Bad = {}
  <2>. SUFFICES ASSUME Bad # {} PROVE FALSE
    OBVIOUS
  <2>1. Bad \in SUBSET Nat
    BY <1>1
  <2>2. PICK r \in Bad : \A s \in Bad : r <= s
    BY <2>1, Least
  <2>3. r \in StatementIds /\ r \in Ids /\ ~Good(r)
    BY <1>1
  <2>4. PICK x \in Under[r] : ~(x \in TreeOf[r] /\ x \in StatementIds /\ nodes[x].tag # "function")
    BY <2>3
  <2>5. nodes[r].tag # "function"
    BY <1>2, <2>3, <2>4
  <2>6. x # r
    BY <1>1, <2>3, <2>4, <2>5, TreeHas
  <2>7. PICK k \in ToSet(nodes[r].block) \cup ToSet(nodes[r].orelse) : x \in Under[k]
    BY <1>2, <2>3, <2>4, <2>5, <2>6
  <2>8. k \in StatementIds /\ k \in ToSet(Parts(r))
    BY <1>1, <2>3, <2>7, PartsAre DEF TagInv, Tagged
  <2>9. k \in Ids /\ k < r /\ k \in Nat /\ r \in Nat
    BY <1>1, <2>3, <2>8 DEF Shaped
  <2>10. Good(k)
    <3>1. ~(r <= k)
      BY <2>9
    <3>. QED
      BY <2>2, <2>8, <3>1
  <2>11. x \in TreeOf[k] /\ x \in StatementIds /\ nodes[x].tag # "function"
    BY <2>7, <2>10
  <2>12. x \in TreeOf[r]
    BY <1>1, <2>3, <2>8, <2>11, TreeIs
  <2>. QED
    BY <2>4, <2>11, <2>12
<1>4. Good(n)
  BY <1>3
<1>. QED
  BY <1>2, <1>4

\* What is compiled are statements, and no functions.
LEMMA CompiledIs ==
  ASSUME TreeInv, stage = "compile"
  PROVE  CompiledStatements \subseteq StatementIds /\ \A x \in CompiledStatements : nodes[x].tag # "function"
<1>1. Len(stack) = 1 /\ stack[1].kind = "block" /\ TagInv /\ Typed
  BY TypesAre DEF TreeInv, StageInv
<1>2. ToSet(Program) \subseteq StatementIds
  BY <1>1 DEF TagInv, Valued, Program, Typed
<1>3. ToSet(Leading) \subseteq Ids
  BY <1>1, LeadingIs
<1>4. \A m \in ToSet(Leading) : ToSet(nodes[m].block) \subseteq StatementIds
  BY <1>1, <1>3 DEF TagInv, Tagged
<1>5. ASSUME NEW x \in CompiledStatements PROVE x \in StatementIds /\ nodes[x].tag # "function"
  <2>1. PICK n \in (UNION {ToSet(nodes[m].block) : m \in ToSet(Leading)}) \cup ToSet(Program) : x \in Under[n]
    BY CompiledAre
  <2>2. n \in ToSet(Program) \/ \E m \in ToSet(Leading) : n \in ToSet(nodes[m].block)
    BY <2>1
  <2>3. n \in StatementIds
    BY <1>2, <1>4, <2>2
  <2>. QED
    BY <2>1, <2>3, UnderIs
<1>. QED
  BY <1>5

\* The expressions of two statements have nothing in common.
LEMMA ExprsApart ==
  ASSUME TreeInv, stage = "compile", NEW n \in StatementIds, NEW m \in StatementIds, n # m
  PROVE  Trees(nodes[n].exprs) \cap Trees(nodes[m].exprs) = {}
<1>1. n \in Live /\ m \in Live /\ n \in Ids /\ m \in Ids
  BY SoleHolders DEF StatementIds
<1>2. ASSUME NEW a \in ToSet(nodes[n].exprs), NEW b \in ToSet(nodes[m].exprs)
      PROVE  TreeOf[a] \cap TreeOf[b] = {}
  <2>1. a \in ToSet(Parts(n)) /\ b \in ToSet(Parts(m))
    BY <1>1, PartsAre
  <2>2. a # b
    BY <1>1, <2>1, SoleHolders
  <2>3. TreeOf[a] \subseteq NonStatements /\ TreeOf[b] \subseteq NonStatements
    BY <1>1, ExpressionsOnly
  <2>4. n \notin TreeOf[b] /\ m \notin TreeOf[a]
    BY <2>3, ExpressionsOnly
  <2>. QED
    BY <1>1, <2>1, <2>2, <2>4, PartsApart
<1>. QED
  BY <1>2 DEF Trees

\* What a statement gives away is of its expressions.
LEMMA GivenIn ==
  ASSUME TreeInv, stage = "compile", NEW s \in StatementIds, Sound(s)
  PROVE  Given(s) \subseteq Trees(nodes[s].exprs)
<1>1. Shaped /\ TagInv /\ s \in Ids /\ Tagged(s) /\ nodes[s].exprs \in Seq(Nat)
  BY ShapedIs, PartsAre DEF TreeInv, StatementIds, TagInv
<1>2. ASSUME nodes[s].exprs # <<>>
      PROVE  /\ nodes[s].exprs[1] \in ToSet(nodes[s].exprs) /\ nodes[s].exprs[1] \in Ids
             /\ TreeOf[nodes[s].exprs[1]] \subseteq Trees(nodes[s].exprs)
  <2>1. nodes[s].exprs[1] \in ToSet(nodes[s].exprs)
    BY <1>1, <1>2, HeadTail
  <2>2. nodes[s].exprs[1] \in Ids
    BY <1>1, <2>1, PartsAre DEF Shaped
  <2>. QED
    BY <2>1, <2>2 DEF Trees
<1>3. CASE nodes[s].tag = "for"
  <2>1. nodes[s].exprs # <<>>
    BY <1>1, <1>3 DEF Tagged
  <2>2. PICK k : k = nodes[s].exprs[1]
    OBVIOUS
  <2>3. k \in Ids /\ nodes[k].exprs # <<>> /\ nodes[k].exprs \in Seq(Nat)
    BY <1>2, <1>3, <2>1, <2>2, PartsAre DEF Sound
  <2>4. nodes[k].exprs[1] \in ToSet(nodes[k].exprs)
    BY <2>3, HeadTail
  <2>5. nodes[k].exprs[1] \in ToSet(Parts(k))
    BY <2>3, <2>4, PartsAre
  <2>6. nodes[k].exprs[1] \in TreeOf[k]
    BY <1>1, <2>3, <2>5, TreeHas
  <2>7. TreeOf[nodes[k].exprs[1]] \subseteq TreeOf[k]
    BY <1>1, <2>3, <2>6, TreeHas
  <2>8. Given(s) = TreeOf[nodes[k].exprs[1]]
    BY <1>3, <2>2 DEF Given
  <2>. QED
    BY <1>2, <2>1, <2>2, <2>7, <2>8
<1>4. CASE nodes[s].tag = "return"
  <2>1. nodes[s].exprs # <<>>
    BY <1>4 DEF Sound
  <2>2. Given(s) = {} \/ Given(s) = TreeOf[nodes[s].exprs[1]]
    BY <1>4 DEF Given
  <2>. QED
    BY <1>2, <2>1, <2>2
<1>5. CASE nodes[s].tag \notin {"for", "return"}
  BY <1>5 DEF Given
<1>. QED
  BY <1>3, <1>4, <1>5

-----------------------------------------------------------------------------
(* What is left to compile, as nodes. *)

\* An item and others, one by one.
LEMMA PutIs ==
  ASSUME NEW s, GoodItems(s), NEW v, v.ids # <<>>
  PROVE  LET t == Put(v, s)
         IN  /\ 1 \in DOMAIN t /\ t[1] = v
             /\ \A i \in DOMAIN s : 1 + i \in DOMAIN t /\ t[1 + i] = s[i]
             /\ \A j \in DOMAIN t : j # 1 => \E i \in DOMAIN s : j = 1 + i
<1>. DEFINE t == << v >> \o s
            T == {s[i] : i \in DOMAIN s}
<1>1. s \in Seq(T)
  <2>1. /\ Len(s) \in Nat /\ s = [i \in 1 .. Len(s) |-> s[i]] /\ \A i \in 1 .. Len(s) : s[i] \in T
    BY DEF GoodItems
  <2>. HIDE DEF T
  <2>. QED
    BY <2>1, SeqFrom
<1>. HIDE DEF T
<1>2. PICK w : w = << v >>
  OBVIOUS
<1>3. w \in Seq({v}) /\ Len(w) = 1 /\ 1 \in DOMAIN w /\ w[1] = v
  BY <1>2
<1>4. /\ Len(s) \in Nat /\ DOMAIN (w \o s) = 1 .. Len(w) + Len(s)
      /\ \A i \in DOMAIN w : (w \o s)[i] = w[i]
      /\ \A i \in DOMAIN s : (w \o s)[Len(w) + i] = s[i]
  BY <1>1, <1>3, Behind
<1>5. DOMAIN t = 1 .. 1 + Len(s) /\ t[1] = v /\ \A i \in DOMAIN s : t[1 + i] = s[i]
  BY <1>2, <1>3, <1>4
<1>6. DOMAIN s = 1 .. Len(s)
  BY DEF GoodItems
<1>7. Put(v, s) = t
  BY DEF Put
<1>. HIDE DEF t
<1>8. ASSUME NEW i \in DOMAIN s PROVE 1 + i \in DOMAIN t
  BY <1>4, <1>5, <1>6
<1>9. ASSUME NEW j \in DOMAIN t, j # 1 PROVE \E i \in DOMAIN s : j = 1 + i
  <2>1. j - 1 \in DOMAIN s /\ j = 1 + (j - 1)
    BY <1>4, <1>5, <1>6, <1>9
  <2>. QED
    BY <2>1
<1>10. 1 \in DOMAIN t
  BY <1>4, <1>5
<1>. QED
  BY <1>5, <1>7, <1>8, <1>9, <1>10

\* What is in a load.
LEMMA LoadsAre ==
  /\ \A v, x : x \in ItemLoad(v) <=> \E n \in ToSet(v.ids) : x \in Load(v.kind, n)
  /\ \A s, x : x \in Loads(s) <=> \E i \in DOMAIN s : x \in ItemLoad(s[i])
<1>1. \A v, x : x \in ItemLoad(v) <=> \E n \in ToSet(v.ids) : x \in Load(v.kind, n)
  BY DEF ItemLoad
<1>2. \A s, x : x \in Loads(s) <=> \E i \in DOMAIN s : x \in ItemLoad(s[i])
  BY DEF Loads
<1>. QED
  BY <1>1, <1>2

\* An item that has nothing of the others, put before them.
LEMMA PutLoads ==
  ASSUME NEW s, GoodItems(s), LoadsApart(s), NEW v, ItemApart(v), ItemLoad(v) \cap Loads(s) = {}
  PROVE  LoadsApart(Put(v, s)) /\ Loads(Put(v, s)) = ItemLoad(v) \cup Loads(s)
<1>1. CASE v.ids = <<>>
  <2>1. ToSet(v.ids) = {}
    BY <1>1, Short
  <2>2. ItemLoad(v) = {}
    BY <2>1, LoadsAre
  <2>3. Put(v, s) = s
    BY <1>1 DEF Put
  <2>. QED
    BY <2>2, <2>3
<1>2. CASE v.ids # <<>>
  <2>1. PICK t : t = Put(v, s)
    OBVIOUS
  <2>2. /\ 1 \in DOMAIN t /\ t[1] = v
        /\ \A i \in DOMAIN s : 1 + i \in DOMAIN t /\ t[1 + i] = s[i]
        /\ \A j \in DOMAIN t : j # 1 => \E i \in DOMAIN s : j = 1 + i
    BY <1>2, <2>1, PutIs
  <2>3. \A x : x \in Loads(t) <=> x \in ItemLoad(v) \/ x \in Loads(s)
    <3>1. ASSUME NEW x, NEW j \in DOMAIN t, x \in ItemLoad(t[j])
          PROVE  x \in ItemLoad(v) \/ \E i \in DOMAIN s : x \in ItemLoad(s[i])
      BY <2>2, <3>1
    <3>. QED
      BY <2>2, <3>1, LoadsAre
  <2>4. ASSUME NEW j \in DOMAIN t PROVE ItemApart(t[j])
    <3>1. CASE j = 1
      BY <2>2, <3>1
    <3>2. ASSUME NEW i \in DOMAIN s, j = 1 + i PROVE ItemApart(t[j])
      BY <2>2, <3>2 DEF LoadsApart
    <3>. QED
      BY <2>2, <3>1, <3>2
  <2>5. ASSUME NEW i \in DOMAIN s PROVE ItemLoad(v) \cap ItemLoad(s[i]) = {}
    BY LoadsAre
  <2>6. ASSUME NEW j \in DOMAIN t, NEW k \in DOMAIN t, j # k PROVE ItemLoad(t[j]) \cap ItemLoad(t[k]) = {}
    <3>1. CASE j = 1
      <4>1. PICK i \in DOMAIN s : k = 1 + i
        BY <2>2, <2>6, <3>1
      <4>. QED
        BY <2>2, <2>5, <3>1, <4>1
    <3>2. CASE k = 1
      <4>1. PICK i \in DOMAIN s : j = 1 + i
        BY <2>2, <2>6, <3>2
      <4>. QED
        BY <2>2, <2>5, <3>2, <4>1
    <3>3. CASE j # 1 /\ k # 1
      <4>1. PICK i \in DOMAIN s : j = 1 + i
        BY <2>2, <3>3
      <4>2. PICK l \in DOMAIN s : k = 1 + l
        BY <2>2, <3>3
      <4>3. i # l
        BY <2>6, <4>1, <4>2
      <4>4. ItemLoad(s[i]) \cap ItemLoad(s[l]) = {}
        BY <4>3 DEF LoadsApart
      <4>. QED
        BY <2>2, <4>1, <4>2, <4>4
    <3>. QED
      BY <3>1, <3>2, <3>3
  <2>7. LoadsApart(t)
    BY <2>4, <2>6 DEF LoadsApart
  <2>. QED
    BY <2>1, <2>3, <2>7
<1>. QED
  BY <1>1, <1>2

\* The first node of the item at hand, and the rest.
LEMMA RestLoads ==
  ASSUME TreeInv, stage = "compile", todo # <<>>, LoadsApart(todo), NEW n, n = Head(Current.ids)
  PROVE  /\ LoadsApart(Rest) /\ Load(Current.kind, n) \cap Loads(Rest) = {}
         /\ Loads(todo) = Load(Current.kind, n) \cup Loads(Rest)
<1>1. GoodItems(todo) /\ GoodItem(Current) /\ GoodItems(Tail(todo)) /\ Current = todo[1]
  BY CurrentGood
<1>2. PICK v, s : v = Current /\ s = Tail(todo)
  OBVIOUS
<1>3. /\ 1 <= Len(todo) /\ Len(todo) \in Nat /\ DOMAIN todo = 1 .. Len(todo)
      /\ Len(s) = Len(todo) - 1 /\ \A i \in 1 .. Len(todo) - 1 : s[i] = todo[i + 1]
      /\ DOMAIN s = 1 .. Len(s)
  BY <1>1, <1>2, RestOf DEF GoodItems
<1>4. \A i \in DOMAIN s : i + 1 \in DOMAIN todo /\ i + 1 # 1 /\ s[i] = todo[i + 1]
  BY <1>3
<1>5. \A j \in DOMAIN todo : j # 1 => \E i \in DOMAIN s : j = i + 1
  <2>1. ASSUME NEW j \in DOMAIN todo, j # 1 PROVE \E i \in DOMAIN s : j = i + 1
    <3>1. j - 1 \in DOMAIN s /\ j = (j - 1) + 1
      BY <1>3, <2>1
    <3>. QED
      BY <3>1
  <2>. QED
    BY <2>1
<1>6. 1 \in DOMAIN todo
  BY <1>3
<1>7. LoadsApart(s) /\ ItemApart(v) /\ ItemLoad(v) \cap Loads(s) = {}
  <2>1. ASSUME NEW i \in DOMAIN s PROVE ItemApart(s[i]) /\ ItemLoad(v) \cap ItemLoad(s[i]) = {}
    BY <1>1, <1>2, <1>4, <1>6 DEF LoadsApart
  <2>2. ASSUME NEW i \in DOMAIN s, NEW k \in DOMAIN s, i # k PROVE ItemLoad(s[i]) \cap ItemLoad(s[k]) = {}
    <3>1. i + 1 # k + 1
      BY <1>3, <2>2
    <3>. QED
      BY <1>4, <3>1 DEF LoadsApart
  <2>3. ItemApart(v)
    BY <1>1, <1>2, <1>6 DEF LoadsApart
  <2>4. ItemLoad(v) \cap Loads(s) = {}
    BY <2>1, LoadsAre
  <2>. QED
    BY <2>1, <2>2, <2>3, <2>4 DEF LoadsApart
<1>8. \A x : x \in Loads(todo) <=> x \in ItemLoad(v) \/ x \in Loads(s)
  <2>1. ASSUME NEW x, NEW j \in DOMAIN todo, x \in ItemLoad(todo[j])
        PROVE  x \in ItemLoad(v) \/ \E i \in DOMAIN s : x \in ItemLoad(s[i])
    BY <1>1, <1>2, <1>4, <1>5, <2>1
  <2>2. ASSUME NEW x, x \in ItemLoad(v) \/ \E i \in DOMAIN s : x \in ItemLoad(s[i])
        PROVE  \E j \in DOMAIN todo : x \in ItemLoad(todo[j])
    BY <1>1, <1>2, <1>4, <1>6, <2>2
  <2>. QED
    BY <2>1, <2>2, LoadsAre
<1>9. PICK w, ids, rest : ids = v.ids /\ rest = Tail(ids) /\ w = Item(v.kind, rest)
  OBVIOUS
<1>10. w.kind = v.kind /\ w.ids = rest
  BY <1>9 DEF Item
<1>11. /\ ids \in Seq(Nat) /\ ids # <<>> /\ n = ids[1] /\ 1 \in DOMAIN ids /\ Len(ids) \in Nat
       /\ DOMAIN ids = 1 .. Len(ids)
       /\ rest \in Seq(Nat) /\ Len(rest) = Len(ids) - 1 /\ DOMAIN rest = 1 .. Len(rest)
       /\ \A i \in 1 .. Len(ids) - 1 : rest[i] = ids[i + 1]
       /\ \A x : x \in ToSet(ids) <=> x = n \/ x \in ToSet(rest)
  <2>1. ids \in Seq(Nat) /\ ids # <<>> /\ n = Head(ids)
    BY <1>1, <1>2, <1>9 DEF GoodItem
  <2>2. Len(ids) \in Nat /\ DOMAIN ids = 1 .. Len(ids)
    BY <2>1
  <2>3. /\ n = ids[1] /\ 1 \in DOMAIN ids
        /\ rest \in Seq(Nat) /\ Len(rest) = Len(ids) - 1
        /\ \A i \in 1 .. Len(ids) - 1 : rest[i] = ids[i + 1]
        /\ \A x : x \in ToSet(ids) <=> x = n \/ x \in ToSet(rest)
    BY <1>9, <2>1, HeadTail
  <2>4. DOMAIN rest = 1 .. Len(rest)
    BY <2>3
  <2>. QED
    BY <2>1, <2>2, <2>3, <2>4
<1>12. \A x : x \in ItemLoad(v) <=> x \in Load(v.kind, n) \/ x \in ItemLoad(w)
  BY <1>9, <1>10, <1>11, LoadsAre
<1>13. \A i \in DOMAIN rest : i + 1 \in DOMAIN ids /\ i + 1 # 1 /\ rest[i] = ids[i + 1]
  BY <1>11
<1>14. ItemApart(w)
  <2>1. ASSUME NEW i \in DOMAIN rest, NEW j \in DOMAIN rest, i # j
        PROVE  Load(v.kind, rest[i]) \cap Load(v.kind, rest[j]) = {}
    <3>1. i + 1 # j + 1
      BY <1>11, <2>1
    <3>. QED
      BY <1>7, <1>9, <1>13, <3>1 DEF ItemApart
  <2>. QED
    BY <1>10, <2>1 DEF ItemApart
<1>15. Load(v.kind, n) \cap ItemLoad(w) = {}
  <2>1. ASSUME NEW m \in ToSet(rest) PROVE Load(v.kind, n) \cap Load(v.kind, m) = {}
    <3>1. PICK i \in DOMAIN rest : m = rest[i]
      BY DEF ToSet
    <3>. QED
      BY <1>7, <1>9, <1>11, <1>13, <3>1 DEF ItemApart
  <2>. QED
    BY <1>10, <2>1, LoadsAre
<1>16. ItemLoad(w) \cap Loads(s) = {}
  BY <1>7, <1>12
<1>17. Rest = Put(w, s)
  BY <1>2, <1>9 DEF Rest
<1>18. LoadsApart(Rest) /\ Loads(Rest) = ItemLoad(w) \cup Loads(s)
  <2>1. GoodItems(s)
    BY <1>1, <1>2
  <2>. QED
    BY <1>7, <1>14, <1>16, <1>17, <2>1, PutLoads
<1>. QED
  BY <1>2, <1>7, <1>8, <1>12, <1>15, <1>18

-----------------------------------------------------------------------------
(* What the compiler has given away. *)

\* Loads are of the nodes and the program alone.
LEMMA LoadsStay ==
  ASSUME UNCHANGED <<nodes, stack>>
  PROVE  /\ CompiledStatements' = CompiledStatements /\ Ids' = Ids
         /\ \A s : Loads(s)' = Loads(s) /\ (LoadsApart(s)' <=> LoadsApart(s))
         /\ \A n : Given(n)' = Given(n) /\ (Sound(n)' <=> Sound(n))
<1>1. Ids' = Ids
  BY DEF Ids
<1>2. Under' = Under
  BY <1>1 DEF Under
<1>3. TreeOf' = TreeOf
  BY <1>1 DEF TreeOf, Parts
<1>4. Program' = Program
  BY DEF Program
<1>5. Leading' = Leading
  BY <1>4 DEF Leading
<1>6. CompiledStatements' = CompiledStatements
  <2>1. CompiledStatements =
         UNION {Under[n] : n \in (UNION {ToSet(nodes[m].block) : m \in ToSet(Leading)}) \cup ToSet(Program)}
    BY CompiledAre
  <2>2. (CompiledStatements =
         UNION {Under[n] : n \in (UNION {ToSet(nodes[m].block) : m \in ToSet(Leading)}) \cup ToSet(Program)})'
    BY CompiledAre, PTL
  <2>. QED
    BY <1>2, <1>4, <1>5, <2>1, <2>2
<1>7. \A kind, n : Load(kind, n)' = Load(kind, n)
  BY <1>2, <1>3 DEF Load
<1>8. \A v : ItemLoad(v)' = ItemLoad(v) /\ (ItemApart(v)' <=> ItemApart(v))
  BY <1>7 DEF ItemLoad, ItemApart
<1>9. \A s : Loads(s)' = Loads(s) /\ (LoadsApart(s)' <=> LoadsApart(s))
  BY <1>8 DEF Loads, LoadsApart
<1>10. \A n : Given(n)' = Given(n) /\ (Sound(n)' <=> Sound(n))
  BY <1>3 DEF Given, Sound
<1>. QED
  BY <1>1, <1>6, <1>9, <1>10

\* What has been given away was of the expressions of what is done.
LEMMA DoneIs ==
  ASSUME TreeInv, CompileInv, stage = "compile"
  PROVE  /\ Done \subseteq StatementIds /\ \A s \in Done : nodes[s].tag # "function" /\ Sound(s)
         /\ \A x : x \in GivenBy(Done) <=> \E s \in Done : x \in Given(s)
         /\ \A x \in GivenBy(Done) : x \in NonStatements /\ \E s \in Done : x \in Trees(nodes[s].exprs)
<1>1. Done \subseteq CompiledStatements /\ \A s \in Done : Sound(s)
  BY DEF Done, CompileInv
<1>2. Done \subseteq StatementIds /\ \A s \in Done : nodes[s].tag # "function"
  BY <1>1, CompiledIs
<1>3. \A x : x \in GivenBy(Done) <=> \E s \in Done : x \in Given(s)
  BY DEF GivenBy
<1>4. ASSUME NEW s \in Done, NEW x \in Given(s) PROVE x \in NonStatements /\ x \in Trees(nodes[s].exprs)
  <2>1. x \in Trees(nodes[s].exprs)
    BY <1>1, <1>2, GivenIn
  <2>. QED
    BY <1>2, <2>1, ExpressionsOnly DEF StatementIds
<1>. QED
  BY <1>1, <1>2, <1>3, <1>4

\* A statement that is not done is read, and its expressions, before they are freed.
LEMMA HeaderLive ==
  ASSUME TreeInv, CompileInv, stage = "compile", NEW n \in StatementIds, n \notin Done
  PROVE  /\ ({n} \cup Trees(nodes[n].exprs)) \cap GivenBy(Done) = {}
         /\ \A x \in {n} \cup Trees(nodes[n].exprs) : x \in Ids /\ freed[x] = 0
<1>1. n \notin GivenBy(Done)
  BY DoneIs, ExpressionsOnly
<1>2. ASSUME NEW x \in Trees(nodes[n].exprs), x \in GivenBy(Done) PROVE FALSE
  <2>1. PICK s \in Done : x \in Trees(nodes[s].exprs)
    BY <1>2, DoneIs
  <2>2. s \in StatementIds /\ s # n
    BY DoneIs
  <2>. QED
    BY <1>2, <2>1, <2>2, ExprsApart
<1>3. Trees(nodes[n].exprs) \subseteq Ids /\ n \in Ids
  BY ExpressionsOnly DEF NonStatements, ExpressionIds, ParameterIds, StatementIds
<1>4. \A x \in Ids : freed[x] = IF x \in GivenBy(Done) \ Loads(todo) THEN 1 ELSE 0
  BY DEF CompileInv
<1>. QED
  BY <1>1, <1>2, <1>3, <1>4

\* A statement still to be compiled: it is one that is compiled, and what it gives
\* away is neither given away nor left to compile.
LEMMA GivenApart ==
  ASSUME TreeInv, CompileInv, stage = "compile", NEW n \in StatementIds, n \in Loads(todo)
  PROVE  /\ n \in CompiledStatements /\ n \notin Done
         /\ Sound(n) => Given(n) \cap (Loads(todo) \cup GivenBy(Done)) = {} /\ Given(n) \subseteq NonStatements
<1>1. Loads(todo) \subseteq CompiledStatements \cup GivenBy(Done)
  BY DEF CompileInv
<1>2. n \notin Done
  BY DEF Done
<1>3. n \in CompiledStatements
  BY <1>1, DoneIs, ExpressionsOnly
<1>4. ASSUME Sound(n)
      PROVE  Given(n) \cap (Loads(todo) \cup GivenBy(Done)) = {} /\ Given(n) \subseteq NonStatements
  <2>1. Given(n) \subseteq Trees(nodes[n].exprs)
    BY <1>4, GivenIn
  <2>2. Given(n) \cap GivenBy(Done) = {}
    BY <1>2, <2>1, HeaderLive
  <2>3. Given(n) \subseteq NonStatements
    BY <2>1, ExpressionsOnly DEF StatementIds
  <2>4. Given(n) \cap CompiledStatements = {}
    BY <2>3, CompiledIs, ExpressionsOnly
  <2>. QED
    BY <1>1, <2>2, <2>3, <2>4
<1>. QED
  BY <1>2, <1>3, <1>4

\* A step that leaves what is left to compile and what has been freed.
LEMMA PassedKeeps ==
  ASSUME CompileInv, stage = "compile", UNCHANGED <<nodes, stack, freed>>, NEW items, todo' = items,
         LoadsApart(items), Loads(items) = Loads(todo)
  PROVE  CompileInv'
<1>1. /\ CompiledStatements' = CompiledStatements /\ Ids' = Ids
      /\ \A s : Loads(s)' = Loads(s) /\ (LoadsApart(s)' <=> LoadsApart(s))
      /\ \A n : Given(n)' = Given(n) /\ (Sound(n)' <=> Sound(n))
  BY LoadsStay
<1>2. Loads(todo)' = Loads(todo) /\ LoadsApart(todo)'
  <2>1. Loads(todo)' = Loads(items)' /\ (LoadsApart(todo)' <=> LoadsApart(items)')
    BY DEF Loads, LoadsApart, ItemLoad, ItemApart
  <2>. QED
    BY <1>1, <2>1
<1>3. Done' = Done
  BY <1>1, <1>2 DEF Done
<1>4. GivenBy(Done)' = GivenBy(Done)
  BY <1>1, <1>3 DEF GivenBy
<1>. QED
  BY <1>1, <1>2, <1>3, <1>4 DEF CompileInv

\* A step that compiles a statement, frees what it gives away but for a bound, and
\* leaves this bound to compile.
LEMMA CompiledKeeps ==
  ASSUME TreeInv, CompileInv, stage = "compile", UNCHANGED <<nodes, stack>>, NEW items, todo' = items,
         LoadsApart(items), NEW n \in StatementIds, n \in Loads(todo), Sound(n), NEW B \in SUBSET Given(n),
         \A x : x \in Loads(items) <=> (x \in Loads(todo) /\ x # n) \/ x \in B,
         \A x \in Ids : freed'[x] = freed[x] + IF x \in Given(n) \ B THEN 1 ELSE 0
  PROVE  CompileInv'
<1>1. /\ CompiledStatements' = CompiledStatements /\ Ids' = Ids
      /\ \A s : Loads(s)' = Loads(s) /\ (LoadsApart(s)' <=> LoadsApart(s))
      /\ \A s : Given(s)' = Given(s) /\ (Sound(s)' <=> Sound(s))
  BY LoadsStay
<1>2. Loads(todo)' = Loads(items) /\ LoadsApart(todo)'
  <2>1. Loads(todo)' = Loads(items)' /\ (LoadsApart(todo)' <=> LoadsApart(items)')
    BY DEF Loads, LoadsApart, ItemLoad, ItemApart
  <2>. QED
    BY <1>1, <2>1
<1>3. /\ n \in CompiledStatements /\ n \notin Done
      /\ Given(n) \cap Loads(todo) = {} /\ Given(n) \cap GivenBy(Done) = {} /\ Given(n) \subseteq NonStatements
  BY GivenApart
<1>4. Given(n) \cap CompiledStatements = {}
  BY <1>3, CompiledIs, ExpressionsOnly
<1>5. Done' = Done \cup {n}
  <2>1. n \notin Loads(items)
    BY <1>3, <1>4
  <2>2. Done' = CompiledStatements \ Loads(items)
    BY <1>1, <1>2 DEF Done
  <2>3. Done = CompiledStatements \ Loads(todo)
    BY DEF Done
  <2>. QED
    BY <1>3, <1>4, <2>1, <2>2, <2>3
<1>6. \A x : x \in GivenBy(Done)' <=> x \in GivenBy(Done) \/ x \in Given(n)
  <2>1. \A x : x \in GivenBy(Done) <=> \E s \in Done : x \in Given(s)
    BY DoneIs
  <2>2. \A x : x \in GivenBy(Done)' <=> \E s \in Done \cup {n} : x \in Given(s)
    BY <1>1, <1>5 DEF GivenBy
  <2>. QED
    BY <2>1, <2>2
<1>7. /\ Loads(todo) \subseteq CompiledStatements \cup GivenBy(Done) /\ \A s \in Done : Sound(s)
      /\ \A x \in Ids : freed[x] = IF x \in GivenBy(Done) \ Loads(todo) THEN 1 ELSE 0
  BY DEF CompileInv
<1>8. Loads(todo)' \subseteq CompiledStatements \cup GivenBy(Done)'
  BY <1>2, <1>6, <1>7
<1>9. \A s \in Done' : Sound(s)'
  BY <1>1, <1>5, <1>7
<1>10. ASSUME NEW x \in Ids PROVE freed'[x] = IF x \in GivenBy(Done)' \ Loads(todo)' THEN 1 ELSE 0
  <2>1. CASE x \in Given(n)
    <3>1. freed[x] = 0 /\ x \in GivenBy(Done)' /\ (x \in Loads(todo)' <=> x \in B)
      BY <1>2, <1>3, <1>6, <1>7, <2>1
    <3>. QED
      BY <2>1, <3>1
  <2>2. CASE x \notin Given(n)
    <3>1. freed'[x] = freed[x] + 0
      BY <2>2
    <3>2. freed'[x] = freed[x]
      BY <1>7, <3>1
    <3>3. (x \in GivenBy(Done)' <=> x \in GivenBy(Done)) /\ x \notin B
      BY <1>6, <2>2
    <3>4. x = n => x \notin GivenBy(Done)
      BY <1>3, DoneIs, ExpressionsOnly
    <3>5. x \in GivenBy(Done)' \ Loads(todo)' <=> x \in GivenBy(Done) \ Loads(todo)
      BY <1>2, <3>3, <3>4
    <3>. QED
      BY <1>7, <3>2, <3>5
  <2>. QED
    BY <2>1, <2>2
<1>. QED
  BY <1>1, <1>2, <1>8, <1>9, <1>10 DEF CompileInv

-----------------------------------------------------------------------------
(* The steps of the compiler. *)

\* A block as an item.
LEMMA BlockIs ==
  ASSUME TreeInv, stage = "compile", NEW n \in StatementIds, NEW ids, ids \in {nodes[n].block, nodes[n].orelse},
         NEW v, v = Item("statements", ids)
  PROVE  ItemApart(v) /\ \A x : x \in ItemLoad(v) <=> \E k \in ToSet(ids) : x \in Under[k]
<1>1. v.kind = "statements" /\ v.ids = ids
  BY DEF Item
<1>2. \A k : Load("statements", k) = Under[k]
  BY DEF Load
<1>3. n \in Ids /\ n \in Live /\ TagInv
  BY SoleHolders DEF StatementIds, TreeInv
<1>4. IsInjective(ids) /\ ToSet(ids) \subseteq ToSet(Parts(n)) /\ ToSet(ids) \subseteq StatementIds
  <2>1. IsInjective(Lists(nodes[n])) /\ IsNode(nodes[n])
    BY <1>3, SoleHolders, PartsAre
  <2>2. IsInjective(nodes[n].block) /\ IsInjective(nodes[n].orelse)
    BY <2>1, ListsBack
  <2>. QED
    BY <1>3, <2>2, PartsAre DEF TagInv, Tagged
<1>5. ASSUME NEW i \in DOMAIN ids, NEW j \in DOMAIN ids, i # j PROVE Under[ids[i]] \cap Under[ids[j]] = {}
  <2>1. PICK a, b : a = ids[i] /\ b = ids[j]
    OBVIOUS
  <2>2. a \in ToSet(ids) /\ b \in ToSet(ids) /\ a # b
    BY <1>4, <1>5, <2>1 DEF ToSet, IsInjective
  <2>3. TreeOf[a] \cap TreeOf[b] = {}
    BY <1>3, <1>4, <2>2, SiblingsApart
  <2>4. Under[a] \subseteq TreeOf[a] /\ Under[b] \subseteq TreeOf[b]
    BY <1>4, <2>2, UnderIs
  <2>. QED
    BY <2>1, <2>3, <2>4
<1>6. ItemApart(v)
  BY <1>1, <1>2, <1>5 DEF ItemApart
<1>7. \A x : x \in ItemLoad(v) <=> \E k \in ToSet(ids) : x \in Under[k]
  BY <1>1, <1>2, LoadsAre
<1>. QED
  BY <1>6, <1>7

\* Nothing else has a node of its own than it.
LEMMA NotUnder ==
  ASSUME TreeInv, stage = "compile", NEW n \in StatementIds
  PROVE  \A k \in ToSet(nodes[n].block) \cup ToSet(nodes[n].orelse) : n \notin Under[k]
<1>1. Shaped /\ n \in Ids /\ TagInv
  BY ShapedIs DEF StatementIds, TreeInv
<1>2. ASSUME NEW k \in ToSet(nodes[n].block) \cup ToSet(nodes[n].orelse), n \in Under[k] PROVE FALSE
  <2>1. k \in ToSet(Parts(n)) /\ k \in StatementIds
    BY <1>1, PartsAre DEF TagInv, Tagged
  <2>2. k \in Ids /\ k < n /\ k \in Nat /\ n \in Nat
    BY <1>1, <2>1 DEF Shaped
  <2>3. n \in TreeOf[k]
    BY <1>2, <2>1, UnderIs
  <2>4. n <= k
    BY <1>1, <2>2, <2>3, TreeHas
  <2>. QED
    BY <2>2, <2>4
<1>. QED
  BY <1>2

\* The blocks of two of a node have nothing in common.
LEMMA BlocksApart ==
  ASSUME TreeInv, stage = "compile", NEW n \in StatementIds
  PROVE  \A k \in ToSet(nodes[n].block), l \in ToSet(nodes[n].orelse) : Under[k] \cap Under[l] = {}
<1>1. n \in Ids /\ n \in Live /\ TagInv
  BY SoleHolders DEF StatementIds, TreeInv
<1>2. ASSUME NEW k \in ToSet(nodes[n].block), NEW l \in ToSet(nodes[n].orelse)
      PROVE  Under[k] \cap Under[l] = {}
  <2>1. k \in ToSet(Parts(n)) /\ l \in ToSet(Parts(n)) /\ k \in StatementIds /\ l \in StatementIds
    BY <1>1, PartsAre DEF TagInv, Tagged
  <2>2. k # l
    <3>1. IsInjective(Lists(nodes[n])) /\ IsNode(nodes[n])
      BY <1>1, SoleHolders, PartsAre
    <3>2. ToSet(nodes[n].block) \cap ToSet(nodes[n].orelse) = {}
      BY <3>1, ListsBack
    <3>. QED
      BY <3>2
  <2>3. TreeOf[k] \cap TreeOf[l] = {}
    BY <1>1, <2>1, <2>2, SiblingsApart
  <2>. QED
    BY <2>1, <2>3, UnderIs
<1>. QED
  BY <1>2

\* The item at hand and its first node.
LEMMA AtHand ==
  ASSUME TreeInv, CompileInv, stage = "compile", todo # <<>>, NEW n, n = Head(Current.ids)
  PROVE  /\ n \in Ids /\ Node1 = nodes[n] /\ GoodItem(Current) /\ GoodItems(Rest) /\ LoadsApart(Rest)
         /\ n \in ToSet(Current.ids)
         /\ Header = {n} \cup Trees(nodes[n].exprs)
         /\ Current.kind = "functions" => nodes[n].tag = "function"
         /\ Current.kind \in {"functions", "statements"} => n \in StatementIds
         /\ Load(Current.kind, n) \cap Loads(Rest) = {}
         /\ Loads(todo) = Load(Current.kind, n) \cup Loads(Rest)
<1>1. GoodItem(Current) /\ GoodItems(Rest) /\ n \in Ids /\ n \in ToSet(Current.ids)
  BY CurrentGood
<1>2. Node1 = nodes[n] /\ Header = {n} \cup Trees(nodes[n].exprs)
  BY DEF Node1, Header
<1>3. LoadsApart(todo)
  BY DEF CompileInv
<1>4. LoadsApart(Rest) /\ Load(Current.kind, n) \cap Loads(Rest) = {} /\ Loads(todo) = Load(Current.kind, n) \cup Loads(Rest)
  BY <1>3, RestLoads
<1>5. Current.kind = "functions" => nodes[n].tag = "function"
  BY <1>1 DEF GoodItem
<1>6. Current.kind \in {"functions", "statements"} => n \in StatementIds
  <2>1. nodes[n].tag = "function" => n \in StatementIds
    BY <1>1 DEF StatementIds, ExpressionTags, Atoms, CallTags
  <2>. QED
    BY <1>1, <1>5, <2>1 DEF GoodItem
<1>. QED
  BY <1>1, <1>2, <1>4, <1>5, <1>6

\* A statement at hand is still to be compiled, and its blocks.
LEMMA StatementAtHand ==
  ASSUME TreeInv, CompileInv, stage = "compile", todo # <<>>, NEW n, n = Head(Current.ids),
         Current.kind = "statements", nodes[n].tag # "function"
  PROVE  /\ n \in StatementIds /\ n \in Loads(todo) /\ n \notin Done /\ n \in Ids
         /\ \A x : x \in Loads(todo) /\ x # n <=>
              \/ \E k \in ToSet(nodes[n].block) : x \in Under[k]
              \/ \E k \in ToSet(nodes[n].orelse) : x \in Under[k]
              \/ x \in Loads(Rest)
<1>1. /\ n \in StatementIds /\ Load(Current.kind, n) \cap Loads(Rest) = {} /\ n \in Ids
      /\ Loads(todo) = Load(Current.kind, n) \cup Loads(Rest)
  BY AtHand
<1>2. Load(Current.kind, n) = Under[n]
  BY DEF Load
<1>3. \A x : x \in Under[n] <=> \/ x = n
                                \/ \E k \in ToSet(nodes[n].block) : x \in Under[k]
                                \/ \E k \in ToSet(nodes[n].orelse) : x \in Under[k]
  BY <1>1, UnderIs
<1>4. n \in Under[n] /\ n \notin Loads(Rest)
  BY <1>1, <1>2, <1>3
<1>5. n \in Loads(todo) /\ n \notin Done
  BY <1>1, <1>2, <1>4 DEF Done
<1>6. \A k \in ToSet(nodes[n].block) \cup ToSet(nodes[n].orelse) : n \notin Under[k]
  BY <1>1, NotUnder
<1>. QED
  BY <1>1, <1>2, <1>3, <1>4, <1>5, <1>6

\* A step that reads nodes not freed.
LEMMA ReadsNothingFreed ==
  ASSUME stale = FALSE, NEW set, Read(set), \A x \in set : freed[x] = 0
  PROVE  stale' = FALSE
<1>1. ~ \E x \in set : freed[x] > 0
  OBVIOUS
<1>2. stale' = (stale \/ \E x \in set : freed[x] > 0)
  BY DEF Read
<1>. QED
  BY <1>1, <1>2, Zenon

\* A function: its body is compiled if it is leading, and nothing otherwise.
LEMMA FunctionKeeps == TreeInv /\ CompileInv /\ stale = FALSE /\ CompileFunction => CompileInv' /\ stale' = FALSE
<1>. SUFFICES ASSUME TreeInv, CompileInv, stale = FALSE, CompileFunction PROVE CompileInv' /\ stale' = FALSE
  OBVIOUS
<1>1. /\ stage = "compile" /\ todo # <<>> /\ UNCHANGED <<nodes, stack, stage, freed>>
  BY DEF CompileFunction, Compiling, At, Proceed
<1>2. PICK n : n = Head(Current.ids)
  OBVIOUS
<1>3. /\ n \in Ids /\ Node1 = nodes[n] /\ GoodItem(Current) /\ GoodItems(Rest) /\ LoadsApart(Rest)
      /\ Header = {n} \cup Trees(nodes[n].exprs)
      /\ Current.kind = "functions" => nodes[n].tag = "function"
      /\ Current.kind \in {"functions", "statements"} => n \in StatementIds
      /\ Load(Current.kind, n) \cap Loads(Rest) = {}
      /\ Loads(todo) = Load(Current.kind, n) \cup Loads(Rest)
  BY <1>1, <1>2, AtHand
<1>4. n \in StatementIds /\ nodes[n].tag = "function" /\ n \notin Done
  <2>1. n \in StatementIds /\ nodes[n].tag = "function"
    BY <1>3 DEF CompileFunction, Compiling, At
  <2>. QED
    BY <1>1, <2>1, DoneIs
<1>5. \A x \in {n} \cup Trees(nodes[n].exprs) : freed[x] = 0
  BY <1>1, <1>4, HeaderLive
<1>6. CASE Compiling("functions") /\ Read(Header) /\ Proceed(Put(Item("statements", Node1.block), Rest))
  <2>1. stale' = FALSE
    BY <1>3, <1>5, <1>6, ReadsNothingFreed
  <2>2. PICK v, items : v = Item("statements", nodes[n].block) /\ items = Put(v, Rest)
    OBVIOUS
  <2>3. ItemApart(v) /\ \A x : x \in ItemLoad(v) <=> \E k \in ToSet(nodes[n].block) : x \in Under[k]
    BY <1>1, <1>4, <2>2, BlockIs
  <2>4. Load(Current.kind, n) = UNION {Under[k] : k \in ToSet(nodes[n].block)}
    BY <1>6 DEF Load, Compiling
  <2>5. ItemLoad(v) = Load(Current.kind, n)
    BY <2>3, <2>4
  <2>6. ItemLoad(v) \cap Loads(Rest) = {}
    BY <1>3, <2>5
  <2>7. LoadsApart(items) /\ Loads(items) = Loads(todo)
    BY <1>3, <2>2, <2>3, <2>5, <2>6, PutLoads
  <2>8. todo' = items
    BY <1>3, <1>6, <2>2 DEF Proceed
  <2>. QED
    BY <1>1, <2>1, <2>7, <2>8, PassedKeeps
<1>7. CASE At("function") /\ Read({Head(Current.ids)}) /\ Proceed(Rest)
  <2>1. stale' = FALSE
    <3>1. Read({n}) /\ \A x \in {n} : freed[x] = 0
      BY <1>2, <1>5, <1>7
    <3>. QED
      BY <3>1, ReadsNothingFreed
  <2>2. Load(Current.kind, n) = {}
    BY <1>1, <1>4, <1>7, UnderIs DEF Load, At, Compiling
  <2>3. PICK items : items = Rest
    OBVIOUS
  <2>4. LoadsApart(items) /\ Loads(items) = Loads(todo) /\ todo' = items
    BY <1>3, <1>7, <2>2, <2>3 DEF Proceed
  <2>. QED
    BY <1>1, <2>1, <2>4, PassedKeeps
<1>. QED
  BY <1>6, <1>7 DEF CompileFunction

-----------------------------------------------------------------------------
(* The steps at a statement. *)

\* A statement without blocks.
LEMMA SimpleKeeps ==
  ASSUME TreeInv, CompileInv, stage = "compile", todo # <<>>, NEW n, n = Head(Current.ids),
         Current.kind = "statements", nodes[n].tag \in {"assignment", "flow", "return"}, Sound(n),
         Proceed(Rest), \A x \in Ids : freed'[x] = freed[x] + IF x \in Given(n) THEN 1 ELSE 0
  PROVE  CompileInv'
<1>1. /\ n \in StatementIds /\ n \in Loads(todo) /\ n \in Ids
      /\ \A x : x \in Loads(todo) /\ x # n <=>
              \/ \E k \in ToSet(nodes[n].block) : x \in Under[k]
              \/ \E k \in ToSet(nodes[n].orelse) : x \in Under[k]
              \/ x \in Loads(Rest)
  BY StatementAtHand
<1>2. ToSet(nodes[n].block) = {} /\ ToSet(nodes[n].orelse) = {}
  <2>1. nodes[n].block = <<>> /\ nodes[n].orelse = <<>>
    BY <1>1 DEF TreeInv, TagInv, Tagged
  <2>. QED
    BY <2>1, Short
<1>3. PICK items : items = Rest
  OBVIOUS
<1>4. LoadsApart(items)
  BY <1>3, AtHand
<1>5. PICK B : B = {}
  OBVIOUS
<1>6. \A x : x \in Loads(items) <=> (x \in Loads(todo) /\ x # n) \/ x \in B
  BY <1>1, <1>2, <1>3, <1>5
<1>7. \A x \in Ids : freed'[x] = freed[x] + IF x \in Given(n) \ B THEN 1 ELSE 0
  BY <1>5
<1>8. todo' = items /\ UNCHANGED <<nodes, stack>> /\ B \in SUBSET Given(n)
  BY <1>3, <1>5 DEF Proceed
<1>. QED
  BY <1>1, <1>4, <1>6, <1>7, <1>8, CompiledKeeps

\* Nothing is freed.
LEMMA NoneFreed ==
  ASSUME TreeInv, freed' = freed, NEW set, set = {}
  PROVE  \A x \in Ids : freed'[x] = freed[x] + IF x \in set THEN 1 ELSE 0
<1>1. \A x \in Ids : freed[x] \in Nat
  BY TypesAre DEF TreeInv, Typed
<1>. QED
  BY <1>1

\* An assignment, a break and a continue give nothing away.
LEMMA AssignmentKeeps ==
  ASSUME TreeInv, CompileInv, stale = FALSE, At("assignment") \/ At("flow"),
         Read(Header), Proceed(Rest), UNCHANGED freed
  PROVE  CompileInv' /\ stale' = FALSE
<1>1. stage = "compile" /\ todo # <<>> /\ Current.kind = "statements"
  BY DEF At, Compiling
<1>2. PICK n : n = Head(Current.ids)
  OBVIOUS
<1>3. n \in Ids /\ Node1 = nodes[n] /\ Header = {n} \cup Trees(nodes[n].exprs)
  BY <1>1, <1>2, AtHand
<1>4. nodes[n].tag \in {"assignment", "flow"}
  BY <1>3 DEF At
<1>5. n \in StatementIds /\ n \notin Done
  BY <1>1, <1>2, <1>4, StatementAtHand
<1>6. stale' = FALSE
  BY <1>1, <1>3, <1>5, HeaderLive, ReadsNothingFreed
<1>7. Given(n) = {} /\ Sound(n)
  BY <1>4 DEF Given, Sound
<1>8. \A x \in Ids : freed'[x] = freed[x] + IF x \in Given(n) THEN 1 ELSE 0
  BY <1>7, NoneFreed
<1>. QED
  BY <1>1, <1>2, <1>4, <1>6, <1>7, <1>8, SimpleKeeps

\* A return gives its value away, and frees it, unless it is a call of LOOP.
LEMMA ReturnKeeps ==
  ASSUME TreeInv, CompileInv, stale = FALSE, At("return"), Node1.exprs # <<>>,
         Read(Header), Proceed(Rest),
         freed' = IF nodes[Node1.exprs[1]].tag = "LOOP" THEN freed ELSE AndFreed(Trees(Node1.exprs))
  PROVE  CompileInv' /\ stale' = FALSE
<1>1. stage = "compile" /\ todo # <<>> /\ Current.kind = "statements"
  BY DEF At, Compiling
<1>2. PICK n : n = Head(Current.ids)
  OBVIOUS
<1>3. n \in Ids /\ Node1 = nodes[n] /\ Header = {n} \cup Trees(nodes[n].exprs)
  BY <1>1, <1>2, AtHand
<1>4. nodes[n].tag = "return" /\ nodes[n].exprs # <<>>
  BY <1>3 DEF At
<1>5. n \in StatementIds /\ n \notin Done
  BY <1>1, <1>2, <1>4, StatementAtHand
<1>6. stale' = FALSE
  BY <1>1, <1>3, <1>5, HeaderLive, ReadsNothingFreed
<1>7. Sound(n)
  BY <1>4 DEF Sound
<1>8. \A x \in Ids : freed'[x] = freed[x] + IF x \in Given(n) THEN 1 ELSE 0
  <2>1. CASE nodes[nodes[n].exprs[1]].tag = "LOOP"
    <3>1. Given(n) = {} /\ freed' = freed
      BY <1>3, <1>4, <2>1 DEF Given
    <3>. QED
      BY <3>1, NoneFreed
  <2>2. CASE nodes[nodes[n].exprs[1]].tag # "LOOP"
    <3>1. Given(n) = TreeOf[nodes[n].exprs[1]] /\ freed' = AndFreed(Trees(nodes[n].exprs))
      BY <1>3, <1>4, <2>2 DEF Given
    <3>2. PICK ids : ids = nodes[n].exprs
      OBVIOUS
    <3>3. ids \in Seq(Nat) /\ ids # <<>> /\ Len(ids) <= 1
      BY <1>3, <1>4, <3>2, PartsAre DEF TreeInv, TagInv, Tagged
    <3>4. DOMAIN ids = {1}
      <4>1. Len(ids) \in Nat /\ Len(ids) >= 1 /\ DOMAIN ids = 1 .. Len(ids)
        BY <3>3
      <4>2. Len(ids) = 1
        BY <3>3, <4>1
      <4>. QED
        BY <4>1, <4>2
    <3>5. ToSet(ids) = {ids[1]}
      BY <3>4 DEF ToSet
    <3>6. Trees(ids) = TreeOf[ids[1]]
      BY <3>5 DEF Trees
    <3>. QED
      BY <3>1, <3>2, <3>6 DEF AndFreed
  <2>. QED
    BY <2>1, <2>2
<1>. QED
  BY <1>1, <1>2, <1>4, <1>6, <1>7, <1>8, SimpleKeeps

\* A statement with a block and another.
LEMMA BranchKeeps ==
  ASSUME TreeInv, CompileInv, stale = FALSE, At("if") \/ At("while"), Read(Header),
         Proceed(Put(Item("statements", Node1.block), Put(Item("statements", Node1.orelse), Rest))),
         UNCHANGED freed
  PROVE  CompileInv' /\ stale' = FALSE
<1>1. stage = "compile" /\ todo # <<>> /\ Current.kind = "statements"
  BY DEF At, Compiling
<1>2. PICK n : n = Head(Current.ids)
  OBVIOUS
<1>3. /\ n \in Ids /\ Node1 = nodes[n] /\ Header = {n} \cup Trees(nodes[n].exprs)
      /\ GoodItems(Rest) /\ LoadsApart(Rest)
      /\ Load(Current.kind, n) \cap Loads(Rest) = {}
  BY <1>1, <1>2, AtHand
<1>4. nodes[n].tag \in {"if", "while"}
  BY <1>3 DEF At
<1>5. /\ n \in StatementIds /\ n \notin Done /\ n \in Loads(todo)
      /\ \A x : x \in Loads(todo) /\ x # n <=>
              \/ \E k \in ToSet(nodes[n].block) : x \in Under[k]
              \/ \E k \in ToSet(nodes[n].orelse) : x \in Under[k]
              \/ x \in Loads(Rest)
  BY <1>1, <1>2, <1>4, StatementAtHand
<1>6. stale' = FALSE
  BY <1>1, <1>3, <1>5, HeaderLive, ReadsNothingFreed
<1>7. Given(n) = {} /\ Sound(n)
  BY <1>4 DEF Given, Sound
<1>8. PICK v, w, rest, items :
        /\ v = Item("statements", nodes[n].block) /\ w = Item("statements", nodes[n].orelse)
        /\ rest = Put(w, Rest) /\ items = Put(v, rest)
  OBVIOUS
<1>9. ItemApart(v) /\ \A x : x \in ItemLoad(v) <=> \E k \in ToSet(nodes[n].block) : x \in Under[k]
  BY <1>1, <1>5, <1>8, BlockIs
<1>10. ItemApart(w) /\ \A x : x \in ItemLoad(w) <=> \E k \in ToSet(nodes[n].orelse) : x \in Under[k]
  BY <1>1, <1>5, <1>8, BlockIs
<1>11. \A x : (\E k \in ToSet(nodes[n].block) \cup ToSet(nodes[n].orelse) : x \in Under[k]) => x \notin Loads(Rest)
  <2>1. Load(Current.kind, n) = Under[n]
    BY <1>1 DEF Load
  <2>2. \A x : (\E k \in ToSet(nodes[n].block) \cup ToSet(nodes[n].orelse) : x \in Under[k]) => x \in Under[n]
    BY <1>1, <1>4, <1>5, UnderIs
  <2>. QED
    BY <1>3, <2>1, <2>2
<1>12. LoadsApart(rest) /\ Loads(rest) = ItemLoad(w) \cup Loads(Rest)
  <2>1. ItemLoad(w) \cap Loads(Rest) = {}
    BY <1>10, <1>11
  <2>. QED
    BY <1>3, <1>8, <1>10, <2>1, PutLoads
<1>13. LoadsApart(items) /\ Loads(items) = ItemLoad(v) \cup Loads(rest)
  <2>1. ItemLoad(v) \cap ItemLoad(w) = {}
    BY <1>1, <1>5, <1>9, <1>10, BlocksApart
  <2>2. ItemLoad(v) \cap Loads(rest) = {}
    BY <1>9, <1>11, <1>12, <2>1
  <2>3. GoodItems(rest)
    BY <1>3, <1>8, BlockGood
  <2>. QED
    BY <1>8, <1>9, <1>12, <2>2, <2>3, PutLoads
<1>14. PICK B : B = {}
  OBVIOUS
<1>15. \A x : x \in Loads(items) <=> (x \in Loads(todo) /\ x # n) \/ x \in B
  BY <1>5, <1>9, <1>10, <1>12, <1>13, <1>14
<1>16. \A x \in Ids : freed'[x] = freed[x] + IF x \in Given(n) \ B THEN 1 ELSE 0
  <2>1. Given(n) \ B = {}
    BY <1>7
  <2>. QED
    BY <2>1, NoneFreed
<1>17. todo' = items /\ UNCHANGED <<nodes, stack>> /\ B \in SUBSET Given(n)
  BY <1>3, <1>8, <1>14 DEF Proceed
<1>18. CompileInv'
  BY <1>1, <1>5, <1>7, <1>13, <1>15, <1>16, <1>17, CompiledKeeps
<1>. QED
  BY <1>6, <1>18

\* A for: its first bound is left, to be freed behind the block.
LEMMA ForKeeps ==
  ASSUME TreeInv, CompileInv, stale = FALSE, At("for"), Read(Header), NEW range, range = nodes[Node1.exprs[1]],
         Len(range.exprs) >= 2,
         Proceed(Put(Item("statements", Node1.block), Put(Item("bound", << Head(range.exprs) >>), Rest))),
         UNCHANGED freed
  PROVE  CompileInv' /\ stale' = FALSE
<1>1. stage = "compile" /\ todo # <<>> /\ Current.kind = "statements"
  BY DEF At, Compiling
<1>2. PICK n : n = Head(Current.ids)
  OBVIOUS
<1>3. /\ n \in Ids /\ Node1 = nodes[n] /\ Header = {n} \cup Trees(nodes[n].exprs)
      /\ GoodItems(Rest) /\ LoadsApart(Rest)
      /\ Load(Current.kind, n) \cap Loads(Rest) = {} /\ Loads(todo) = Load(Current.kind, n) \cup Loads(Rest)
  BY <1>1, <1>2, AtHand
<1>4. nodes[n].tag = "for"
  BY <1>3 DEF At
<1>5. /\ n \in StatementIds /\ n \notin Done /\ n \in Loads(todo)
      /\ \A x : x \in Loads(todo) /\ x # n <=>
              \/ \E k \in ToSet(nodes[n].block) : x \in Under[k]
              \/ \E k \in ToSet(nodes[n].orelse) : x \in Under[k]
              \/ x \in Loads(Rest)
  BY <1>1, <1>2, <1>4, StatementAtHand
<1>6. stale' = FALSE
  BY <1>1, <1>3, <1>5, HeaderLive, ReadsNothingFreed
<1>7. PICK k : k = nodes[n].exprs[1]
  OBVIOUS
<1>8. k \in Ids /\ range = nodes[k] /\ k \in ExpressionIds
  <2>1. nodes[n].exprs \in Seq(Nat) /\ nodes[n].exprs # <<>>
    BY <1>3, <1>4, PartsAre DEF TreeInv, TagInv, Tagged
  <2>2. k \in ToSet(nodes[n].exprs)
    BY <1>7, <2>1, HeadTail
  <2>. QED
    BY <1>3, <1>4, <1>7, <2>2 DEF TreeInv, TagInv, Tagged, ExpressionIds
<1>9. nodes[k].exprs \in Seq(Nat) /\ nodes[k].exprs # <<>>
  <2>1. nodes[k].exprs \in Seq(Nat)
    BY <1>8, PartsAre
  <2>2. Len(<<>>) = 0
    OBVIOUS
  <2>. QED
    BY <1>8, <2>1, <2>2
<1>10. PICK b : b = nodes[k].exprs[1]
  OBVIOUS
<1>11. b = Head(range.exprs) /\ b \in ToSet(nodes[k].exprs) /\ b \in Nat
  BY <1>8, <1>9, <1>10, HeadTail
<1>12. b \in Ids /\ b \in ExpressionIds
  <2>1. nodes[k].tag # "function"
    BY <1>8 DEF ExpressionIds, ExpressionTags, Atoms, CallTags
  <2>. QED
    BY <1>8, <1>11, <2>1 DEF TreeInv, TagInv, Tagged, ExpressionIds
<1>13. Given(n) = TreeOf[b] /\ Sound(n)
  BY <1>4, <1>7, <1>9, <1>10 DEF Given, Sound
<1>14. Given(n) \cap Loads(todo) = {}
  BY <1>1, <1>5, <1>13, GivenApart
<1>15. PICK v, ids, w, rest, items :
        /\ v = Item("statements", nodes[n].block) /\ ids = << b >> /\ w = Item("bound", ids)
        /\ rest = Put(w, Rest) /\ items = Put(v, rest)
  OBVIOUS
<1>16. ItemApart(v) /\ \A x : x \in ItemLoad(v) <=> \E l \in ToSet(nodes[n].block) : x \in Under[l]
  BY <1>1, <1>5, <1>15, BlockIs
<1>17. ids \in Seq(Nat) /\ ToSet(ids) = {b} /\ DOMAIN ids = {1} /\ Len(ids) = 1 /\ ids # <<>>
  <2>1. ids \in Seq(Nat) /\ DOMAIN ids = {1} /\ Len(ids) = 1 /\ ids # <<>>
    BY <1>11, <1>15
  <2>2. ToSet(ids) = {b}
    BY <1>11, <1>15, Short
  <2>. QED
    BY <2>1, <2>2
<1>18. w.kind = "bound" /\ w.ids = ids /\ w = Item(w.kind, w.ids)
  BY <1>15 DEF Item
<1>19. ItemApart(w)
  BY <1>17, <1>18 DEF ItemApart
<1>20. ItemLoad(w) = TreeOf[b]
  <2>1. Load("bound", b) = TreeOf[b]
    BY DEF Load
  <2>. QED
    BY <1>17, <1>18, <2>1, LoadsAre
<1>21. GoodItem(w) /\ GoodItems(rest)
  <2>1. GoodItem(w)
    BY <1>12, <1>17, <1>18 DEF GoodItem
  <2>. QED
    BY <1>3, <1>15, <2>1, PutGood
<1>22. LoadsApart(rest) /\ Loads(rest) = ItemLoad(w) \cup Loads(Rest)
  <2>1. ItemLoad(w) \cap Loads(Rest) = {}
    BY <1>3, <1>13, <1>14, <1>20
  <2>. QED
    BY <1>3, <1>15, <1>19, <2>1, PutLoads
<1>23. ItemLoad(v) \subseteq Under[n]
  BY <1>1, <1>4, <1>5, <1>16, UnderIs
<1>24. Load(Current.kind, n) = Under[n]
  BY <1>1 DEF Load
<1>25. LoadsApart(items) /\ Loads(items) = ItemLoad(v) \cup Loads(rest)
  <2>1. ItemLoad(v) \cap Loads(rest) = {}
    BY <1>3, <1>13, <1>14, <1>20, <1>22, <1>23, <1>24
  <2>. QED
    BY <1>15, <1>16, <1>21, <1>22, <2>1, PutLoads
<1>26. \A x : x \in Loads(items) <=> (x \in Loads(todo) /\ x # n) \/ x \in Given(n)
  <2>1. nodes[n].orelse = <<>>
    BY <1>3, <1>4 DEF TreeInv, TagInv, Tagged
  <2>2. ToSet(nodes[n].orelse) = {}
    BY <2>1, Short
  <2>. QED
    BY <1>5, <1>13, <1>16, <1>20, <1>22, <1>25, <2>2
<1>27. PICK B : B = Given(n)
  OBVIOUS
<1>28. \A x \in Ids : freed'[x] = freed[x] + IF x \in Given(n) \ B THEN 1 ELSE 0
  <2>1. Given(n) \ B = {}
    BY <1>27
  <2>. QED
    BY <2>1, NoneFreed
<1>29. todo' = items /\ UNCHANGED <<nodes, stack>> /\ B \in SUBSET Given(n)
  BY <1>3, <1>11, <1>15, <1>27 DEF Proceed
<1>30. \A x : x \in Loads(items) <=> (x \in Loads(todo) /\ x # n) \/ x \in B
  BY <1>26, <1>27
<1>31. CompileInv'
  BY <1>1, <1>5, <1>13, <1>25, <1>28, <1>29, <1>30, CompiledKeeps
<1>. QED
  BY <1>6, <1>31

-----------------------------------------------------------------------------
(* What is freed, from the parser to the end. *)

\* The end of a for frees the bound that it gave away.
LEMMA EndForKeeps ==
  ASSUME TreeInv, CompileInv, stale = FALSE, EndFor
  PROVE  CompileInv' /\ stale' = FALSE
<1>1. /\ stage = "compile" /\ todo # <<>> /\ Current.kind = "bound"
      /\ Read(Trees(Current.ids)) /\ Proceed(Rest) /\ freed' = AndFreed(Trees(Current.ids))
      /\ UNCHANGED <<nodes, stack>>
  BY DEF EndFor, Compiling, Proceed
<1>2. PICK b : b = Head(Current.ids)
  OBVIOUS
<1>3. /\ b \in Ids /\ GoodItem(Current) /\ LoadsApart(Rest) /\ b \in ToSet(Current.ids)
      /\ Load(Current.kind, b) \cap Loads(Rest) = {}
      /\ Loads(todo) = Load(Current.kind, b) \cup Loads(Rest)
  BY <1>1, <1>2, AtHand
<1>4. Load(Current.kind, b) = TreeOf[b]
  BY <1>1 DEF Load
<1>5. Trees(Current.ids) = TreeOf[b] /\ b \in ExpressionIds
  <2>1. PICK ids : ids = Current.ids
    OBVIOUS
  <2>2. ids \in Seq(Nat) /\ Len(ids) = 1 /\ ToSet(ids) \subseteq ExpressionIds /\ b \in ToSet(ids)
    BY <1>1, <1>3, <2>1 DEF GoodItem
  <2>3. DOMAIN ids = {1}
    BY <2>2
  <2>4. ToSet(ids) = {ids[1]}
    BY <2>3 DEF ToSet
  <2>5. ToSet(ids) = {b}
    BY <2>2, <2>4
  <2>6. Trees(ids) = TreeOf[b]
    BY <2>5 DEF Trees
  <2>. QED
    BY <2>1, <2>2, <2>6
<1>6. TreeOf[b] \subseteq NonStatements /\ TreeOf[b] \subseteq Ids
  BY <1>5, ExpressionsOnly DEF NonStatements, ExpressionIds, ParameterIds
<1>7. TreeOf[b] \cap CompiledStatements = {}
  BY <1>1, <1>6, CompiledIs, ExpressionsOnly
<1>8. /\ Loads(todo) \subseteq CompiledStatements \cup GivenBy(Done) /\ \A s \in Done : Sound(s)
      /\ \A x \in Ids : freed[x] = IF x \in GivenBy(Done) \ Loads(todo) THEN 1 ELSE 0
  BY <1>1 DEF CompileInv
<1>9. TreeOf[b] \subseteq GivenBy(Done) /\ \A x \in TreeOf[b] : freed[x] = 0
  BY <1>3, <1>4, <1>6, <1>7, <1>8
<1>10. stale' = FALSE
  BY <1>1, <1>5, <1>9, ReadsNothingFreed
<1>11. /\ CompiledStatements' = CompiledStatements /\ Ids' = Ids
       /\ \A s : Loads(s)' = Loads(s) /\ (LoadsApart(s)' <=> LoadsApart(s))
       /\ \A s : Given(s)' = Given(s) /\ (Sound(s)' <=> Sound(s))
  BY <1>1, LoadsStay
<1>12. PICK items : items = Rest
  OBVIOUS
<1>13. todo' = items
  BY <1>1, <1>12 DEF Proceed
<1>14. Loads(todo)' = Loads(items) /\ LoadsApart(todo)'
  <2>1. Loads(todo)' = Loads(items)' /\ (LoadsApart(todo)' <=> LoadsApart(items)')
    BY <1>13 DEF Loads, LoadsApart, ItemLoad, ItemApart
  <2>. QED
    BY <1>3, <1>11, <1>12, <2>1
<1>15. \A x : x \in Loads(todo)' <=> x \in Loads(todo) /\ x \notin TreeOf[b]
  BY <1>3, <1>4, <1>12, <1>14
<1>16. Done' = Done
  BY <1>7, <1>11, <1>15 DEF Done
<1>17. GivenBy(Done)' = GivenBy(Done)
  BY <1>11, <1>16 DEF GivenBy
<1>18. ASSUME NEW x \in Ids PROVE freed'[x] = IF x \in GivenBy(Done) \ Loads(todo)' THEN 1 ELSE 0
  <2>1. freed'[x] = freed[x] + IF x \in TreeOf[b] THEN 1 ELSE 0
    BY <1>1, <1>5 DEF AndFreed
  <2>. QED
    BY <1>8, <1>9, <1>15, <2>1
<1>19. Loads(todo)' \subseteq CompiledStatements \cup GivenBy(Done)
  BY <1>8, <1>15
<1>20. CompileInv'
  BY <1>8, <1>11, <1>14, <1>16, <1>17, <1>18, <1>19 DEF CompileInv
<1>. QED
  BY <1>10, <1>20

\* The program ends otherwise.
LEMMA EndKept ==
  ASSUME stale = FALSE, NEW how \in {"exited", "wild"}, End(how)
  PROVE  KeptInv'
  BY DEF End, KeptInv, CompileInv, ReleasedInv

\* Every step of the compiler keeps the second invariant,
LEMMA CompileKept == TreeInv /\ KeptInv /\ Compile => KeptInv'
<1>. SUFFICES ASSUME TreeInv, KeptInv, Compile PROVE KeptInv'
  OBVIOUS
<1>1. CompileInv /\ stale = FALSE
  BY DEF KeptInv
<1>2. stage = "compile" /\ todo # <<>>
  BY DEF Compile, Compiling, At, CompileFunction, CompileAssignment, CompileFlow, CompileReturn,
         CompileWhile, CompileIf, CompileFor, EndFor, CompileFails
<1>3. ASSUME CompileInv', stale' = FALSE, stage' = "compile" PROVE KeptInv'
  BY <1>3 DEF KeptInv, ReleasedInv
<1>4. CASE CompileFunction
  <2>1. stage' = "compile"
    BY <1>2, <1>4 DEF CompileFunction, Proceed
  <2>. QED
    BY <1>1, <1>3, <1>4, <2>1, FunctionKeeps
<1>5. \A items : Proceed(items) => stage' = "compile"
  BY <1>2 DEF Proceed
<1>6. CASE CompileAssignment
  <2>1. CASE End("wild")
    BY <1>1, <2>1, EndKept
  <2>2. CASE Read(Header) /\ Proceed(Rest) /\ UNCHANGED freed
    BY <1>1, <1>3, <1>5, <1>6, <2>2, AssignmentKeeps DEF CompileAssignment
  <2>. QED
    BY <1>6, <2>1, <2>2 DEF CompileAssignment
<1>7. CASE CompileFlow
  BY <1>1, <1>3, <1>5, <1>7, AssignmentKeeps DEF CompileFlow
<1>8. CASE CompileReturn
  <2>1. CASE End("wild")
    BY <1>1, <2>1, EndKept
  <2>2. CASE Node1.exprs # <<>>
    BY <1>1, <1>3, <1>5, <1>8, <2>2, ReturnKeeps DEF CompileReturn
  <2>. QED
    BY <1>8, <2>1, <2>2 DEF CompileReturn
<1>9. CASE CompileWhile
  <2>1. CASE End("exited")
    BY <1>1, <2>1, EndKept
  <2>2. CASE Read(Header) /\ Proceed(Put(Item("statements", Node1.block), Rest)) /\ UNCHANGED freed
    <3>1. PICK w, n : w = Item("statements", Node1.orelse) /\ n = Head(Current.ids)
      OBVIOUS
    <3>2. w.ids = Node1.orelse
      BY <3>1 DEF Item
    <3>3. n \in Ids /\ Node1 = nodes[n]
      BY <1>1, <1>2, <3>1, AtHand
    <3>4. w.ids = <<>>
      BY <1>9, <3>2, <3>3 DEF TreeInv, TagInv, Tagged, CompileWhile, At
    <3>5. Put(w, Rest) = Rest
      BY <3>4 DEF Put
    <3>6. Proceed(Put(Item("statements", Node1.block), Put(Item("statements", Node1.orelse), Rest)))
      BY <2>2, <3>1, <3>5
    <3>. QED
      BY <1>1, <1>3, <1>5, <1>9, <2>2, <3>6, BranchKeeps DEF CompileWhile
  <2>. QED
    BY <1>9, <2>1, <2>2 DEF CompileWhile
<1>10. CASE CompileIf
  <2>1. CASE End("wild")
    BY <1>1, <2>1, EndKept
  <2>2. CASE /\ Read(Header) /\ UNCHANGED freed
             /\ Proceed(Put(Item("statements", Node1.block), Put(Item("statements", Node1.orelse), Rest)))
    BY <1>1, <1>3, <1>5, <1>10, <2>2, BranchKeeps DEF CompileIf
  <2>. QED
    BY <1>10, <2>1, <2>2 DEF CompileIf
<1>11. CASE CompileFor
  <2>1. PICK range : range = nodes[Node1.exprs[1]]
    OBVIOUS
  <2>2. CASE End("wild")
    BY <1>1, <2>2, EndKept
  <2>3. CASE End("exited")
    BY <1>1, <2>3, EndKept
  <2>4. CASE /\ Read(Header) /\ ~(Len(range.exprs) < 2)
             /\ Proceed(Put(Item("statements", Node1.block),
                            Put(Item("bound", << Head(range.exprs) >>), Rest)))
             /\ UNCHANGED freed
    <3>1. Len(range.exprs) \in Int
      <4>1. PICK n : n = Head(Current.ids)
        OBVIOUS
      <4>2. n \in Ids /\ Node1 = nodes[n] /\ nodes[n].tag = "for"
        BY <1>1, <1>2, <1>11, <4>1, AtHand DEF CompileFor, At
      <4>3. nodes[n].exprs \in Seq(Nat) /\ nodes[n].exprs # <<>>
        BY <4>2, PartsAre DEF TreeInv, TagInv, Tagged
      <4>4. nodes[n].exprs[1] \in Ids
        <5>1. nodes[n].exprs[1] \in ToSet(nodes[n].exprs)
          BY <4>3, HeadTail
        <5>. QED
          BY <4>2, <5>1 DEF TreeInv, TagInv, Tagged, ExpressionIds
      <4>5. range.exprs \in Seq(Nat)
        BY <2>1, <4>2, <4>4, PartsAre
      <4>. QED
        BY <4>5
    <3>2. Len(range.exprs) >= 2
      BY <2>4, <3>1
    <3>. QED
      BY <1>1, <1>3, <1>5, <1>11, <2>1, <2>4, <3>2, ForKeeps DEF CompileFor
  <2>. QED
    BY <1>11, <2>1, <2>2, <2>3, <2>4 DEF CompileFor
<1>12. CASE EndFor
  BY <1>1, <1>3, <1>5, <1>12, EndForKeeps DEF EndFor
<1>13. CASE CompileFails
  BY <1>1, <1>13, EndKept DEF CompileFails
<1>. QED
  BY <1>4, <1>6, <1>7, <1>8, <1>9, <1>10, <1>11, <1>12, <1>13 DEF Compile

\* What is to be compiled at first.
Begun == /\ \A n \in Ids : freed[n] = 0
         /\ todo = Put(Item("functions", Leading), Put(Item("statements", Program), <<>>))

\* All statements are left to compile, once, and nothing is freed.
LEMMA BeginCompile == TreeInv /\ stage = "compile" /\ Begun => CompileInv
<1>. SUFFICES ASSUME TreeInv, stage = "compile", Begun PROVE CompileInv
  OBVIOUS
<1>1. /\ Shaped /\ Live = Ids /\ ToSet(Program) \subseteq Live /\ IsInjective(Program)
      /\ Len(stack) = 1 /\ stack[1].kind = "block" /\ TagInv /\ Typed
  BY SoleHolders, TypesAre DEF TreeInv, StageInv
<1>2. PICK p, f, v, w, e, rest :
        /\ p = Program /\ f = Leading /\ e = <<>>
        /\ v = Item("functions", f) /\ w = Item("statements", p) /\ rest = Put(w, e)
  OBVIOUS
<1>3. todo = Put(v, rest) /\ \A n \in Ids : freed[n] = 0
  BY <1>2 DEF Begun
<1>4. v.kind = "functions" /\ v.ids = f /\ w.kind = "statements" /\ w.ids = p
      /\ v = Item(v.kind, v.ids) /\ w = Item(w.kind, w.ids)
  BY <1>2 DEF Item
<1>5. /\ f \in Seq(Nat) /\ ToSet(f) \subseteq ToSet(p) /\ \A n \in ToSet(f) : nodes[n].tag = "function"
      /\ p \in Seq(Nat) /\ Len(f) <= Len(p) /\ \A i \in 1 .. Len(f) : f[i] = p[i]
  BY <1>1, <1>2, LeadingIs
<1>6. ToSet(p) \subseteq StatementIds /\ IsInjective(p)
  BY <1>1, <1>2 DEF TagInv, Valued, Program, Typed
<1>7. IsInjective(f)
  <2>1. Len(f) \in Nat /\ Len(p) \in Nat /\ DOMAIN f = 1 .. Len(f) /\ DOMAIN p = 1 .. Len(p)
    BY <1>5
  <2>2. \A i \in DOMAIN f : i \in DOMAIN p /\ f[i] = p[i]
    BY <1>5, <2>1
  <2>. QED
    BY <1>6, <2>2 DEF IsInjective
<1>8. ASSUME NEW a \in ToSet(p), NEW b \in ToSet(p), a # b PROVE TreeOf[a] \cap TreeOf[b] = {}
  BY <1>1, <1>2, <1>8, ProgramApart
<1>9. \A n \in ToSet(p) : Under[n] \subseteq TreeOf[n]
  BY <1>6, UnderIs
<1>10. ASSUME NEW n \in ToSet(f) PROVE Load("functions", n) \subseteq TreeOf[n] /\ Under[n] = {}
  <2>1. n \in StatementIds /\ n \in Ids
    BY <1>5, <1>6 DEF StatementIds
  <2>2. ASSUME NEW k \in ToSet(nodes[n].block) PROVE Under[k] \subseteq TreeOf[n]
    <3>1. k \in ToSet(Parts(n)) /\ k \in StatementIds
      BY <1>1, <2>1, PartsAre DEF TagInv, Tagged
    <3>2. Under[k] \subseteq TreeOf[k]
      BY <3>1, UnderIs
    <3>3. TreeOf[k] \subseteq TreeOf[n]
      BY <1>1, <2>1, <3>1, TreeIs
    <3>. QED
      BY <3>2, <3>3
  <2>3. Load("functions", n) = UNION {Under[k] : k \in ToSet(nodes[n].block)}
    BY DEF Load
  <2>. QED
    BY <1>5, <2>1, <2>2, <2>3, UnderIs
<1>11. \A k : Load("statements", k) = Under[k]
  BY DEF Load
<1>12. ItemApart(w)
  <2>1. ASSUME NEW i \in DOMAIN p, NEW j \in DOMAIN p, i # j PROVE Under[p[i]] \cap Under[p[j]] = {}
    <3>1. p[i] \in ToSet(p) /\ p[j] \in ToSet(p) /\ p[i] # p[j]
      BY <1>6, <2>1 DEF ToSet, IsInjective
    <3>. QED
      BY <1>8, <1>9, <3>1
  <2>. QED
    BY <1>4, <1>11, <2>1 DEF ItemApart
<1>13. ItemApart(v)
  <2>1. ASSUME NEW i \in DOMAIN f, NEW j \in DOMAIN f, i # j
        PROVE  Load("functions", f[i]) \cap Load("functions", f[j]) = {}
    <3>1. f[i] \in ToSet(f) /\ f[j] \in ToSet(f) /\ f[i] # f[j]
      BY <1>7, <2>1 DEF ToSet, IsInjective
    <3>2. TreeOf[f[i]] \cap TreeOf[f[j]] = {}
      BY <1>5, <1>8, <3>1
    <3>. QED
      BY <1>10, <3>1, <3>2
  <2>. QED
    BY <1>4, <2>1 DEF ItemApart
<1>14. Loads(e) = {} /\ LoadsApart(e) /\ GoodItems(e)
  BY <1>2 DEF Loads, LoadsApart, GoodItems
<1>15. LoadsApart(rest) /\ Loads(rest) = ItemLoad(w)
  <2>1. ItemLoad(w) \cap Loads(e) = {}
    BY <1>14
  <2>. QED
    BY <1>2, <1>12, <1>14, <2>1, PutLoads
<1>16. GoodItems(rest)
  <2>1. w.ids = <<>> \/ GoodItem(w)
    BY <1>1, <1>2, <1>4, <1>5, <1>6 DEF GoodItem
  <2>. QED
    BY <1>2, <1>14, <2>1, PutGood
<1>17. /\ \A x : x \in ItemLoad(v) <=> \E n \in ToSet(f) : x \in Load("functions", n)
       /\ \A x : x \in ItemLoad(w) <=> \E n \in ToSet(p) : x \in Under[n]
  <2>1. \A x : x \in ItemLoad(v) <=> \E n \in ToSet(v.ids) : x \in Load(v.kind, n)
    BY LoadsAre
  <2>2. \A x : x \in ItemLoad(w) <=> \E n \in ToSet(w.ids) : x \in Load(w.kind, n)
    BY LoadsAre
  <2>3. \A x : x \in ItemLoad(v) <=> \E n \in ToSet(f) : x \in Load("functions", n)
    BY <1>4, <2>1
  <2>4. \A x : x \in ItemLoad(w) <=> \E n \in ToSet(p) : x \in Load("statements", n)
    BY <1>4, <2>2
  <2>. QED
    BY <1>11, <2>3, <2>4
<1>18. ItemLoad(v) \cap ItemLoad(w) = {}
  <2>1. ASSUME NEW n \in ToSet(f), NEW m \in ToSet(p) PROVE Load("functions", n) \cap Under[m] = {}
    <3>1. CASE n = m
      BY <1>10, <3>1
    <3>2. CASE n # m
      <4>1. TreeOf[n] \cap TreeOf[m] = {}
        BY <1>5, <1>8, <3>2
      <4>. QED
        BY <1>9, <1>10, <4>1
    <3>. QED
      BY <3>1, <3>2
  <2>. QED
    BY <1>17, <2>1
<1>19. LoadsApart(todo) /\ Loads(todo) = ItemLoad(v) \cup ItemLoad(w)
  <2>1. ItemLoad(v) \cap Loads(rest) = {}
    BY <1>15, <1>18
  <2>. QED
    BY <1>3, <1>13, <1>15, <1>16, <2>1, PutLoads
<1>20. Loads(todo) = CompiledStatements
  <2>1. \A x : x \in CompiledStatements <=>
          \/ \E n \in ToSet(f) : \E k \in ToSet(nodes[n].block) : x \in Under[k]
          \/ \E n \in ToSet(p) : x \in Under[n]
    BY <1>2, CompiledAre
  <2>2. \A n, x : x \in Load("functions", n) <=> \E k \in ToSet(nodes[n].block) : x \in Under[k]
    BY DEF Load
  <2>. QED
    BY <1>17, <1>19, <2>1, <2>2
<1>21. Done = {} /\ GivenBy(Done) = {}
  <2>1. Done = {}
    BY <1>20 DEF Done
  <2>. QED
    BY <2>1 DEF GivenBy
<1>. QED
  BY <1>3, <1>19, <1>20, <1>21 DEF CompileInv

\* create_program,
LEMMA EndParseKept == TreeInv /\ KeptInv /\ EndParse => KeptInv'
<1>. SUFFICES ASSUME TreeInv, KeptInv, EndParse PROVE KeptInv'
  OBVIOUS
<1>1. stage = "parse" /\ UNCHANGED <<nodes, stack, freed, stale>>
  BY DEF EndParse, Kinds
<1>2. stale' = FALSE
  BY <1>1 DEF KeptInv
<1>3. CASE stage' = "optimise"
  BY <1>2, <1>3 DEF KeptInv, CompileInv, ReleasedInv
<1>4. CASE stage' = "compile" /\ todo' = Put(Item("functions", Leading), Put(Item("statements", Program), <<>>))
  <2>1. TreeInv'
    BY EndParseKeeps
  <2>2. \A n \in Ids : freed[n] = 0
    BY <1>1 DEF TreeInv, StageInv
  <2>3. Ids' = Ids /\ Program' = Program
    BY <1>1 DEF Ids, Program
  <2>4. Leading' = Leading
    BY <1>1, <2>3 DEF Leading
  <2>5. Begun'
    BY <1>1, <1>4, <2>2, <2>3, <2>4 DEF Begun
  <2>6. (TreeInv /\ stage = "compile" /\ Begun => CompileInv)'
    BY BeginCompile, PTL
  <2>7. CompileInv'
    BY <1>4, <2>1, <2>5, <2>6
  <2>. QED
    BY <1>2, <1>4, <2>7 DEF KeptInv, ReleasedInv
<1>. QED
  BY <1>3, <1>4 DEF EndParse

\* and free_program, which frees all nodes that live.
LEMMA FreeProgramKept == TreeInv /\ KeptInv /\ FreeProgram => KeptInv'
<1>. SUFFICES ASSUME TreeInv, KeptInv, FreeProgram PROVE KeptInv'
  OBVIOUS
<1>1. stage \in {"compile", "optimise"} /\ stale = FALSE
  BY DEF FreeProgram, KeptInv
<1>2. CASE End("wild")
  BY <1>1, <1>2, EndKept
<1>3. CASE /\ ~ \E n \in Trees(Program) : freed[n] > 0
           /\ freed' = AndFreed(Trees(Program)) /\ stage' = "released"
           /\ UNCHANGED <<nodes, stack, todo, dropped, stale>>
  <2>1. Trees(Program) = Live /\ Live \subseteq Ids /\ (stage = "compile" => Live = Ids)
    BY <1>1, ProgramHasAll, SoleHolders
  <2>2. \A n \in Ids : freed[n] \in Nat
    BY TypesAre DEF TreeInv, Typed
  <2>3. Ids' = Ids
    BY <1>3 DEF Ids
  <2>4. \A n \in Ids : freed'[n] = freed[n] + IF n \in Live THEN 1 ELSE 0
    BY <1>3, <2>1 DEF AndFreed
  <2>5. \A n \in Live : freed[n] = 0
    BY <1>3, <2>1, <2>2
  <2>6. ASSUME NEW n \in Ids PROVE freed'[n] = IF n \in dropped THEN 0 ELSE 1
    <3>1. CASE stage = "compile"
      <4>1. dropped = {}
        BY <3>1 DEF TreeInv, StageInv
      <4>. QED
        BY <2>1, <2>4, <2>5, <3>1, <4>1
    <3>2. CASE stage = "optimise"
      <4>1. Live = Alive /\ freed[n] \in {0, 1} /\ (n \in dropped => freed[n] = 0)
        BY <3>2 DEF TreeInv, StageInv, Live
      <4>2. n \in Live <=> freed[n] = 0 /\ n \notin dropped
        BY <4>1 DEF Alive
      <4>. QED
        BY <2>4, <4>1, <4>2
    <3>. QED
      BY <1>1, <3>1, <3>2
  <2>7. ReleasedInv'
    BY <1>3, <2>3, <2>6 DEF ReleasedInv
  <2>. QED
    BY <1>1, <1>3, <2>7 DEF KeptInv, CompileInv
<1>. QED
  BY <1>2, <1>3 DEF FreeProgram

\* The parser and the optimiser.
LEMMA OthersKept ==
  ASSUME stage' \in {"parse", "optimise", "exited", "wild"}, stale' = stale, stale = FALSE
  PROVE  KeptInv'
  BY DEF KeptInv, CompileInv, ReleasedInv

\* The second invariant is inductive, with the first.
LEMMA KeptNext == TreeInv /\ KeptInv /\ [TreeNext]_treeVars => KeptInv'
<1>. SUFFICES ASSUME TreeInv, KeptInv, [TreeNext]_treeVars PROVE KeptInv'
  OBVIOUS
<1>1. stale = FALSE
  BY DEF KeptInv
<1>2. CASE Parse
  <2>1. stage = "parse" /\ stage' = "parse" /\ stale' = stale
    BY <1>2 DEF Parse, Atom, ExpressionBegins, BinaryOp, UnaryOp, OpenArguments, AppendArgument,
        FunctionCall, Assignment, OpAssignment, Return, Flow, OpenBlock, OpenElse, If, While, For,
        OpenParameters, AppendParameter, OpenBody, FunctionDef, Kinds,
        Expression, Statement, Reduce, ReduceTo, Open
  <2>. QED
    BY <1>1, <2>1, OthersKept
<1>3. CASE EndParse
  BY <1>3, EndParseKept
<1>4. CASE Compile
  BY <1>4, CompileKept
<1>5. CASE Optimise
  <2>1. stage' \in {"optimise", "exited", "wild"} /\ stale' = stale
    BY <1>5 DEF Optimise, ConstProp, ConstFold, OptimiserFails, SimplifyStatements, Optimising, End
  <2>. QED
    BY <1>1, <2>1, OthersKept
<1>6. CASE FreeProgram
  BY <1>6, FreeProgramKept
<1>7. CASE UNCHANGED treeVars
  <2>1. UNCHANGED <<nodes, stack, stage, todo, freed, dropped, stale>>
    BY <1>7 DEF treeVars
  <2>2. ReleasedInv' /\ stale' = FALSE
    <3>1. Ids' = Ids
      BY <2>1 DEF Ids
    <3>. QED
      BY <1>1, <2>1, <3>1 DEF KeptInv, ReleasedInv
  <2>3. CompileInv'
    <3>1. CASE stage = "compile"
      <4>1. PICK items : items = todo
        OBVIOUS
      <4>2. LoadsApart(items) /\ Loads(items) = Loads(todo) /\ CompileInv
        BY <3>1, <4>1 DEF KeptInv, CompileInv
      <4>. QED
        BY <2>1, <3>1, <4>1, <4>2, PassedKeeps
    <3>2. CASE stage # "compile"
      BY <2>1, <3>2 DEF CompileInv
    <3>. QED
      BY <3>1, <3>2
  <2>. QED
    BY <2>2, <2>3 DEF KeptInv
<1>. QED
  BY <1>2, <1>3, <1>4, <1>5, <1>6, <1>7 DEF TreeNext

\* Both hold always.
LEMMA KeptInvariant == TreeSpec => [](TreeInv /\ KeptInv)
<1>1. TreeInit => KeptInv
  BY DEF TreeInit, KeptInv, CompileInv, ReleasedInv
<1>. QED
  BY <1>1, TreeInitInv, TreeNextInv, KeptNext, PTL DEF TreeSpec

\* The compiler reads no node that it has freed, whatever the program: what a return or a
\* for gives away is of its own expressions, and no other statement has them.
THEOREM NothingFreedRead == TreeSpec => []ReadsLive
<1>1. KeptInv => ReadsLive
  BY DEF KeptInv, ReadsLive
<1>. QED
  BY <1>1, KeptInvariant, PTL

\* The compiler frees no node twice; when it has gone through, what is freed is of the
\* value of a return (but for a call of LOOP) or the first bound of a for; and a program that
\* free_program gets through has freed every node once, but for those that
\* simplify_if_statement unlinked.
THEOREM FreedAsGiven == TreeSpec => []FreedOnce
<1>1. TreeInv /\ KeptInv => FreedOnce
  <2>. SUFFICES ASSUME TreeInv, KeptInv PROVE FreedOnce
    OBVIOUS
  <2>1. ASSUME stage = "compile"
        PROVE  \A n \in Ids : freed[n] = IF n \in GivenBy(Done) \ Loads(todo) THEN 1 ELSE 0
    BY <2>1 DEF KeptInv, CompileInv
  <2>2. ASSUME stage = "compile", NEW n \in Ids PROVE freed[n] <= 1
    <3>1. freed[n] = 0 \/ freed[n] = 1
      BY <2>1, <2>2
    <3>. QED
      BY <3>1
  <2>3. ASSUME stage = "compile", todo = <<>>, NEW n \in Ids, freed[n] = 1
        PROVE  n \in GivenAway
    <3>1. Loads(todo) = {}
      BY <2>3 DEF Loads
    <3>2. Done = CompiledStatements
      BY <3>1 DEF Done
    <3>3. GivenAway = GivenBy(CompiledStatements)
      BY DEF GivenAway, GivenBy, Given
    <3>4. n \in GivenBy(Done)
      BY <2>1, <2>3
    <3>. QED
      BY <3>2, <3>3, <3>4
  <2>4. stage = "released" => \A n \in Ids : freed[n] = IF n \in dropped THEN 0 ELSE 1
    BY DEF KeptInv, ReleasedInv
  <2>. QED
    BY <2>2, <2>3, <2>4 DEF FreedOnce
<1>. QED
  BY <1>1, KeptInvariant, PTL
=============================================================================
