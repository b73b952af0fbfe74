------------------------- MODULE ControlFlowProofs --------------------------
(***************************************************************************)
(* For every program, however long and deep.                               *)
(*                                                                         *)
(* LabelsKeep: a branch that has its label keeps it, and no label moves.   *)
(* The invariant (IInv) is that the branches of the blocks that are open   *)
(* are the ones whose label is still to be filled in, each block's its own.*)
(*                                                                         *)
(* TypeCorrect: the code, the tables and the blocks have their types       *)
(* (Types).                                                                *)
(*                                                                         *)
(* NamesFound: the name of a label leads to its line.  The invariant       *)
(* (NamesAll) has three parts: which names a table has, and that those of  *)
(* the functions and of main come in the order of their lines (NamesInv);  *)
(* which block may be open when, and that a function has code before the   *)
(* next begins (BlocksInv); that a branch is that of a block that is open  *)
(* or has a label of its own State's table (AimInv).                       *)
(*                                                                         *)
(* SourceFollowed: control goes where the source says.  The invariant      *)
(* (FollowInv) relates the code to the parts of the source it is made      *)
(* from: the depth of the parts is that of the blocks (LevelInv); the code *)
(* comes in the order of the parts (CodedInv), the functions before main   *)
(* (OrderInv) and each from the line its table says (DefsInv, MainInv); a  *)
(* block that is open begins at the part its branch is made from           *)
(* (OpenInv); a branch whose label is filled in lands behind the part that *)
(* matches its own (BranchInv); an if has its else or is open (IfsInv).    *)
(***************************************************************************)
EXTENDS ControlFlow, FiniteSetTheorems, SequenceTheorems, WellFoundedInduction, TLAPS

\* A sequence of whatever.
IsSeq(s) == \E S : s \in Seq(S)

\* A sequence that begins with another.
Extends(s, t) == /\ IsSeq(t)
                 /\ Len(s) <= Len(t)
                 /\ \A i \in DOMAIN s : i \in DOMAIN t /\ t[i] = s[i]

LEMMA AppendExtends ==
  ASSUME NEW s, IsSeq(s), NEW e
  PROVE  /\ Extends(s, Append(s, e))
         /\ Len(Append(s, e)) = Len(s) + 1
         /\ Append(s, e)[Len(s) + 1] = e
<1>1. PICK S : s \in Seq(S)
  BY DEF IsSeq
<1>2. Append(s, e) \in Seq(S \cup {e})
  <2>1. s \in Seq(S \cup {e})
    BY <1>1
  <2>. QED
    BY <2>1
<1>. QED
  BY <1>1, <1>2 DEF IsSeq, Extends

LEMMA ConcatExtends ==
  ASSUME NEW s, IsSeq(s), NEW t, IsSeq(t)
  PROVE  /\ Extends(s, s \o t)
         /\ Len(s \o t) = Len(s) + Len(t)
         /\ \A i \in 1..Len(t) : (s \o t)[Len(s) + i] = t[i]
<1>1. PICK S : s \in Seq(S)
  BY DEF IsSeq
<1>2. PICK T : t \in Seq(T)
  BY DEF IsSeq
<1>3. s \in Seq(S \cup T) /\ t \in Seq(S \cup T)
  BY <1>1, <1>2
<1>4. s \o t \in Seq(S \cup T)
  BY <1>3
<1>. QED
  BY <1>3, <1>4 DEF IsSeq, Extends

\* Two sequences that differ at one place only.
DifferAt(b, s, t) == /\ t = [i \in DOMAIN s |-> t[i]]
                     /\ \A i \in DOMAIN s : i # b => t[i] = s[i]

LEMMA DifferSeq ==
  ASSUME NEW s, IsSeq(s), NEW b, NEW t, DifferAt(b, s, t)
  PROVE  IsSeq(t) /\ Len(t) = Len(s) /\ DOMAIN t = DOMAIN s
<1>. DEFINE T == {t[i] : i \in DOMAIN s}
<1>1. Len(s) \in Nat /\ DOMAIN s = 1..Len(s)
  BY DEF IsSeq
<1>2. t = [i \in 1..Len(s) |-> t[i]] /\ \A i \in 1..Len(s) : t[i] \in T
  BY <1>1 DEF DifferAt
<1>. HIDE DEF T
<1>3. t \in Seq(T) /\ Len(t) = Len(s)
  BY <1>1, <1>2
<1>. QED
  BY <1>1, <1>2, <1>3 DEF IsSeq

LEMMA ExtendsTransitive ==
  ASSUME NEW s, NEW t, NEW u, IsSeq(s), Extends(s, t), Extends(t, u)
  PROVE  Extends(s, u)
<1>1. Len(s) \in Nat /\ Len(t) \in Nat /\ Len(u) \in Nat
  BY DEF Extends, IsSeq
<1>. QED
  BY <1>1 DEF Extends

LEMMA PlainSeq ==
  ASSUME NEW n \in Nat, NEW src
  PROVE  IsSeq(Plain(n, src)) /\ Len(Plain(n, src)) = n
<1>. DEFINE e == Instr("plain", 0, src)
<1>1. Plain(n, src) = [k \in 1..n |-> e]
  BY DEF Plain
<1>. HIDE DEF e
<1>2. Plain(n, src) \in Seq({e}) /\ Len(Plain(n, src)) = n
  BY <1>1
<1>. QED
  BY <1>2 DEF IsSeq
-----------------------------------------------------------------------------
\* The branches of open blocks come one behind the other, and have no label yet.
OpenBranches(o, c) ==
  /\ IsSeq(o)
  /\ \A i \in DOMAIN o : o[i].branch \in 0..Len(c)
  /\ \A i \in DOMAIN o : o[i].kind # "def" => o[i].branch >= 2 /\ c[o[i].branch].label = 0
  /\ \A i, j \in DOMAIN o : i < j => o[i].branch < o[j].branch

CodeInv ==
  /\ IsSeq(code) /\ Len(code) >= 1
  /\ phase = "functions" => code[1].label = 0
  /\ OpenBranches(open, code)

TablesInv ==
  /\ tables = [s \in States |-> tables[s]]
  /\ \A s \in States : IsSeq(tables[s])
  /\ \A s \in States : s > Len(funcs) => tables[s] = <<>>
  /\ IsSeq(funcs)
  /\ current \in 0 .. Len(funcs) /\ Len(funcs) <= MaxFunctions

IInv == CodeInv /\ TablesInv

\* What a step does to the labels.
TablesGrow == \A s \in States : \A i \in DOMAIN tables[s] : tables'[s][i] = tables[s][i]
BranchesKeep == \A i \in DOMAIN code : code[i].label # 0 => code'[i].label = code[i].label
-----------------------------------------------------------------------------
\* Code that is added leaves the open branches as they are.
LEMMA GrowCode ==
  ASSUME NEW o, NEW c, NEW d, IsSeq(c), OpenBranches(o, c), Extends(c, d)
  PROVE  OpenBranches(o, d)
<1>1. Len(c) \in Nat /\ Len(d) \in Nat /\ DOMAIN c = 1..Len(c)
  BY DEF Extends, IsSeq
<1>2. ASSUME NEW i \in DOMAIN o, o[i].kind # "def" PROVE d[o[i].branch].label = 0
  <2>1. o[i].branch \in DOMAIN c
    BY <1>1, <1>2 DEF OpenBranches
  <2>. QED
    BY <1>2, <2>1 DEF OpenBranches, Extends
<1>3. \A i \in DOMAIN o : o[i].branch \in 0..Len(d)
  BY <1>1 DEF OpenBranches, Extends
<1>. QED
  BY <1>2, <1>3 DEF OpenBranches

\* The last instruction of more code becomes the branch of a new block.
LEMMA PushBranch ==
  ASSUME NEW o, NEW c, NEW d, IsSeq(c), OpenBranches(o, c), Extends(c, d),
         Len(d) > Len(c), Len(d) >= 2, d[Len(d)].label = 0,
         NEW p, p.branch = Len(d)
  PROVE  OpenBranches(Append(o, p), d)
<1>1. OpenBranches(o, d)
  BY GrowCode
<1>2. IsSeq(Append(o, p)) /\ Len(Append(o, p)) = Len(o) + 1
      /\ Append(o, p)[Len(o) + 1] = p
      /\ \A i \in DOMAIN o : Append(o, p)[i] = o[i]
  BY AppendExtends DEF OpenBranches, Extends
<1>3. /\ Len(o) \in Nat /\ DOMAIN o = 1..Len(o)
      /\ DOMAIN Append(o, p) = 1..Len(o) + 1
  BY <1>2 DEF OpenBranches, IsSeq
<1>4. Len(c) \in Nat /\ Len(d) \in Nat
  BY DEF Extends, IsSeq
<1>5. \A i \in DOMAIN o : o[i].branch < p.branch
  BY <1>4 DEF OpenBranches
<1>6. \A i \in DOMAIN Append(o, p) : i \in DOMAIN o \/ i = Len(o) + 1
  BY <1>3
<1>. HIDE DEF IsSeq
<1>7. \A i \in DOMAIN Append(o, p) :
        /\ Append(o, p)[i].branch \in 0..Len(d)
        /\ Append(o, p)[i].kind # "def" =>
             Append(o, p)[i].branch >= 2 /\ d[Append(o, p)[i].branch].label = 0
  BY <1>1, <1>2, <1>4, <1>6 DEF OpenBranches
<1>8. \A i, j \in DOMAIN Append(o, p) : i < j => Append(o, p)[i].branch < Append(o, p)[j].branch
  <2>. SUFFICES ASSUME NEW i \in DOMAIN Append(o, p), NEW j \in DOMAIN Append(o, p), i < j
                PROVE  Append(o, p)[i].branch < Append(o, p)[j].branch
    OBVIOUS
  <2>1. i \in DOMAIN o
    BY <1>3
  <2>2. CASE j \in DOMAIN o
    BY <1>1, <1>2, <2>1, <2>2 DEF OpenBranches
  <2>3. CASE j = Len(o) + 1
    BY <1>2, <1>5, <2>1, <2>3
  <2>. QED
    BY <1>6, <2>2, <2>3
<1>. QED
  BY <1>2, <1>7, <1>8 DEF OpenBranches

\* A block that ends gives its branch the label, and no other branch.
LEMMA PatchTop ==
  ASSUME NEW o, NEW c, NEW d, IsSeq(c), OpenBranches(o, c), Extends(c, d),
         o # <<>>, Last(o).kind # "def", NEW e, DifferAt(Last(o).branch, d, e)
  PROVE  /\ IsSeq(e) /\ Len(e) = Len(d)
         /\ e[1] = d[1]
         /\ OpenBranches(Front(o), e)
         /\ \A i \in DOMAIN c : c[i].label # 0 => e[i].label = c[i].label
<1>. DEFINE b == Last(o).branch
<1>1. PICK S : d \in Seq(S)
  BY DEF Extends, IsSeq
<1>2. PICK T : o \in Seq(T)
  BY DEF OpenBranches, IsSeq
<1>3. /\ Len(o) \in Nat \ {0} /\ DOMAIN o = 1..Len(o) /\ Last(o) = o[Len(o)]
      /\ Len(c) \in Nat /\ DOMAIN c = 1..Len(c)
      /\ Len(d) \in Nat /\ DOMAIN d = 1..Len(d) /\ Len(c) <= Len(d)
  BY <1>1, <1>2 DEF Last, Extends, IsSeq
<1>4. b \in 2..Len(c) /\ c[b].label = 0
  BY <1>3 DEF OpenBranches
<1>5. DifferAt(b, d, e)
  OBVIOUS
<1>. HIDE DEF b
<1>6. IsSeq(e) /\ Len(e) = Len(d) /\ \A i \in DOMAIN d : i # b => e[i] = d[i]
  BY <1>5, DifferSeq DEF Extends, DifferAt
<1>7. \A i \in DOMAIN c : i # b => e[i] = c[i]
  BY <1>3, <1>6 DEF Extends
<1>8. /\ Front(o) \in Seq(T) /\ DOMAIN Front(o) = 1..Len(o) - 1
      /\ \A i \in 1..Len(o) - 1 : Front(o)[i] = o[i]
  BY <1>2, <1>3 DEF Front
<1>9. OpenBranches(Front(o), e)
  <2>1. \A i \in 1..Len(o) - 1 : i \in DOMAIN o /\ i < Len(o) /\ Len(o) \in DOMAIN o
    BY <1>3
  <2>2. ASSUME NEW i \in 1..Len(o) - 1
        PROVE  /\ o[i].branch \in 0..Len(c) /\ o[i].branch < b
               /\ o[i].kind # "def" => o[i].branch >= 2 /\ c[o[i].branch].label = 0
    BY <1>3, <2>1 DEF OpenBranches, b
  <2>3. ASSUME NEW i \in 1..Len(o) - 1, o[i].kind # "def" PROVE e[o[i].branch].label = 0
    <3>1. o[i].branch \in DOMAIN c /\ o[i].branch # b
      BY <1>3, <1>4, <2>2, <2>3
    <3>. QED
      BY <1>7, <2>2, <2>3, <3>1
  <2>4. \A i, j \in 1..Len(o) - 1 : i < j => o[i].branch < o[j].branch
    BY <2>1 DEF OpenBranches
  <2>5. \A i \in 1..Len(o) - 1 : o[i].branch \in 0..Len(e)
    BY <1>3, <1>6, <2>2
  <2>6. IsSeq(Front(o))
    BY <1>8 DEF IsSeq
  <2>. QED
    BY <1>8, <2>2, <2>3, <2>4, <2>5, <2>6 DEF OpenBranches
<1>10. e[1] = d[1]
  BY <1>3, <1>4, <1>6
<1>. QED
  BY <1>4, <1>6, <1>7, <1>9, <1>10 DEF IsSeq
-----------------------------------------------------------------------------
\* Labels that are added to the table of the current State.
LEMMA GrowTable ==
  ASSUME TablesInv, NEW t, Extends(table, t),
         tables' = [tables EXCEPT ![current] = t], UNCHANGED <<funcs, current>>
  PROVE  TablesInv' /\ TablesGrow
<1>1. Len(funcs) \in Nat
  BY DEF TablesInv, IsSeq
<1>2. current \in States
  BY <1>1, ControlFlowAssumption DEF TablesInv, States
<1>3. /\ tables'[current] = t
      /\ \A s \in States : s # current => tables'[s] = tables[s]
      /\ tables' = [s \in States |-> tables'[s]]
  BY <1>2 DEF TablesInv
<1>4. \A s \in States : s > Len(funcs) => s # current
  BY <1>1 DEF TablesInv, States
<1>5. TablesGrow
  BY <1>3 DEF TablesGrow, Extends, table
<1>6. \A s \in States : IsSeq(tables'[s])
  BY <1>3 DEF TablesInv, Extends
<1>7. \A s \in States : s > Len(funcs) => tables'[s] = <<>>
  BY <1>3, <1>4 DEF TablesInv
<1>. QED
  BY <1>3, <1>5, <1>6, <1>7 DEF TablesInv

\* A step that leaves the tables alone.
LEMMA SameTables ==
  ASSUME TablesInv, UNCHANGED <<tables, funcs, current>>
  PROVE  TablesInv' /\ TablesGrow
  BY DEF TablesInv, TablesGrow

\* A step that only adds code.
LEMMA OnlyCode ==
  ASSUME IInv, Extends(code, code'), UNCHANGED <<tables, funcs, current, open, phase>>
  PROVE  IInv' /\ TablesGrow /\ BranchesKeep
<1>1. OpenBranches(open, code')
  BY GrowCode DEF IInv, CodeInv
<1>2. Len(code') >= 1 /\ IsSeq(code') /\ code'[1] = code[1]
  <2>1. Len(code) \in Nat /\ DOMAIN code = 1..Len(code) /\ Len(code') \in Nat
    BY DEF IInv, CodeInv, IsSeq, Extends
  <2>. QED
    BY <2>1 DEF IInv, CodeInv, Extends
<1>3. CodeInv'
  BY <1>1, <1>2 DEF IInv, CodeInv
<1>4. BranchesKeep
  BY DEF BranchesKeep, Extends
<1>. QED
  BY <1>3, <1>4, SameTables DEF IInv

\* A block that ends with more code or none.
LEMMA PatchStep ==
  ASSUME IInv, NEW d, Extends(code, d), open # <<>>, Last(open).kind # "def",
         DifferAt(Last(open).branch, d, code'),
         open' = Front(open), phase' = phase
  PROVE  CodeInv' /\ BranchesKeep
<1>1. /\ IsSeq(code') /\ Len(code') = Len(d) /\ code'[1] = d[1]
      /\ OpenBranches(open', code')
      /\ \A i \in DOMAIN code : code[i].label # 0 => code'[i].label = code[i].label
  BY PatchTop DEF IInv, CodeInv
<1>2. Len(d) >= 1 /\ d[1] = code[1]
  <2>1. Len(code) \in Nat /\ DOMAIN code = 1..Len(code) /\ Len(d) \in Nat /\ Len(code) >= 1
    BY DEF IInv, CodeInv, IsSeq, Extends
  <2>. QED
    BY <2>1 DEF Extends
<1>. QED
  BY <1>1, <1>2 DEF IInv, CodeInv, BranchesKeep

LEMMA InitInvariant == Init => IInv
<1>. SUFFICES ASSUME Init PROVE IInv
  OBVIOUS
<1>1. IsSeq(code) /\ Len(code) = 1 /\ code[1].label = 0
  <2>. DEFINE b == [op |-> "b", label |-> 0, state |-> 0, src |-> 1]
  <2>1. code = <<b>> /\ b.label = 0
    BY DEF Init
  <2>. HIDE DEF b
  <2>2. code \in Seq({b})
    BY <2>1
  <2>. QED
    BY <2>1, <2>2 DEF IsSeq
<1>2. IsSeq(<<>>)
  <2>1. <<>> \in Seq({})
    OBVIOUS
  <2>. QED
    BY <2>1 DEF IsSeq
<1>3. OpenBranches(open, code)
  BY <1>2 DEF Init, OpenBranches
<1>4. TablesInv
  BY <1>2, ControlFlowAssumption DEF Init, TablesInv
<1>. QED
  BY <1>1, <1>3, <1>4 DEF IInv, CodeInv

LEMMA NextInvariant ==
  ASSUME IInv, [Next]_vars
  PROVE  IInv' /\ TablesGrow /\ BranchesKeep
<1>. DEFINE Goal == IInv' /\ TablesGrow /\ BranchesKeep
<1>0. IsSeq(code) /\ Len(code) \in Nat \ {0} /\ IsSeq(funcs) /\ Len(funcs) \in Nat
  BY DEF IInv, CodeInv, TablesInv, IsSeq
<1>t. IsSeq(table)
  BY <1>0, ControlFlowAssumption DEF IInv, TablesInv, States, table
<1>1. ASSUME NEW name \in Functions, FunctionDef(name) PROVE Goal
  <2>. DEFINE f == AddName(funcs, line, <<name, 0>>)
              t == AddName(tables[0], line, <<name, 0>>)
  <2>1. /\ open = <<>> /\ phase' = phase /\ code' = code
        /\ Len(funcs) < MaxFunctions
        /\ funcs' = f /\ current' = Len(f)
        /\ tables' = [tables EXCEPT ![0] = t, ![current'] = f]
        /\ open' = << [kind |-> "def", ret |-> 0, branch |-> 0] >>
    BY <1>1 DEF FunctionDef
  <2>2. IsSeq(f) /\ Len(f) = Len(funcs) + 1
    BY <1>0, AppendExtends DEF AddName, Extends
  <2>3. Extends(tables[0], t)
    <3>1. IsSeq(tables[0])
      BY ControlFlowAssumption DEF IInv, TablesInv, States
    <3>. QED
      BY <3>1, AppendExtends DEF AddName
  <2>. HIDE DEF f, t
  <2>4. 0 \in States /\ current' \in States /\ current' # 0 /\ tables[current'] = <<>>
    BY <1>0, <2>1, <2>2, ControlFlowAssumption DEF IInv, TablesInv, States
  <2>5. /\ tables'[0] = t /\ tables'[current'] = f
        /\ \A s \in States : s # 0 /\ s # current' => tables'[s] = tables[s]
        /\ tables' = [s \in States |-> tables'[s]]
    BY <2>1, <2>4 DEF IInv, TablesInv
  <2>6. TablesGrow
    BY <2>3, <2>4, <2>5 DEF TablesGrow, Extends
  <2>7. \A s \in States : IsSeq(tables'[s])
    BY <2>2, <2>3, <2>5 DEF IInv, TablesInv, Extends
  <2>8. \A s \in States : s > Len(funcs') => tables'[s] = <<>>
    BY <1>0, <2>1, <2>2, <2>5 DEF IInv, TablesInv, States
  <2>9. TablesInv'
    <3>1. current' \in 0 .. Len(funcs') /\ Len(funcs') <= MaxFunctions /\ IsSeq(funcs')
      <4>1. Len(f) = Len(funcs) + 1 /\ funcs' = f /\ current' = Len(f) /\ IsSeq(f)
            /\ Len(funcs) < MaxFunctions /\ MaxFunctions \in Nat
        BY <2>1, <2>2, ControlFlowAssumption
      <4>. QED
        BY <1>0, <4>1
    <3>. QED
      BY <2>5, <2>7, <2>8, <3>1 DEF TablesInv
  <2>10. OpenBranches(open', code)
    <3>. DEFINE p == [kind |-> "def", ret |-> 0, branch |-> 0]
    <3>1. open' = <<p>> /\ p.kind = "def" /\ p.branch = 0
      BY <2>1
    <3>. HIDE DEF p
    <3>2. open' \in Seq({p}) /\ DOMAIN open' = {1} /\ open'[1] = p
      BY <3>1
    <3>3. IsSeq(open')
      BY <3>2 DEF IsSeq
    <3>. QED
      BY <1>0, <3>1, <3>2, <3>3 DEF OpenBranches
  <2>. QED
    BY <2>1, <2>6, <2>9, <2>10 DEF IInv, CodeInv, BranchesKeep
<1>2. ASSUME EndFunction PROVE Goal
  <2>1. /\ current' = 0 /\ open' = <<>> /\ UNCHANGED <<code, tables, funcs, phase>>
    BY <1>2 DEF EndFunction
  <2>2. TablesInv' /\ TablesGrow
    BY <1>0, <2>1 DEF IInv, TablesInv, TablesGrow
  <2>3. OpenBranches(open', code)
    <3>1. <<>> \in Seq({})
      OBVIOUS
    <3>. QED
      BY <2>1, <3>1 DEF OpenBranches, IsSeq
  <2>. QED
    BY <2>1, <2>2, <2>3 DEF IInv, CodeInv, BranchesKeep
<1>3. ASSUME StartMain PROVE Goal
  <2>. DEFINE t == AddName(tables[0], line, MAIN)
              c == [code EXCEPT ![1].label = LabelAddress(tables'[0])]
              e == Instr("plain", 0, Here)
  <2>1. /\ phase = "functions" /\ phase' = "main" /\ open = <<>>
        /\ tables' = [tables EXCEPT ![0] = t]
        /\ code' = Append(c, e)
        /\ UNCHANGED <<funcs, current, open>>
    BY <1>3 DEF StartMain
  <2>2. Extends(tables[0], t)
    <3>1. IsSeq(tables[0])
      BY ControlFlowAssumption DEF IInv, TablesInv, States
    <3>. QED
      BY <3>1, AppendExtends DEF AddName
  <2>. HIDE DEF t, e
  <2>3. /\ IsSeq(c) /\ Len(c) = Len(code)
        /\ \A i \in DOMAIN code : i # 1 => i \in DOMAIN c /\ c[i] = code[i]
    <3>1. DifferAt(1, code, c)
      BY DEF DifferAt
    <3>. HIDE DEF c
    <3>. QED
      BY <1>0, <3>1, DifferSeq DEF DifferAt
  <2>. HIDE DEF c
  <2>4. Extends(c, code') /\ Len(code') = Len(code) + 1
    BY <2>1, <2>3, AppendExtends
  <2>5. \A i \in DOMAIN code : i # 1 => code'[i] = code[i]
    BY <2>3, <2>4 DEF Extends
  <2>6. BranchesKeep
    BY <2>1, <2>5 DEF BranchesKeep, IInv, CodeInv
  <2>7. OpenBranches(open', code')
    BY <2>1 DEF IInv, CodeInv, OpenBranches
  <2>8. CodeInv'
    BY <1>0, <2>1, <2>4, <2>7 DEF CodeInv, Extends
  <2>9. TablesInv' /\ TablesGrow
    <3>1. 0 \in States
      BY ControlFlowAssumption DEF States
    <3>2. /\ tables'[0] = t
          /\ \A s \in States : s # 0 => tables'[s] = tables[s]
          /\ tables' = [s \in States |-> tables'[s]]
      BY <2>1, <3>1 DEF IInv, TablesInv
    <3>3. TablesGrow
      BY <2>2, <3>2 DEF TablesGrow, Extends
    <3>4. \A s \in States : IsSeq(tables'[s])
      BY <2>2, <3>2 DEF IInv, TablesInv, Extends
    <3>5. \A s \in States : s > Len(funcs) => tables'[s] = <<>>
      BY <1>0, <3>2 DEF IInv, TablesInv
    <3>. QED
      BY <2>1, <3>2, <3>3, <3>4, <3>5 DEF IInv, TablesInv
  <2>. QED
    BY <2>6, <2>8, <2>9 DEF IInv
<1>4. ASSUME Finish PROVE Goal
  <2>. DEFINE e == Instr("halt", 0, Here)
  <2>1. /\ phase' = "done" /\ code' = Append(code, e)
        /\ UNCHANGED <<tables, funcs, current, open>>
    BY <1>4 DEF Finish
  <2>. HIDE DEF e
  <2>2. Extends(code, code') /\ Len(code') = Len(code) + 1
    BY <1>0, <2>1, AppendExtends
  <2>3. OpenBranches(open', code')
    BY <1>0, <2>1, <2>2, GrowCode DEF IInv, CodeInv
  <2>4. CodeInv'
    BY <1>0, <2>1, <2>2, <2>3 DEF CodeInv, Extends
  <2>. QED
    BY <2>1, <2>2, <2>4, SameTables DEF IInv, BranchesKeep, Extends
<1>5. ASSUME Assign PROVE Goal
  <2>1. code' = code \o Plain(1, Here) /\ UNCHANGED <<tables, funcs, current, open, phase>>
    BY <1>5 DEF Assign
  <2>2. Extends(code, code')
    BY <1>0, <2>1, PlainSeq, ConcatExtends
  <2>. QED
    BY <2>1, <2>2, OnlyCode
<1>6. ASSUME CallLoop PROVE Goal
  <2>. DEFINE e == Instr("b", FunAddress(table, <<LOOP, 0>>), Here)
              src == Here + 1
  <2>1. /\ code' = Append(code, e) \o Plain(1, src)
        /\ UNCHANGED <<tables, funcs, current, open, phase>>
    BY <1>6 DEF CallLoop
  <2>. HIDE DEF e, src
  <2>2. Extends(code, Append(code, e)) /\ IsSeq(Append(code, e))
    BY <1>0, AppendExtends DEF Extends
  <2>3. Extends(Append(code, e), code')
    BY <2>1, <2>2, PlainSeq, ConcatExtends
  <2>4. Extends(code, code')
    BY <1>0, <2>2, <2>3, ExtendsTransitive
  <2>. QED
    BY <2>1, <2>4, OnlyCode
<1>7. ASSUME ReturnLoop PROVE Goal
  <2>. DEFINE e == Instr("b", FunAddress(table, <<LOOP, 0>>), Here)
  <2>1. code' = Append(code, e) /\ UNCHANGED <<tables, funcs, current, open, phase>>
    BY <1>7 DEF ReturnLoop
  <2>. HIDE DEF e
  <2>2. Extends(code, code')
    BY <1>0, <2>1, AppendExtends
  <2>. QED
    BY <2>1, <2>2, OnlyCode
<1>8. ASSUME Return PROVE Goal
  <2>. DEFINE e == Instr("br", 0, Here)
              c == code \o Plain(1, Here)
  <2>1. code' = Append(c, e) /\ UNCHANGED <<tables, funcs, current, open, phase>>
    BY <1>8 DEF Return
  <2>2. Extends(code, c) /\ IsSeq(c)
    BY <1>0, PlainSeq, ConcatExtends DEF Extends
  <2>. HIDE DEF c, e
  <2>3. Extends(c, code')
    BY <2>1, <2>2, AppendExtends
  <2>4. Extends(code, code')
    BY <1>0, <2>2, <2>3, ExtendsTransitive
  <2>. QED
    BY <2>1, <2>4, OnlyCode
<1>9. ASSUME NEW kind, Flow(kind) PROVE Goal
  <2>. DEFINE e == Instr("b", 0, Here)
  <2>1. code' = Append(code, e) /\ UNCHANGED <<tables, funcs, current, open, phase>>
    BY <1>9 DEF Flow
  <2>. HIDE DEF e
  <2>2. Extends(code, code')
    BY <1>0, <2>1, AppendExtends
  <2>. QED
    BY <2>1, <2>2, OnlyCode
<1>10. ASSUME NEW kind, NEW n \in EvalLines, NEW before, IsSeq(before),
              OpenBlock(kind, n, before)
       PROVE  Goal
  <2>. DEFINE s0 == Here
              s1 == Here + Len(before)
              c == code \o Plain(Len(before), s0)
              e == Instr("bcond", 0, s1)
              p == [kind |-> kind, ret |-> line + Len(before), branch |-> Len(code')]
  <2>1. /\ code' = c \o Append(Plain(n + 1, s1), e)
        /\ open' = Append(open, p)
        /\ UNCHANGED <<tables, funcs, current, phase>>
    BY <1>10 DEF OpenBlock, Condition
  <2>2. e.label = 0 /\ p.branch = Len(code')
    BY DEF Instr
  <2>. HIDE DEF e, p, s0, s1
  <2>3. n + 1 \in Nat /\ Len(before) \in Nat
    BY <1>10, ControlFlowAssumption DEF IsSeq
  <2>4. Extends(code, c) /\ IsSeq(c) /\ Len(c) = Len(code) + Len(before)
    <3>1. IsSeq(Plain(Len(before), s0)) /\ Len(Plain(Len(before), s0)) = Len(before)
      BY <2>3, PlainSeq
    <3>2. Extends(code, c) /\ Len(c) = Len(code) + Len(before)
      BY <1>0, <3>1, ConcatExtends
    <3>. QED
      BY <3>2 DEF Extends
  <2>. HIDE DEF c
  <2>. DEFINE plain == Plain(n + 1, s1)
              test == Append(plain, e)
  <2>5. IsSeq(plain) /\ Len(plain) = n + 1
    BY <2>3, PlainSeq
  <2>. HIDE DEF plain
  <2>6. IsSeq(test) /\ Len(test) = n + 2 /\ test[n + 2] = e
    <3>1. Extends(plain, test) /\ Len(test) = (n + 1) + 1 /\ test[(n + 1) + 1] = e
      BY <2>5, AppendExtends
    <3>2. (n + 1) + 1 = n + 2
      BY ControlFlowAssumption
    <3>. QED
      BY <3>1, <3>2 DEF Extends
  <2>7. code' = c \o test
    BY <2>1 DEF plain
  <2>. HIDE DEF test
  <2>8. Extends(c, code') /\ Len(code') = Len(c) + n + 2 /\ code'[Len(c) + (n + 2)] = e
    <3>1. Len(c) \in Nat /\ n \in Nat
      BY <2>4, ControlFlowAssumption DEF IsSeq
    <3>2. n + 2 \in 1..Len(test)
      BY <2>6, <3>1
    <3>3. /\ Extends(c, c \o test) /\ Len(c \o test) = Len(c) + Len(test)
          /\ \A i \in 1..Len(test) : (c \o test)[Len(c) + i] = test[i]
      <4>1. IsSeq(c) /\ IsSeq(test)
        BY <2>4, <2>6
      <4>. HIDE DEF IsSeq
      <4>. QED
        BY <4>1, ConcatExtends, Zenon
    <3>4. Len(c) + Len(test) = Len(c) + n + 2
      BY <2>6, <3>1
    <3>. QED
      BY <2>6, <2>7, <3>2, <3>3, <3>4
  <2>9. Extends(code, code')
    BY <1>0, <2>4, <2>8, ExtendsTransitive
  <2>10. /\ Len(code') > Len(code) /\ Len(code') >= 2
         /\ code'[Len(code')] = e
    <3>1. n \in Nat
      BY ControlFlowAssumption
    <3>2. Len(code') = Len(code) + Len(before) + n + 2
      BY <1>0, <2>3, <2>4, <2>8, <3>1
    <3>3. Len(c) + (n + 2) = Len(code')
      BY <1>0, <2>3, <2>4, <2>8, <3>1
    <3>. QED
      BY <1>0, <2>3, <2>8, <3>1, <3>2, <3>3
  <2>11. OpenBranches(open', code')
    BY <1>0, <2>1, <2>2, <2>9, <2>10, PushBranch DEF IInv, CodeInv
  <2>12. CodeInv'
    BY <1>0, <2>1, <2>9, <2>10, <2>11 DEF IInv, CodeInv, Extends
  <2>. QED
    BY <2>1, <2>9, <2>12, SameTables DEF IInv, BranchesKeep, Extends
<1>11. ASSUME NEW n \in EvalLines, For(n) \/ While(n) \/ If(n) PROVE Goal
  <2>1. IsSeq(<<>>) /\ IsSeq(<<"assign">>)
    <3>1. <<>> \in Seq({}) /\ <<"assign">> \in Seq({"assign"})
      OBVIOUS
    <3>. QED
      BY <3>1 DEF IsSeq
  <2>. QED
    BY <1>10, <1>11, <2>1 DEF For, While, If
<1>12. ASSUME EndLoop PROVE Goal
  <2>. DEFINE top == Last(open)
              updated == IF top.kind = "for" THEN <<"update">> ELSE <<>>
              back == AddLabel(table, top.ret)
              c == code \o Plain(Len(updated), Here)
              e == Instr("b", LabelAddress(back), Here + Len(updated))
              looped == Append(c, e)
              out == AddLabel(back, Len(looped))
              label == LabelAddress(out)
  <2>1. /\ open # <<>> /\ top.kind # "def"
        /\ code' = [looped EXCEPT ![top.branch].label = label]
        /\ tables' = [tables EXCEPT ![current] = out]
        /\ open' = Front(open)
        /\ UNCHANGED <<funcs, current, phase>>
    BY <1>12 DEF EndLoop
  <2>2. Len(updated) \in Nat
    OBVIOUS
  <2>3. Extends(code, c) /\ IsSeq(c)
    BY <1>0, <2>2, PlainSeq, ConcatExtends DEF Extends
  <2>4. Extends(table, back) /\ IsSeq(back)
    BY <1>t, AppendExtends DEF AddLabel, Extends
  <2>. HIDE DEF c, e, back
  <2>5. Extends(c, looped)
    BY <2>3, AppendExtends
  <2>6. Extends(code, looped)
    BY <1>0, <2>3, <2>5, ExtendsTransitive
  <2>. HIDE DEF looped
  <2>7. Extends(back, out)
    BY <2>4, AppendExtends DEF AddLabel
  <2>8. Extends(table, out)
    BY <1>t, <2>4, <2>7, ExtendsTransitive
  <2>. HIDE DEF out, label
  <2>9. TablesInv' /\ TablesGrow
    BY <2>1, <2>8, GrowTable DEF IInv
  <2>10. DifferAt(top.branch, looped, code')
    BY <2>1 DEF DifferAt
  <2>11. CodeInv' /\ BranchesKeep
    BY <2>1, <2>6, <2>10, PatchStep
  <2>. QED
    BY <2>9, <2>11 DEF IInv
<1>13. ASSUME Else PROVE Goal
  <2>. DEFINE top == Last(open)
              other == AddLabel(table, line + 1)
              label == LabelAddress(other)
              patched == [code EXCEPT ![top.branch].label = label]
              e == Instr("b", 0, Here)
              p == [kind |-> "else", ret |-> 0, branch |-> line + 1]
  <2>1. /\ open # <<>> /\ top.kind # "def"
        /\ code' = Append(patched, e)
        /\ tables' = [tables EXCEPT ![current] = other]
        /\ open' = Append(Front(open), p)
        /\ UNCHANGED <<funcs, current, phase>>
    BY <1>13 DEF Else
  <2>2. Extends(table, other)
    BY <1>t, AppendExtends DEF AddLabel
  <2>3. p.branch = Len(code) + 1 /\ e.label = 0
    BY DEF line, Instr
  <2>. HIDE DEF other, label, e, p
  <2>4. TablesInv' /\ TablesGrow
    BY <2>1, <2>2, GrowTable DEF IInv
  <2>5. Extends(code, code)
    BY <1>0 DEF Extends
  <2>d. DifferAt(top.branch, code, patched)
    BY DEF DifferAt
  <2>. HIDE DEF patched
  <2>6. /\ IsSeq(patched) /\ Len(patched) = Len(code) /\ patched[1] = code[1]
        /\ OpenBranches(Front(open), patched)
        /\ \A i \in DOMAIN code : code[i].label # 0 => patched[i].label = code[i].label
    BY <1>0, <2>1, <2>5, <2>d, PatchTop DEF IInv, CodeInv
  <2>7. /\ Extends(patched, code') /\ Len(code') = Len(code) + 1
        /\ code'[Len(code) + 1] = e
    BY <2>1, <2>6, AppendExtends
  <2>8. OpenBranches(open', code')
    <3>1. Len(code') > Len(patched) /\ Len(code') >= 2 /\ p.branch = Len(code')
          /\ code'[Len(code')].label = 0
      BY <1>0, <2>3, <2>6, <2>7
    <3>. QED
      BY <2>1, <2>6, <2>7, <3>1, PushBranch
  <2>9. DOMAIN patched = 1..Len(code) /\ DOMAIN code = 1..Len(code)
    BY <1>0, <2>6 DEF IsSeq
  <2>10. \A i \in DOMAIN code : code'[i] = patched[i]
    BY <2>7, <2>9 DEF Extends
  <2>11. code'[1] = code[1]
    BY <1>0, <2>6, <2>9, <2>10
  <2>12. CodeInv'
    BY <1>0, <2>1, <2>7, <2>8, <2>11 DEF IInv, CodeInv, Extends
  <2>13. BranchesKeep
    BY <2>6, <2>10 DEF BranchesKeep
  <2>. QED
    BY <2>4, <2>12, <2>13 DEF IInv
<1>14. ASSUME EndIf PROVE Goal
  <2>. DEFINE top == Last(open)
              out == AddLabel(table, line)
              label == LabelAddress(out)
  <2>1. /\ open # <<>> /\ top.kind # "def"
        /\ code' = [code EXCEPT ![top.branch].label = label]
        /\ tables' = [tables EXCEPT ![current] = out]
        /\ open' = Front(open)
        /\ UNCHANGED <<funcs, current, phase>>
    BY <1>14 DEF EndIf
  <2>2. Extends(table, out)
    BY <1>t, AppendExtends DEF AddLabel
  <2>. HIDE DEF out, label
  <2>3. TablesInv' /\ TablesGrow
    BY <2>1, <2>2, GrowTable DEF IInv
  <2>4. Extends(code, code)
    BY <1>0 DEF Extends
  <2>5. DifferAt(top.branch, code, code')
    BY <2>1 DEF DifferAt
  <2>6. CodeInv' /\ BranchesKeep
    BY <2>1, <2>4, <2>5, PatchStep
  <2>. QED
    BY <2>3, <2>6 DEF IInv
<1>15. CASE UNCHANGED vars
  <2>1. TablesInv' /\ TablesGrow
    BY <1>15, SameTables DEF vars, IInv
  <2>. QED
    BY <1>15, <2>1 DEF vars, IInv, CodeInv, BranchesKeep
<1>. QED
  BY <1>1, <1>2, <1>3, <1>4, <1>5, <1>6, <1>7, <1>8, <1>9, <1>11, <1>12, <1>13, <1>14, <1>15
  DEF Next

\* Branches keep their labels and labels their lines, in every program
\* (ast_to_ir.c fills in the labels of branches when blocks end).
THEOREM LabelsKeep == Spec => LabelsSettled
<1>1. IInv /\ [Next]_vars => IInv' /\ [TablesGrow /\ BranchesKeep]_vars
  BY NextInvariant
<1>2. [TablesGrow /\ BranchesKeep]_vars =>
        [/\ \A s \in States : \A i \in DOMAIN tables[s] : tables'[s][i] = tables[s][i]
         /\ \A i \in DOMAIN code : code[i].label # 0 => code'[i].label = code[i].label]_vars
  BY DEF TablesGrow, BranchesKeep
<1>. QED
  BY <1>1, <1>2, InitInvariant, PTL DEF Spec, LabelsSettled
-----------------------------------------------------------------------------
(* Types. *)

Kinds == {"start", "main", "halt", "assign", "loop", "return", "break", "continue", "update"}
         \cup Opener \cup Closer \cup {"else"}
EntryNames == (Functions \cup {"main", "label"}) \X Nat

Instrs(n, k) == [op : {"plain", "b", "bcond", "br", "halt"}, label : Nat, state : 0..n,
                 src : 1..k]
TableEntries(n) == [name : EntryNames, address : 0..n]
Blocks(n) == [kind : Opener \cup {"else"}, ret : 0..n, branch : 0..n]

Types ==
  /\ source \in Seq(Kinds)
  /\ code \in Seq(Instrs(Len(funcs), Len(source)))
  /\ funcs \in Seq(TableEntries(line))
  /\ \A s \in States : tables[s] \in Seq(TableEntries(line))
  /\ open \in Seq(Blocks(line))
  /\ phase \in {"functions", "main", "done"}

\* More code and more source do not harm.
LEMMA TypesGrow ==
  ASSUME Types, NEW n \in Nat, n >= Len(code)
  PROVE  /\ funcs \in Seq(TableEntries(n))
         /\ \A s \in States : tables[s] \in Seq(TableEntries(n))
         /\ open \in Seq(Blocks(n))
         /\ \A m, k \in Nat : m >= Len(funcs) /\ k >= Len(source) => code \in Seq(Instrs(m, k))
<1>1. Len(code) \in Nat /\ Len(funcs) \in Nat /\ Len(source) \in Nat
  BY DEF Types
<1>2. TableEntries(line) \subseteq TableEntries(n) /\ Blocks(line) \subseteq Blocks(n)
  BY <1>1 DEF TableEntries, Blocks, line
<1>3. \A s \in States : tables[s] \in Seq(TableEntries(n))
  <2>. SUFFICES ASSUME NEW s \in States PROVE tables[s] \in Seq(TableEntries(n))
    OBVIOUS
  <2>1. tables[s] \in Seq(TableEntries(line))
    BY DEF Types
  <2>. QED
    BY <1>2, <2>1, SeqMonotonic
<1>4. funcs \in Seq(TableEntries(n)) /\ open \in Seq(Blocks(n))
  <2>1. funcs \in Seq(TableEntries(line)) /\ open \in Seq(Blocks(line))
    BY DEF Types
  <2>2. funcs \in Seq(TableEntries(n))
    BY <1>2, <2>1, SeqMonotonic
  <2>3. open \in Seq(Blocks(n))
    BY <1>2, <2>1, SeqMonotonic
  <2>. QED
    BY <2>2, <2>3
<1>5. ASSUME NEW m \in Nat, NEW k \in Nat, m >= Len(funcs), k >= Len(source)
      PROVE  code \in Seq(Instrs(m, k))
  <2>1. Instrs(Len(funcs), Len(source)) \subseteq Instrs(m, k)
    BY <1>1, <1>5 DEF Instrs
  <2>2. code \in Seq(Instrs(Len(funcs), Len(source)))
    BY DEF Types
  <2>. QED
    BY <2>1, <2>2, SeqMonotonic
<1>. QED
  BY <1>3, <1>4, <1>5

LEMMA InstrIn ==
  ASSUME NEW op \in {"plain", "b", "bcond", "br", "halt"}, NEW label \in Nat,
         NEW n \in Nat, current \in 0..n, NEW k \in Nat, NEW src \in 1..k
  PROVE  Instr(op, label, src) \in Instrs(n, k)
  BY DEF Instr, Instrs

LEMMA PlainIn ==
  ASSUME NEW m \in Nat, NEW n \in Nat, current \in 0..n, NEW k \in Nat, NEW src \in 1..k
  PROVE  Plain(m, src) \in Seq(Instrs(n, k)) /\ Len(Plain(m, src)) = m
<1>. DEFINE e == Instr("plain", 0, src)
<1>1. e \in Instrs(n, k)
  BY InstrIn
<1>2. Plain(m, src) = [j \in 1..m |-> e]
  BY DEF Plain
<1>. HIDE DEF e
<1>. QED
  BY <1>1, <1>2

\* A label's number is that of its entry.
LEMMA Labelled ==
  ASSUME NEW n \in Nat, NEW t \in Seq(TableEntries(n)), NEW address \in 0..n,
         NEW u, u = AddLabel(t, address)
  PROVE  /\ u \in Seq(TableEntries(n))
         /\ Len(u) = Len(t) + 1 /\ DOMAIN u = 1 .. Len(t) + 1
         /\ \A i \in 1 .. Len(t) : u[i] = t[i]
         /\ u[Len(t) + 1].name = <<"label", Len(t)>> /\ u[Len(t) + 1].address = address
         /\ LabelAddress(u) = Len(t)
<1>. DEFINE e == [name |-> <<"label", Len(t)>>, address |-> address]
<1>1. e \in TableEntries(n) /\ e.name = <<"label", Len(t)>> /\ e.address = address
  BY DEF TableEntries, EntryNames
<1>2. u = Append(t, e)
  BY DEF AddLabel
<1>. HIDE DEF e
<1>. QED
  BY <1>1, <1>2 DEF LabelAddress

LEMMA AddedName ==
  ASSUME NEW n \in Nat, NEW t \in Seq(TableEntries(n)), NEW address \in 0..n,
         NEW name \in EntryNames, NEW u, u = AddName(t, address, name)
  PROVE  /\ u \in Seq(TableEntries(n))
         /\ Len(u) = Len(t) + 1 /\ DOMAIN u = 1 .. Len(t) + 1
         /\ \A i \in 1 .. Len(t) : u[i] = t[i]
         /\ u[Len(t) + 1].name = name /\ u[Len(t) + 1].address = address
<1>. DEFINE e == [name |-> name, address |-> address]
<1>1. e \in TableEntries(n) /\ e.name = name /\ e.address = address
  BY DEF TableEntries
<1>2. u = Append(t, e)
  BY DEF AddName
<1>. HIDE DEF e
<1>. QED
  BY <1>1, <1>2

\* get_fun_address finds the first entry of a name that has one.
LEMMA FunFound ==
  ASSUME NEW S, NEW t \in Seq(S), NEW name, NEW k \in DOMAIN t, t[k].name = name
  PROVE  /\ FunAddress(t, name) \in 0 .. Len(t) - 1
         /\ t[FunAddress(t, name) + 1].name = name
<1>. DEFINE P(l) == t[l + 1].name = name /\ \A j \in 0 .. l - 1 : t[j + 1].name # name
            Q == {l \in 0 .. Len(t) - 1 : t[l + 1].name = name}
<1>1. k - 1 \in Q /\ Q \subseteq Nat
  BY DEF Q
<1>2. \E l \in Q : \A j \in Q : l <= j
  <2>. HIDE DEF Q
  <2>. DEFINE R == OpToRel(<, Nat)
  <2>1. IsWellFoundedOn(R, Nat)
    BY NatLessThanWellFounded
  <2>2. \A p, q \in Nat : p < q => <<p, q>> \in R
    BY DEF OpToRel
  <2>. HIDE DEF R
  <2>3. PICK l \in Q : \A j \in Q : ~(<<j, l>> \in R)
    BY <1>1, <2>1, WFMin
  <2>4. ASSUME NEW j \in Q PROVE l <= j
    <3>1. l \in Nat /\ j \in Nat /\ ~(j < l)
      BY <1>1, <2>2, <2>3
    <3>. QED
      BY <3>1
  <2>. QED
    BY <2>4
<1>3. PICK l \in Q : \A j \in Q : l <= j
  BY <1>2
<1>4. l \in 0 .. Len(t) - 1 /\ P(l)
  <2>1. ASSUME NEW j \in 0 .. l - 1 PROVE t[j + 1].name # name
    <3>1. j \in 0 .. Len(t) - 1 /\ ~(l <= j)
      OBVIOUS
    <3>. QED
      BY <1>3, <3>1
  <2>. QED
    BY <2>1
<1>. DEFINE f == CHOOSE x \in 0 .. Len(t) - 1 : P(x)
<1>5. f \in 0 .. Len(t) - 1 /\ P(f)
  BY <1>4
<1>6. FunAddress(t, name) = f
  BY DEF FunAddress
<1>. HIDE DEF f
<1>. QED
  BY <1>5, <1>6

\* What filling in a label leaves as it is.
WithLabel(c, b, label) == [c EXCEPT ![b].label = label]

LEMMA Patched ==
  ASSUME NEW n \in Nat, NEW k \in Nat, NEW c \in Seq(Instrs(n, k)), NEW b, NEW label \in Nat,
         NEW d, d = WithLabel(c, b, label)
  PROVE  /\ d \in Seq(Instrs(n, k)) /\ Len(d) = Len(c) /\ DOMAIN d = DOMAIN c
         /\ \A i \in DOMAIN c :
              /\ d[i].op = c[i].op /\ d[i].state = c[i].state /\ d[i].src = c[i].src
              /\ d[i].label = IF i = b THEN label ELSE c[i].label
<1>1. ASSUME NEW i \in DOMAIN c
      PROVE  d[i] = IF i = b THEN [c[i] EXCEPT !.label = label] ELSE c[i]
  BY DEF WithLabel
<1>2. ASSUME NEW i \in DOMAIN c
      PROVE  /\ d[i] \in Instrs(n, k)
             /\ d[i].op = c[i].op /\ d[i].state = c[i].state /\ d[i].src = c[i].src
             /\ d[i].label = IF i = b THEN label ELSE c[i].label
  <2>1. c[i] \in Instrs(n, k)
    OBVIOUS
  <2>2. CASE i # b
    BY <1>1, <2>1, <2>2
  <2>3. CASE i = b
    <3>1. d[i] = [c[i] EXCEPT !.label = label]
      BY <1>1, <2>3
    <3>. QED
      BY <2>1, <2>3, <3>1 DEF Instrs
  <2>. QED
    BY <2>2, <2>3
<1>3. IsSeq(d) /\ Len(d) = Len(c) /\ DOMAIN d = DOMAIN c
  <2>1. IsSeq(c)
    BY DEF IsSeq
  <2>2. DifferAt(b, c, d)
    BY DEF DifferAt, WithLabel
  <2>. QED
    BY <2>1, <2>2, DifferSeq
<1>4. d \in Seq(Instrs(n, k))
  <2>1. PICK T : d \in Seq(T)
    BY <1>3 DEF IsSeq
  <2>2. \A i \in 1 .. Len(d) : d[i] \in Instrs(n, k)
    BY <1>2, <1>3, <2>1
  <2>. HIDE DEF Instrs
  <2>. QED
    BY <2>1, <2>2
<1>. QED
  BY <1>2, <1>3, <1>4

LEMMA TypesInit == Init => Types
<1>. SUFFICES ASSUME Init PROVE Types
  OBVIOUS
<1>1. source = <<"start">> /\ funcs = <<>> /\ open = <<>> /\ phase = "functions"
      /\ \A s \in States : tables[s] = <<>>
  BY DEF Init
<1>2. code \in Seq(Instrs(0, 1))
  <2>. DEFINE b == [op |-> "b", label |-> 0, state |-> 0, src |-> 1]
  <2>1. code = <<b>> /\ b \in Instrs(0, 1)
    BY DEF Init, Instrs
  <2>. HIDE DEF b
  <2>. QED
    BY <2>1
<1>3. source \in Seq(Kinds) /\ Len(source) = 1
  <2>1. "start" \in Kinds
    BY DEF Kinds
  <2>. QED
    BY <1>1, <2>1
<1>4. Len(funcs) = 0 /\ code \in Seq(Instrs(Len(funcs), Len(source)))
  BY <1>1, <1>2, <1>3
<1>5. \A S : <<>> \in Seq(S)
  OBVIOUS
<1>6. \A s \in States : tables[s] \in Seq(TableEntries(line))
  BY <1>1, <1>5, Zenon
<1>7. funcs \in Seq(TableEntries(line)) /\ open \in Seq(Blocks(line))
  BY <1>1, <1>5, Zenon
<1>. QED
  BY <1>1, <1>3, <1>4, <1>6, <1>7 DEF Types

\* A step that only adds code, and the parts of source it was made for.
LEMMA TypesCode ==
  ASSUME Types, IInv, NEW new \in Seq(Instrs(Len(funcs), Len(source'))), code' = code \o new,
         NEW parts \in Seq(Kinds), source' = source \o parts,
         phase' \in {"functions", "main", "done"}, UNCHANGED <<tables, funcs, open>>
  PROVE  Types'
<1>1. /\ Len(source) \in Nat /\ Len(source') \in Nat /\ Len(source') >= Len(source)
      /\ source' \in Seq(Kinds) /\ Len(funcs) \in Nat
  BY DEF Types
<1>2. code \in Seq(Instrs(Len(funcs), Len(source')))
  <2>1. Len(code) \in Nat /\ Len(code) >= Len(code) /\ Len(funcs) >= Len(funcs)
    BY <1>1 DEF Types
  <2>. QED
    BY <1>1, <2>1, TypesGrow
<1>3. code' \in Seq(Instrs(Len(funcs), Len(source'))) /\ Len(code') >= Len(code)
      /\ Len(code') \in Nat
  <2>. DEFINE S == Instrs(Len(funcs), Len(source'))
  <2>1. code \in Seq(S) /\ new \in Seq(S)
    BY <1>2
  <2>. HIDE DEF S
  <2>2. code' \in Seq(S) /\ Len(code') = Len(code) + Len(new)
    BY <2>1
  <2>. QED
    BY <2>1, <2>2 DEF S
<1>4. /\ funcs \in Seq(TableEntries(Len(code')))
      /\ \A s \in States : tables[s] \in Seq(TableEntries(Len(code')))
      /\ open \in Seq(Blocks(Len(code')))
  BY <1>3, TypesGrow
<1>. QED
  BY <1>1, <1>3, <1>4 DEF Types, line

\* A block that ends: more labels for the current State, a label for a branch.
LEMMA TypesEnd ==
  ASSUME Types, IInv, code' \in Seq(Instrs(Len(funcs), Len(source'))),
         Len(code') >= Len(code),
         NEW parts \in Seq(Kinds), source' = source \o parts,
         NEW t \in Seq(TableEntries(Len(code'))), tables' = [tables EXCEPT ![current] = t],
         open' \in Seq(Blocks(Len(code'))), UNCHANGED <<funcs, phase>>
  PROVE  Types'
<1>0. /\ Len(source) \in Nat /\ Len(source') \in Nat /\ source' \in Seq(Kinds)
      /\ Len(funcs) \in Nat /\ Len(code') \in Nat
  BY DEF Types
<1>1. /\ funcs \in Seq(TableEntries(Len(code')))
      /\ \A s \in States : tables[s] \in Seq(TableEntries(Len(code')))
  BY <1>0, TypesGrow
<1>2. \A s \in States : tables'[s] \in Seq(TableEntries(Len(code')))
  BY <1>1 DEF IInv, TablesInv
<1>. QED
  BY <1>0, <1>1, <1>2 DEF Types, line

\* One more element at the end of two sequences.
LEMMA AppendToConcat ==
  ASSUME NEW S, NEW s \in Seq(S), NEW t \in Seq(S), NEW e \in S
  PROVE  /\ Append(s \o t, e) = s \o Append(t, e)
         /\ s \o t \in Seq(S) /\ Len(s \o t) = Len(s) + Len(t)
         /\ Append(t, e) \in Seq(S) /\ Len(Append(t, e)) = Len(t) + 1
  OBVIOUS

LEMMA TypesNext == IInv /\ Types /\ [Next]_vars => Types'
<1>. SUFFICES ASSUME IInv, Types, [Next]_vars PROVE Types'
  OBVIOUS
<1>0. /\ source \in Seq(Kinds) /\ Len(source) \in Nat
      /\ code \in Seq(Instrs(Len(funcs), Len(source))) /\ Len(code) \in Nat
      /\ funcs \in Seq(TableEntries(line)) /\ Len(funcs) \in Nat
      /\ open \in Seq(Blocks(line)) /\ line = Len(code)
      /\ phase \in {"functions", "main", "done"}
      /\ current \in 0 .. Len(funcs) /\ current \in States /\ 0 \in States
      /\ \A s \in States : tables[s] \in Seq(TableEntries(line))
      /\ tables = [s \in States |-> tables[s]]
      /\ table \in Seq(TableEntries(line)) /\ Len(table) \in Nat
      /\ Here = Len(source) + 1 /\ Here \in Nat /\ Here \in 1..Here
  <2>1. /\ source \in Seq(Kinds) /\ code \in Seq(Instrs(Len(funcs), Len(source)))
        /\ funcs \in Seq(TableEntries(line)) /\ open \in Seq(Blocks(line)) /\ line = Len(code)
        /\ phase \in {"functions", "main", "done"}
        /\ \A s \in States : tables[s] \in Seq(TableEntries(line))
    BY DEF Types, line
  <2>2. /\ current \in 0 .. Len(funcs) /\ current \in States /\ 0 \in States
        /\ tables = [s \in States |-> tables[s]]
    BY ControlFlowAssumption DEF IInv, TablesInv, States, IsSeq
  <2>3. /\ Len(source) \in Nat /\ Len(code) \in Nat /\ Len(funcs) \in Nat
    BY <2>1
  <2>4. Here = Len(source) + 1 /\ Here \in Nat /\ Here \in 1..Here
    BY <2>3 DEF Here
  <2>5. table \in Seq(TableEntries(line)) /\ Len(table) \in Nat
    BY <2>1, <2>2 DEF table
  <2>. QED
    BY <2>1, <2>2, <2>3, <2>4, <2>5
<1>k. {"start", "main", "halt", "assign", "loop", "return", "break", "continue", "update",
       "def", "if", "while", "for", "else", "enddef", "endif", "endloop"} \subseteq Kinds
  BY DEF Kinds, Opener, Closer
<1>c. \A S, T : \A s \in Seq(S) : S \subseteq T => s \in Seq(T)
  BY SeqMonotonic
\* The code that a statement adds: plain instructions, and a branch.
<1>p. ASSUME NEW m \in Nat, NEW k \in Nat, NEW src \in 1..k
      PROVE  Plain(m, src) \in Seq(Instrs(Len(funcs), k)) /\ Len(Plain(m, src)) = m
  BY <1>0, PlainIn
<1>i. ASSUME NEW op \in {"plain", "b", "bcond", "br", "halt"}, NEW label \in Nat,
             NEW k \in Nat, NEW src \in 1..k
      PROVE  Instr(op, label, src) \in Instrs(Len(funcs), k)
  BY <1>0, InstrIn
<1>g. ASSUME NEW k \in Nat, k >= Len(source) PROVE code \in Seq(Instrs(Len(funcs), k))
  <2>1. Instrs(Len(funcs), Len(source)) \subseteq Instrs(Len(funcs), k)
    BY <1>0, <1>g DEF Instrs
  <2>. QED
    BY <1>0, <2>1, SeqMonotonic
<1>q. ASSUME NEW k \in Nat, NEW c \in Seq(Instrs(Len(funcs), k)), NEW b, NEW label \in Nat
      PROVE  /\ WithLabel(c, b, label) \in Seq(Instrs(Len(funcs), k))
             /\ Len(WithLabel(c, b, label)) = Len(c)
  BY <1>0, Patched
<1>h. code \in Seq(Instrs(Len(funcs), Here))
  BY <1>0, <1>g
<1>l. \A name : (\E i \in DOMAIN table : table[i].name = name) => FunAddress(table, name) \in Nat
  <2>. SUFFICES ASSUME NEW name, NEW i \in DOMAIN table, table[i].name = name
                PROVE  FunAddress(table, name) \in Nat
    OBVIOUS
  <2>1. FunAddress(table, name) \in 0 .. Len(table) - 1
    BY <1>0, FunFound
  <2>. QED
    BY <1>0, <2>1
\* One more part of source and some more code.
<1>s. ASSUME NEW kind \in Kinds, source' = Append(source, kind),
             NEW new \in Seq(Instrs(Len(funcs), Here)), code' = code \o new,
             phase' \in {"functions", "main", "done"}, UNCHANGED <<tables, funcs, open>>
      PROVE  Types'
  <2>1. source' = source \o <<kind>> /\ <<kind>> \in Seq(Kinds) /\ Len(source') = Here
    BY <1>0, <1>s
  <2>2. new \in Seq(Instrs(Len(funcs), Len(source')))
    BY <2>1
  <2>. QED
    BY <1>s, <2>1, <2>2, TypesCode
<1>2. ASSUME EndFunction PROVE Types'
  <2>1. source' = Append(source, "enddef") /\ open' = <<>> /\ UNCHANGED <<code, tables, funcs, phase>>
    BY <1>2 DEF EndFunction
  <2>2. source' \in Seq(Kinds) /\ Len(source') = Here
    BY <1>0, <1>k, <2>1
  <2>3. code \in Seq(Instrs(Len(funcs), Len(source')))
    BY <1>h, <2>2
  <2>4. open' \in Seq(Blocks(line))
    BY <2>1
  <2>. QED
    BY <1>0, <2>1, <2>2, <2>3, <2>4 DEF Types, line
<1>4. ASSUME Finish PROVE Types'
  <2>. DEFINE e == Instr("halt", 0, Here)
  <2>1. /\ source' = Append(source, "halt") /\ code' = Append(code, e) /\ phase' = "done"
        /\ UNCHANGED <<tables, funcs, open>>
    BY <1>4 DEF Finish
  <2>2. e \in Instrs(Len(funcs), Here)
    BY <1>0, <1>i
  <2>. HIDE DEF e
  <2>3. <<e>> \in Seq(Instrs(Len(funcs), Here)) /\ code' = code \o <<e>>
    BY <1>0, <2>1, <2>2
  <2>. QED
    BY <1>k, <1>s, <2>1, <2>3
<1>5. ASSUME Assign PROVE Types'
  <2>1. /\ source' = Append(source, "assign") /\ code' = code \o Plain(1, Here)
        /\ UNCHANGED <<tables, funcs, open, phase>>
    BY <1>5 DEF Assign
  <2>2. Plain(1, Here) \in Seq(Instrs(Len(funcs), Here))
    BY <1>0, <1>p
  <2>. QED
    BY <1>0, <1>k, <1>s, <2>1, <2>2
<1>6. ASSUME CallLoop PROVE Types'
  <2>. DEFINE e == Instr("b", FunAddress(table, <<LOOP, 0>>), Here)
              plain == Plain(1, Here + 1)
              S == Instrs(Len(funcs), Len(source'))
  <2>1. /\ source' = source \o <<"loop", "assign">> /\ code' = Append(code, e) \o plain
        /\ \E i \in DOMAIN table : table[i].name = <<LOOP, 0>>
        /\ UNCHANGED <<tables, funcs, open, phase>>
    BY <1>6 DEF CallLoop
  <2>2. <<"loop", "assign">> \in Seq(Kinds) /\ Len(source') = Len(source) + 2
    BY <1>0, <1>k, <2>1
  <2>3. FunAddress(table, <<LOOP, 0>>) \in Nat
    BY <1>l, <2>1
  <2>4. e \in S /\ plain \in Seq(S)
    <3>. DEFINE k == Len(source')
    <3>1. k \in Nat /\ Here \in 1..k /\ Here + 1 \in 1..k /\ 1 \in Nat
      BY <1>0, <2>2
    <3>. HIDE DEF k
    <3>2. Instr("b", FunAddress(table, <<LOOP, 0>>), Here) \in Instrs(Len(funcs), k)
      BY <1>i, <2>3, <3>1
    <3>3. Plain(1, Here + 1) \in Seq(Instrs(Len(funcs), k))
      BY <1>p, <3>1
    <3>. QED
      BY <3>2, <3>3 DEF k
  <2>. HIDE DEF e, plain
  <2>5. <<e>> \o plain \in Seq(S) /\ code' = code \o (<<e>> \o plain)
    <3>1. code \in Seq(S)
      BY <1>0, <1>g, <2>2
    <3>. HIDE DEF S
    <3>2. <<e>> \o plain \in Seq(S) /\ Append(code, e) = code \o <<e>> /\ <<e>> \in Seq(S)
      BY <2>4, <3>1
    <3>3. (code \o <<e>>) \o plain = code \o (<<e>> \o plain)
      BY <2>4, <3>1, <3>2
    <3>. QED
      BY <2>1, <3>2, <3>3
  <2>. HIDE DEF S
  <2>6. phase' \in {"functions", "main", "done"} /\ UNCHANGED <<tables, funcs, open>>
    BY <1>0, <2>1
  <2>. QED
    BY <2>1, <2>2, <2>5, <2>6, TypesCode DEF S
<1>7. ASSUME ReturnLoop PROVE Types'
  <2>. DEFINE e == Instr("b", FunAddress(table, <<LOOP, 0>>), Here)
  <2>1. /\ source' = Append(source, "loop") /\ code' = Append(code, e)
        /\ \E i \in DOMAIN table : table[i].name = <<LOOP, 0>>
        /\ UNCHANGED <<tables, funcs, open, phase>>
    BY <1>7 DEF ReturnLoop
  <2>2. e \in Instrs(Len(funcs), Here)
    BY <1>0, <1>i, <1>l, <2>1
  <2>. HIDE DEF e
  <2>3. <<e>> \in Seq(Instrs(Len(funcs), Here)) /\ code' = code \o <<e>>
    BY <1>0, <2>1, <2>2
  <2>. QED
    BY <1>0, <1>k, <1>s, <2>1, <2>3
<1>8. ASSUME Return PROVE Types'
  <2>. DEFINE e == Instr("br", 0, Here)
              plain == Plain(1, Here)
              S == Instrs(Len(funcs), Here)
  <2>1. /\ source' = Append(source, "return") /\ code' = Append(code \o plain, e)
        /\ UNCHANGED <<tables, funcs, open, phase>>
    BY <1>8 DEF Return
  <2>2. e \in S /\ plain \in Seq(S)
    BY <1>0, <1>i, <1>p
  <2>3. code \in Seq(S)
    BY <1>h
  <2>. HIDE DEF e, plain, S
  <2>4. Append(plain, e) \in Seq(S) /\ code' = code \o Append(plain, e)
    BY <2>1, <2>2, <2>3, AppendToConcat
  <2>. QED
    BY <1>0, <1>k, <1>s, <2>1, <2>4 DEF S
<1>9. ASSUME NEW kind \in {"break", "continue"}, Flow(kind) PROVE Types'
  <2>. DEFINE e == Instr("b", 0, Here)
  <2>1. /\ source' = Append(source, kind) /\ code' = Append(code, e)
        /\ UNCHANGED <<tables, funcs, open, phase>>
    BY <1>9 DEF Flow
  <2>2. e \in Instrs(Len(funcs), Here)
    BY <1>0, <1>i
  <2>. HIDE DEF e
  <2>3. <<e>> \in Seq(Instrs(Len(funcs), Here)) /\ code' = code \o <<e>>
    BY <1>0, <2>1, <2>2
  <2>. QED
    BY <1>0, <1>k, <1>s, <2>1, <2>3
<1>1. ASSUME NEW name \in Functions, FunctionDef(name) PROVE Types'
  <2>. DEFINE f == AddName(funcs, line, <<name, 0>>)
              t == AddName(tables[0], line, <<name, 0>>)
              p == [kind |-> "def", ret |-> 0, branch |-> 0]
  <2>1. /\ funcs' = f /\ current' = Len(f) /\ source' = Append(source, "def")
        /\ tables' = [tables EXCEPT ![0] = t, ![current'] = f]
        /\ open' = <<p>> /\ UNCHANGED <<code, phase>>
    BY <1>1 DEF FunctionDef
  <2>2. <<name, 0>> \in EntryNames /\ line \in 0 .. line /\ line \in Nat
    BY <1>0 DEF EntryNames
  <2>3. f \in Seq(TableEntries(line)) /\ Len(f) = Len(funcs) + 1
    BY <1>0, <2>2, AddedName
  <2>4. t \in Seq(TableEntries(line))
    BY <1>0, <2>2, AddedName
  <2>5. p \in Blocks(line)
    BY <1>0 DEF Blocks, Opener
  <2>. HIDE DEF f, t, p
  <2>6. source' \in Seq(Kinds) /\ Len(source') = Here
    BY <1>0, <1>k, <2>1
  <2>7. code \in Seq(Instrs(Len(f), Len(source')))
    <3>1. Instrs(Len(funcs), Len(source)) \subseteq Instrs(Len(f), Len(source'))
      BY <1>0, <2>3, <2>6 DEF Instrs
    <3>. QED
      BY <1>0, <3>1, SeqMonotonic
  <2>8. open' \in Seq(Blocks(line))
    BY <2>1, <2>5
  <2>9. \A s \in States : tables'[s] \in Seq(TableEntries(line))
    <3>1. \A s \in States : tables'[s] \in {t, f, tables[s]}
      BY <1>0, <2>1
    <3>. QED
      BY <1>0, <2>3, <2>4, <3>1
  <2>. QED
    BY <1>0, <2>1, <2>3, <2>6, <2>7, <2>8, <2>9 DEF Types, line
<1>3. ASSUME StartMain PROVE Types'
  <2>. DEFINE t == AddName(tables[0], line, MAIN)
              label == LabelAddress(tables'[0])
              c == WithLabel(code, 1, label)
              e == Instr("plain", 0, Here)
              n == Len(code')
  <2>1. /\ tables' = [tables EXCEPT ![0] = t] /\ code' = Append(c, e) /\ phase' = "main"
        /\ source' = Append(source, "main") /\ UNCHANGED <<funcs, current, open>>
    BY <1>3 DEF StartMain, WithLabel
  <2>2. MAIN \in EntryNames /\ line \in 0 .. line /\ line \in Nat
    BY <1>0 DEF EntryNames, MAIN
  <2>3. t \in Seq(TableEntries(line)) /\ Len(t) = Len(tables[0]) + 1 /\ Len(tables[0]) \in Nat
    <3>1. tables[0] \in Seq(TableEntries(line))
      BY <1>0
    <3>2. Len(tables[0]) \in Nat
      BY <3>1
    <3>. QED
      BY <2>2, <3>1, <3>2, AddedName
  <2>. HIDE DEF t
  <2>4. label \in Nat
    BY <1>0, <2>1, <2>3 DEF LabelAddress
  <2>. HIDE DEF label
  <2>5. source' \in Seq(Kinds) /\ Len(source') = Here
    BY <1>0, <1>k, <2>1
  <2>6. code \in Seq(Instrs(Len(funcs), Len(source')))
    BY <1>h, <2>5
  <2>7. c \in Seq(Instrs(Len(funcs), Len(source'))) /\ Len(c) = Len(code)
    <3>1. c = WithLabel(code, 1, label)
      OBVIOUS
    <3>. HIDE DEF c
    <3>2. Len(source') \in Nat
      BY <1>0, <2>5
    <3>. QED
      BY <1>q, <2>4, <2>6, <3>1, <3>2
  <2>8. e \in Instrs(Len(funcs), Len(source'))
    BY <1>0, <1>i, <2>5
  <2>. HIDE DEF c, e
  <2>9. code' \in Seq(Instrs(Len(funcs), Len(source'))) /\ n = Len(code) + 1
    BY <2>1, <2>7, <2>8
  <2>. HIDE DEF n
  <2>10. n \in Nat /\ n >= Len(code)
    BY <1>0, <2>9
  <2>11. /\ funcs \in Seq(TableEntries(n)) /\ open \in Seq(Blocks(n))
         /\ \A s \in States : tables[s] \in Seq(TableEntries(n))
    BY <2>10, TypesGrow
  <2>12. t \in Seq(TableEntries(n))
    <3>1. TableEntries(line) \subseteq TableEntries(n)
      BY <1>0, <2>10 DEF TableEntries
    <3>. QED
      BY <2>3, <3>1, SeqMonotonic
  <2>13. \A s \in States : tables'[s] \in Seq(TableEntries(n))
    BY <1>0, <2>1, <2>11, <2>12
  <2>. QED
    BY <1>0, <2>1, <2>5, <2>9, <2>11, <2>13 DEF Types, line, n
<1>10. ASSUME NEW kind \in Opener, NEW n \in EvalLines, NEW before \in Seq(Kinds),
              OpenBlock(kind, n, before)
       PROVE  Types'
  <2>. DEFINE k == Len(source) + Len(before) + 1
              S == Instrs(Len(funcs), k)
              first == Plain(Len(before), Here)
              plain == Plain(n + 1, Here + Len(before))
              e == Instr("bcond", 0, Here + Len(before))
              p == [kind |-> kind, ret |-> line + Len(before), branch |-> Len(code')]
  <2>1. /\ code' = code \o first \o Append(plain, e)
        /\ open' = Append(open, p) /\ source' = Append(source \o before, kind)
        /\ UNCHANGED <<tables, funcs, current, phase>>
    BY <1>10 DEF OpenBlock, Condition
  <2>2. Len(before) \in Nat /\ k \in Nat /\ n + 1 \in Nat /\ n \in Nat /\ k >= Len(source)
    BY <1>0, ControlFlowAssumption
  <2>3. source' \in Seq(Kinds) /\ Len(source') = k
    BY <1>0, <1>k, <2>1 DEF Opener
  <2>4. e \in S /\ plain \in Seq(S) /\ Len(plain) = n + 1
    <3>1. Here + Len(before) \in 1..k
      BY <1>0, <2>2
    <3>. HIDE DEF k
    <3>2. plain \in Seq(Instrs(Len(funcs), k)) /\ Len(plain) = n + 1
      BY <1>p, <2>2, <3>1
    <3>3. e \in Instrs(Len(funcs), k)
      BY <1>i, <2>2, <3>1
    <3>. QED
      BY <3>2, <3>3
  <2>5. first \in Seq(S) /\ Len(first) = Len(before)
    <3>1. CASE before = <<>>
      <4>1. Len(before) = 0 /\ first = <<>>
        BY <3>1 DEF Plain
      <4>. HIDE DEF first, S
      <4>. QED
        BY <4>1, EmptySeq
    <3>2. CASE before # <<>>
      <4>1. Here \in 1..k
        BY <1>0, <2>2, <3>2
      <4>. QED
        BY <1>p, <2>2, <4>1
    <3>. QED
      BY <3>1, <3>2
  <2>6. code \in Seq(S)
    BY <1>g, <2>2
  <2>. HIDE DEF first, plain, e, S, k
  <2>7. /\ code' \in Seq(S) /\ Len(code') = Len(code) + Len(before) + n + 2
    <3>1. Append(plain, e) \in Seq(S) /\ Len(Append(plain, e)) = n + 2
      BY <2>2, <2>4
    <3>2. code \o first \in Seq(S) /\ Len(code \o first) = Len(code) + Len(before)
      BY <2>5, <2>6
    <3>3. code' \in Seq(S) /\ Len(code') = Len(code \o first) + Len(Append(plain, e))
      BY <2>1, <3>1, <3>2, ConcatProperties
    <3>4. Len(code) \in Nat /\ Len(before) \in Nat /\ n \in Nat
      BY <1>0, <2>2
    <3>5. Len(code') = Len(code) + Len(before) + n + 2
      BY <3>1, <3>2, <3>3, <3>4
    <3>. QED
      BY <3>3, <3>5
  <2>8. p \in Blocks(Len(code'))
    <3>1. line + Len(before) \in 0 .. Len(code') /\ Len(code') \in 0 .. Len(code')
      BY <1>0, <2>2, <2>7
    <3>. QED
      BY <3>1 DEF Blocks
  <2>. HIDE DEF p
  <2>9. /\ funcs \in Seq(TableEntries(Len(code'))) /\ open \in Seq(Blocks(Len(code')))
        /\ \A s \in States : tables[s] \in Seq(TableEntries(Len(code')))
    <3>1. Len(code') \in Nat /\ Len(code') >= Len(code)
      BY <1>0, <2>2, <2>7
    <3>. QED
      BY <3>1, TypesGrow
  <2>10. open' \in Seq(Blocks(Len(code')))
    BY <2>1, <2>8, <2>9
  <2>. QED
    BY <1>0, <2>1, <2>3, <2>7, <2>9, <2>10 DEF Types, line, S
<1>11. ASSUME NEW n \in EvalLines, For(n) \/ While(n) \/ If(n) PROVE Types'
  <2>1. <<>> \in Seq(Kinds) /\ <<"assign">> \in Seq(Kinds)
    BY <1>k
  <2>2. {"for", "while", "if"} \subseteq Opener
    BY DEF Opener
  <2>. QED
    BY <1>10, <1>11, <2>1, <2>2 DEF For, While, If
<1>12. ASSUME EndLoop PROVE Types'
  <2>. DEFINE top == Last(open)
              updated == IF top.kind = "for" THEN <<"update">> ELSE <<>>
              back == AddLabel(table, top.ret)
              k == Len(source) + Len(updated) + 1
              S == Instrs(Len(funcs), k)
              plain == Plain(Len(updated), Here)
              e == Instr("b", LabelAddress(back), Here + Len(updated))
              looped == Append(code \o plain, e)
              out == AddLabel(back, Len(looped))
              label == LabelAddress(out)
  <2>1. /\ open # <<>>
        /\ code' = WithLabel(looped, top.branch, label)
        /\ tables' = [tables EXCEPT ![current] = out]
        /\ open' = Front(open) /\ source' = Append(source \o updated, "endloop")
        /\ UNCHANGED <<funcs, current, phase>>
    BY <1>12 DEF EndLoop, WithLabel
  <2>2. updated \in Seq(Kinds) /\ Len(updated) \in {0, 1} /\ (Len(updated) = 0 => updated = <<>>)
    BY <1>k
  <2>. HIDE DEF updated
  <2>3. k \in Nat /\ k >= Len(source) /\ source' \in Seq(Kinds) /\ Len(source') = k
        /\ Append(updated, "endloop") \in Seq(Kinds)
        /\ source' = source \o Append(updated, "endloop")
    <3>1. "endloop" \in Kinds
      BY <1>k
    <3>2. source \o updated \in Seq(Kinds) /\ Len(source \o updated) = Len(source) + Len(updated)
      BY <1>0, <2>2, ConcatProperties
    <3>3. source' = source \o Append(updated, "endloop") /\ Append(updated, "endloop") \in Seq(Kinds)
      <4>1. source \in Seq(Kinds)
        BY <1>0
      <4>2. /\ Append(source \o updated, "endloop") = source \o Append(updated, "endloop")
            /\ Append(updated, "endloop") \in Seq(Kinds)
        <5>1. updated \in Seq(Kinds) /\ "endloop" \in Kinds
          BY <2>2, <3>1
        <5>. DEFINE last == "endloop"
        <5>2. last \in Kinds
          BY <5>1
        <5>. HIDE DEF last
        <5>3. Append(source \o updated, last) = source \o Append(updated, last)
              /\ Append(updated, last) \in Seq(Kinds)
          BY <4>1, <5>1, <5>2
        <5>. QED
          BY <5>3 DEF last
      <4>. QED
        BY <2>1, <4>2
    <3>4. source' \in Seq(Kinds) /\ Len(source') = k
      BY <2>1, <3>1, <3>2
    <3>. QED
      BY <1>0, <2>2, <3>3, <3>4
  <2>4. top \in Blocks(line) /\ Front(open) \in Seq(Blocks(line))
    BY <1>0, <2>1 DEF Last, Front
  <2>. HIDE DEF top
  <2>5. top.ret \in 0 .. line
    BY <2>4 DEF Blocks
  <2>6. back \in Seq(TableEntries(line)) /\ LabelAddress(back) \in Nat
    <3>1. line \in Nat /\ back = AddLabel(table, top.ret)
      BY <1>0
    <3>. HIDE DEF back
    <3>. QED
      BY <1>0, <2>5, <3>1, Labelled
  <2>. HIDE DEF back
  <2>7. e \in S
    <3>1. Here + Len(updated) \in 1..k
      BY <1>0, <2>2
    <3>. HIDE DEF k
    <3>. QED
      BY <1>i, <2>3, <2>6, <3>1
  <2>8. plain \in Seq(S) /\ Len(plain) = Len(updated)
    <3>1. CASE Len(updated) = 0
      <4>1. plain = <<>>
        BY <3>1 DEF Plain
      <4>. HIDE DEF plain, S
      <4>. QED
        BY <3>1, <4>1, EmptySeq
    <3>2. CASE Len(updated) = 1
      <4>1. Here \in 1..k /\ Len(updated) \in Nat
        BY <1>0, <3>2
      <4>. QED
        BY <1>p, <2>3, <4>1
    <3>. QED
      BY <2>2, <3>1, <3>2
  <2>9. code \in Seq(S)
    BY <1>g, <2>3
  <2>. HIDE DEF e, plain
  <2>10. looped \in Seq(S) /\ Len(looped) = Len(code) + Len(updated) + 1
    <3>. HIDE DEF S
    <3>. QED
      BY <2>7, <2>8, <2>9
  <2>. HIDE DEF looped
  <2>11. Len(looped) \in Nat /\ Len(looped) >= line
    BY <1>0, <2>2, <2>10
  <2>12. back \in Seq(TableEntries(Len(looped)))
    <3>1. TableEntries(line) \subseteq TableEntries(Len(looped))
      BY <1>0, <2>11 DEF TableEntries
    <3>. QED
      BY <2>6, <3>1, SeqMonotonic
  <2>13. out \in Seq(TableEntries(Len(looped))) /\ label \in Nat
    <3>1. Len(looped) \in 0 .. Len(looped) /\ Len(back) \in Nat
      BY <2>11, <2>12
    <3>. QED
      BY <2>11, <2>12, <3>1, Labelled
  <2>. HIDE DEF out, label
  <2>14. code' \in Seq(S) /\ Len(code') = Len(looped)
    <3>1. code' \in Seq(Instrs(Len(funcs), k)) /\ Len(code') = Len(looped)
      BY <1>q, <2>1, <2>3, <2>10, <2>13
    <3>. QED
      BY <3>1
  <2>15. open' \in Seq(Blocks(Len(code')))
    <3>1. Blocks(line) \subseteq Blocks(Len(code'))
      BY <1>0, <2>11, <2>14 DEF Blocks
    <3>. QED
      BY <2>1, <2>4, <3>1, SeqMonotonic
  <2>16. code' \in Seq(Instrs(Len(funcs), Len(source'))) /\ Len(code') >= Len(code)
    BY <1>0, <2>3, <2>11, <2>14
  <2>17. out \in Seq(TableEntries(Len(code')))
    BY <2>13, <2>14
  <2>. QED
    BY <2>1, <2>3, <2>15, <2>16, <2>17, TypesEnd
<1>13. ASSUME Else PROVE Types'
  <2>. DEFINE top == Last(open)
              other == AddLabel(table, line + 1)
              label == LabelAddress(other)
              patched == WithLabel(code, top.branch, label)
              S == Instrs(Len(funcs), Here)
              e == Instr("b", 0, Here)
              p == [kind |-> "else", ret |-> 0, branch |-> line + 1]
              n == line + 1
  <2>1. /\ open # <<>> /\ code' = Append(patched, e)
        /\ tables' = [tables EXCEPT ![current] = other]
        /\ open' = Append(Front(open), p) /\ source' = Append(source, "else")
        /\ UNCHANGED <<funcs, current, phase>>
    BY <1>13 DEF Else, WithLabel
  <2>2. n \in Nat /\ n >= Len(code) /\ n \in 0 .. n /\ TableEntries(line) \subseteq TableEntries(n)
        /\ Blocks(line) \subseteq Blocks(n)
    BY <1>0 DEF TableEntries, Blocks
  <2>3. table \in Seq(TableEntries(n))
    BY <1>0, <2>2, SeqMonotonic
  <2>4. other \in Seq(TableEntries(n)) /\ label \in Nat
    <3>1. Len(table) \in Nat
      BY <2>3
    <3>. QED
      BY <2>2, <2>3, <3>1, Labelled
  <2>. HIDE DEF other, label
  <2>5. code \in Seq(S)
    BY <1>h
  <2>6. patched \in Seq(S) /\ Len(patched) = Len(code)
    <3>1. patched = WithLabel(code, top.branch, label)
      OBVIOUS
    <3>. HIDE DEF patched, top
    <3>2. code \in Seq(Instrs(Len(funcs), Here)) /\ Here \in Nat
      BY <1>0, <1>h
    <3>3. patched \in Seq(Instrs(Len(funcs), Here)) /\ Len(patched) = Len(code)
      BY <1>q, <2>4, <3>1, <3>2
    <3>. QED
      BY <3>3
  <2>7. e \in S
    BY <1>0, <1>i
  <2>8. p \in Blocks(n)
    BY <2>2 DEF Blocks
  <2>. HIDE DEF patched, e, p
  <2>9. Front(open) \in Seq(Blocks(n))
    <3>1. Front(open) \in Seq(Blocks(line))
      BY <1>0, <2>1 DEF Front
    <3>. QED
      BY <2>2, <3>1, SeqMonotonic
  <2>10. open' \in Seq(Blocks(n))
    BY <2>1, <2>8, <2>9
  <2>11. code' \in Seq(S) /\ Len(code') = n
    <3>. HIDE DEF S
    <3>. QED
      BY <1>0, <2>1, <2>6, <2>7
  <2>12. /\ <<"else">> \in Seq(Kinds) /\ source' = source \o <<"else">>
         /\ Len(source') = Here
    BY <1>0, <1>k, <2>1
  <2>. QED
    BY <1>0, <2>1, <2>2, <2>4, <2>10, <2>11, <2>12, TypesEnd
<1>14. ASSUME EndIf PROVE Types'
  <2>. DEFINE top == Last(open)
              out == AddLabel(table, line)
              label == LabelAddress(out)
              S == Instrs(Len(funcs), Here)
  <2>1. /\ open # <<>> /\ code' = WithLabel(code, top.branch, label)
        /\ tables' = [tables EXCEPT ![current] = out]
        /\ open' = Front(open) /\ source' = Append(source, "endif")
        /\ UNCHANGED <<funcs, current, phase>>
    BY <1>14 DEF EndIf, WithLabel
  <2>2. out \in Seq(TableEntries(line)) /\ label \in Nat
    <3>1. Len(table) \in Nat /\ line \in 0 .. line /\ line \in Nat
      BY <1>0
    <3>. QED
      BY <1>0, <3>1, Labelled
  <2>. HIDE DEF out, label
  <2>3. code \in Seq(S)
    BY <1>h
  <2>4. code' \in Seq(S) /\ Len(code') = Len(code)
    <3>. HIDE DEF top
    <3>1. code \in Seq(Instrs(Len(funcs), Here)) /\ Here \in Nat
      BY <1>0, <1>h
    <3>2. code' \in Seq(Instrs(Len(funcs), Here)) /\ Len(code') = Len(code)
      BY <1>q, <2>1, <2>2, <3>1
    <3>. QED
      BY <3>2
  <2>5. open' \in Seq(Blocks(line))
    <3>1. Front(open) \in Seq(Blocks(line))
      BY <1>0, <2>1 DEF Front
    <3>. QED
      BY <2>1, <3>1
  <2>6. /\ <<"endif">> \in Seq(Kinds) /\ source' = source \o <<"endif">>
        /\ Len(source') = Here
    BY <1>0, <1>k, <2>1
  <2>. QED
    <3>1. code' \in Seq(Instrs(Len(funcs), Len(source'))) /\ Len(code') >= Len(code)
      BY <1>0, <2>4, <2>6
    <3>2. out \in Seq(TableEntries(Len(code'))) /\ open' \in Seq(Blocks(Len(code')))
      BY <1>0, <2>2, <2>4, <2>5
    <3>. QED
      BY <2>1, <2>6, <3>1, <3>2, TypesEnd
<1>15. CASE UNCHANGED vars
  BY <1>15 DEF vars, Types, line
<1>. QED
  BY <1>1, <1>2, <1>3, <1>4, <1>5, <1>6, <1>7, <1>8, <1>9, <1>11, <1>12, <1>13, <1>14, <1>15
  DEF Next

\* Whatever the program: labels and blocks point into the code made so far, and
\* every instruction belongs to a State and a part of the source that exist.
THEOREM TypeCorrect == Spec => []TypeOK
<1>1. IInv /\ Types => TypeOK
  <2>. SUFFICES ASSUME IInv, Types PROVE TypeOK
    OBVIOUS
  <2>1. code \in Seq([op : {"plain", "b", "bcond", "br", "halt"}, label : Nat,
                      state : 0 .. Len(funcs), src : DOMAIN source])
    <3>1. DOMAIN source = 1 .. Len(source)
      BY DEF Types
    <3>. QED
      BY <3>1 DEF Types, Instrs
  <2>2. ASSUME NEW s \in States, NEW i \in DOMAIN tables[s] PROVE tables[s][i].address \in 0..line
    <3>1. tables[s][i] \in TableEntries(line)
      BY <2>2 DEF Types
    <3>. QED
      BY <3>1 DEF TableEntries
  <2>3. ASSUME NEW i \in DOMAIN open PROVE open[i].ret \in 0..line /\ open[i].branch \in 0..line
    <3>1. open[i] \in Blocks(line)
      BY <2>3 DEF Types
    <3>. QED
      BY <3>1 DEF Blocks
  <2>. QED
    BY <2>1, <2>2, <2>3 DEF TypeOK, Types, IInv, TablesInv
<1>2. Spec => []IInv
  BY InitInvariant, NextInvariant, PTL DEF Spec
<1>. QED
  BY <1>1, <1>2, TypesInit, TypesNext, PTL DEF Spec
\* Where the entries of a State of its own begin: those of a function with the
\* function itself, those of main with MAIN.
Begin(s) == IF s = 0 THEN Len(funcs) + 1 ELSE s
Made == {s \in 0 .. Len(funcs) : s # 0 \/ phase # "functions"}
IsLabel(t, k) == t[k].name = <<"label", k - 1>>

Entry(s) == tables[s][Begin(s)].address

FunctionNames ==
  /\ \A k \in 1 .. Len(funcs) : \E name \in Functions : funcs[k].name = <<name, 0>>
  /\ \A j, k \in 1 .. Len(funcs) : j < k => /\ funcs[j].name # funcs[k].name
                                            /\ funcs[j].address < funcs[k].address
FunctionEntries ==
  /\ \A s \in 1 .. Len(funcs) : \A k \in 1..s : tables[s][k] = funcs[k]
  /\ \A k \in 1 .. Len(funcs) : tables[0][k] = funcs[k]
OwnEntries ==
  /\ Len(tables[0]) >= Len(funcs)
  /\ phase = "functions" => Len(tables[0]) = Len(funcs)
  /\ \A s \in Made : Len(tables[s]) >= Begin(s)
OwnLabels ==
  \A s \in Made : \A k \in Begin(s) + 1 .. Len(tables[s]) :
    IsLabel(tables[s], k) /\ tables[s][k].address >= Entry(s)
MainEntry ==
  phase # "functions" => /\ tables[0][Len(funcs) + 1].name = MAIN
                         /\ \A k \in 1 .. Len(funcs) :
                              funcs[k].address < tables[0][Len(funcs) + 1].address
NamesInv == FunctionNames /\ FunctionEntries /\ OwnEntries /\ OwnLabels /\ MainEntry

BlocksInv ==
  /\ phase = "functions" /\ current = 0 => open = <<>>
  /\ current # 0 => phase = "functions" /\ open # <<>> /\ open[1].kind = "def"
  /\ \A j \in DOMAIN open : open[j].kind = "def" => j = 1 /\ open[j].branch = 0
  /\ \A j \in DOMAIN open : open[j].kind \in {"for", "while"} =>
       open[j].ret >= Entry(current)
  /\ Len(source) > 0
  /\ Last(source) = "def" => open # <<>> /\ Last(open).kind = "def"
  /\ Last(source) # "def" => \A k \in 1 .. Len(funcs) : funcs[k].address < line
  /\ phase = "done" => open = <<>> /\ \A k \in DOMAIN tables[0] : tables[0][k].address < line

Aimed(i) == code[i].label + 1 \in DOMAIN tables[code[i].state]
AimInv ==
  /\ code[1].state = 0
  /\ \A i \in Branches : \/ i = 1 /\ phase = "functions"
                         \/ \E j \in DOMAIN open : open[j].branch = i
                         \/ Aimed(i)
  /\ \A j \in DOMAIN open : open[j].kind # "def" => code[open[j].branch].state = current

\* What types say of the tables.
LEMMA Shapes ==
  ASSUME IInv, Types
  PROVE  /\ Len(funcs) \in Nat /\ DOMAIN funcs = 1 .. Len(funcs) /\ Len(code) \in Nat
         /\ line = Len(code) /\ Len(code) >= 1 /\ DOMAIN code = 1 .. Len(code)
         /\ Len(source) \in Nat /\ DOMAIN source = 1 .. Len(source)
         /\ Len(open) \in Nat /\ DOMAIN open = 1 .. Len(open)
         /\ 0 .. Len(funcs) \subseteq States /\ current \in 0 .. Len(funcs)
         /\ \A s \in 0 .. Len(funcs) :
              /\ tables[s] \in Seq(TableEntries(line))
              /\ Len(tables[s]) \in Nat /\ DOMAIN tables[s] = 1 .. Len(tables[s])
              /\ \A k \in 1 .. Len(tables[s]) : tables[s][k].address \in 0..line
         /\ \A k \in 1 .. Len(funcs) : funcs[k].address \in 0..line
         /\ \A i \in 1 .. Len(code) : /\ code[i].label \in Nat /\ code[i].state \in 0 .. Len(funcs)
                                      /\ code[i].src \in 1 .. Len(source)
         /\ \A j \in 1 .. Len(open) : open[j].ret \in 0..line /\ open[j].branch \in 0..line
<1>1. /\ Len(funcs) \in Nat /\ DOMAIN funcs = 1 .. Len(funcs) /\ Len(code) \in Nat
      /\ line = Len(code) /\ DOMAIN code = 1 .. Len(code)
      /\ Len(source) \in Nat /\ DOMAIN source = 1 .. Len(source)
      /\ Len(open) \in Nat /\ DOMAIN open = 1 .. Len(open)
  BY DEF Types, line
<1>2. 0 .. Len(funcs) \subseteq States /\ current \in 0 .. Len(funcs) /\ Len(code) >= 1
  BY <1>1, ControlFlowAssumption DEF IInv, CodeInv, TablesInv, States
<1>3. ASSUME NEW s \in 0 .. Len(funcs)
      PROVE  /\ tables[s] \in Seq(TableEntries(line))
             /\ Len(tables[s]) \in Nat /\ DOMAIN tables[s] = 1 .. Len(tables[s])
             /\ \A k \in 1 .. Len(tables[s]) : tables[s][k].address \in 0..line
  <2>1. tables[s] \in Seq(TableEntries(line))
    BY <1>2 DEF Types
  <2>2. Len(tables[s]) \in Nat /\ DOMAIN tables[s] = 1 .. Len(tables[s])
    BY <2>1
  <2>3. ASSUME NEW k \in 1 .. Len(tables[s]) PROVE tables[s][k].address \in 0..line
    <3>1. tables[s][k] \in TableEntries(line)
      BY <2>1
    <3>. QED
      BY <3>1 DEF TableEntries
  <2>. QED
    BY <2>1, <2>2, <2>3
<1>4. ASSUME NEW k \in 1 .. Len(funcs) PROVE funcs[k].address \in 0..line
  <2>1. funcs[k] \in TableEntries(line)
    BY DEF Types
  <2>. QED
    BY <2>1 DEF TableEntries
<1>5. ASSUME NEW i \in 1 .. Len(code)
      PROVE  /\ code[i].label \in Nat /\ code[i].state \in 0 .. Len(funcs)
             /\ code[i].src \in 1 .. Len(source)
  <2>1. code[i] \in Instrs(Len(funcs), Len(source))
    BY DEF Types
  <2>. QED
    BY <2>1 DEF Instrs
<1>6. ASSUME NEW j \in 1 .. Len(open) PROVE open[j].ret \in 0..line /\ open[j].branch \in 0..line
  <2>1. open[j] \in Blocks(line)
    BY DEF Types
  <2>. QED
    BY <2>1 DEF Blocks
<1>. QED
  BY <1>1, <1>2, <1>3, <1>4, <1>5, <1>6
-----------------------------------------------------------------------------
(* The names. *)

LEMMA NamesSame ==
  ASSUME NamesInv, UNCHANGED <<tables, funcs>>, (phase' = "functions") <=> (phase = "functions")
  PROVE  NamesInv' /\ Made' = Made /\ \A s : Begin(s)' = Begin(s) /\ Entry(s)' = Entry(s)
<1>1. /\ Made' = Made /\ funcs' = funcs /\ tables' = tables
      /\ \A s : Begin(s)' = Begin(s) /\ Entry(s)' = Entry(s)
  BY DEF Made, Begin, Entry
<1>2. FunctionNames' /\ FunctionEntries'
  BY <1>1 DEF NamesInv, FunctionNames, FunctionEntries
<1>3. OwnEntries'
  BY <1>1 DEF NamesInv, OwnEntries
<1>4. OwnLabels'
  BY <1>1 DEF NamesInv, OwnLabels, IsLabel
<1>5. MainEntry'
  BY <1>1 DEF NamesInv, MainEntry, MAIN
<1>. QED
  BY <1>1, <1>2, <1>3, <1>4, <1>5 DEF NamesInv

LEMMA Begins ==
  ASSUME IInv, Types, NamesInv, NEW s \in Made
  PROVE  /\ s \in 0 .. Len(funcs) /\ Begin(s) \in 1 .. Len(tables[s])
         /\ s # 0 => Begin(s) = s /\ Entry(s) = funcs[s].address
         /\ s = 0 => Begin(s) = Len(funcs) + 1
<1>0. Len(funcs) \in Nat /\ s \in 0 .. Len(funcs) /\ Len(tables[s]) \in Nat
  BY Shapes DEF Made
<1>1. Begin(s) \in Nat \ {0} /\ Len(tables[s]) >= Begin(s)
  BY <1>0 DEF Begin, NamesInv, OwnEntries
<1>2. s # 0 => Begin(s) = s /\ Entry(s) = funcs[s].address
  <2>. SUFFICES ASSUME s # 0 PROVE Begin(s) = s /\ Entry(s) = funcs[s].address
    OBVIOUS
  <2>1. tables[s][s] = funcs[s]
    BY <1>0 DEF NamesInv, FunctionEntries
  <2>. QED
    BY <2>1 DEF Begin, Entry
<1>. QED
  BY <1>0, <1>1, <1>2 DEF Begin

\* Labels at the end of the table of the current State.
LEMMA NamesGrow ==
  ASSUME IInv, Types, NamesInv, current \in Made, NEW t,
         tables' = [tables EXCEPT ![current] = t], UNCHANGED <<funcs, phase>>,
         Len(t) \in Nat, Len(t) >= Len(table), \A k \in 1 .. Len(table) : t[k] = table[k],
         \A k \in Len(table) + 1 .. Len(t) : IsLabel(t, k) /\ t[k].address >= Entry(current)
  PROVE  NamesInv' /\ Made' = Made /\ \A s \in Made : Begin(s)' = Begin(s) /\ Entry(s)' = Entry(s)
<1>0. /\ Len(funcs) \in Nat /\ 0 .. Len(funcs) \subseteq States
      /\ \A s \in 0 .. Len(funcs) : Len(tables[s]) \in Nat
      /\ current \in 0 .. Len(funcs) /\ tables = [s \in States |-> tables[s]]
      /\ funcs' = funcs /\ phase' = phase
  BY Shapes DEF Made, IInv, TablesInv
<1>1. tables'[current] = t /\ \A s \in 0 .. Len(funcs) : s # current => tables'[s] = tables[s]
  BY <1>0
<1>2. table = tables[current] /\ Len(table) \in Nat
  BY <1>0 DEF table
<1>3. \A s \in 0 .. Len(funcs) : /\ Len(tables'[s]) \in Nat /\ Len(tables'[s]) >= Len(tables[s])
                                 /\ \A k \in 1 .. Len(tables[s]) : tables'[s][k] = tables[s][k]
  <2>. SUFFICES ASSUME NEW s \in 0 .. Len(funcs)
                PROVE  /\ Len(tables'[s]) \in Nat /\ Len(tables'[s]) >= Len(tables[s])
                       /\ \A k \in 1 .. Len(tables[s]) : tables'[s][k] = tables[s][k]
    OBVIOUS
  <2>1. CASE s = current
    BY <1>1, <1>2, <2>1
  <2>2. CASE s # current
    BY <1>0, <1>1, <2>2
  <2>. QED
    BY <2>1, <2>2
<1>4. Made' = Made /\ \A s : Begin(s)' = Begin(s)
  BY <1>0 DEF Made, Begin
<1>5. \A s \in Made : Begin(s) \in 1 .. Len(tables[s]) /\ s \in 0 .. Len(funcs)
  BY Begins
<1>6. ASSUME NEW s \in Made PROVE Entry(s)' = Entry(s) /\ tables'[s][Begin(s)] = tables[s][Begin(s)]
  BY <1>3, <1>4, <1>5 DEF Entry
<1>7. ASSUME NEW s \in 1 .. Len(funcs), NEW k \in 1..s PROVE tables'[s][k] = funcs[k]
  <2>1. s \in Made /\ Begin(s) = s
    BY <1>0 DEF Made, Begin
  <2>2. k \in 1 .. Len(tables[s])
    <3>1. s \in 1 .. Len(tables[s])
      BY <1>5, <2>1
    <3>2. Len(tables[s]) \in Nat /\ s \in Nat
      BY <1>0, <3>1
    <3>. QED
      BY <3>1, <3>2
  <2>3. tables[s][k] = funcs[k]
    BY DEF NamesInv, FunctionEntries
  <2>. QED
    BY <1>3, <1>5, <2>1, <2>2, <2>3
<1>8. Len(tables[0]) \in Nat /\ Len(tables'[0]) \in Nat /\ Len(tables'[0]) >= Len(tables[0])
      /\ 0 \in 0 .. Len(funcs)
  BY <1>0, <1>3
<1>9. ASSUME NEW k \in 1 .. Len(funcs) PROVE tables'[0][k] = funcs[k]
  <2>1. k \in 1 .. Len(tables[0]) /\ tables[0][k] = funcs[k]
    <3>1. Len(tables[0]) >= Len(funcs) /\ tables[0][k] = funcs[k]
      BY DEF NamesInv, OwnEntries, FunctionEntries
    <3>. QED
      BY <1>0, <1>8, <3>1
  <2>. QED
    BY <1>3, <1>8, <2>1
<1>10. FunctionEntries'
  BY <1>0, <1>7, <1>9 DEF FunctionEntries
<1>11. OwnEntries'
  <2>1. Len(tables'[0]) >= Len(funcs)
    BY <1>0, <1>8 DEF NamesInv, OwnEntries
  <2>2. phase = "functions" => tables'[0] = tables[0]
    BY <1>0, <1>1 DEF Made
  <2>3. ASSUME NEW s \in Made PROVE Len(tables'[s]) >= Begin(s)
    <3>1. Begin(s) \in 1 .. Len(tables[s]) /\ Len(tables[s]) \in Nat /\ Len(tables'[s]) \in Nat
          /\ Len(tables'[s]) >= Len(tables[s])
      BY <1>0, <1>3, <1>5
    <3>. QED
      BY <3>1
  <2>. QED
    BY <1>0, <1>4, <2>1, <2>2, <2>3 DEF NamesInv, OwnEntries
<1>12. OwnLabels'
  <2>1. ASSUME NEW s \in Made, NEW k \in Begin(s) + 1 .. Len(tables'[s])
        PROVE  IsLabel(tables'[s], k) /\ tables'[s][k].address >= Entry(s)
    <3>0. s \in 0 .. Len(funcs) /\ Begin(s) \in 1 .. Len(tables[s]) /\ Len(tables[s]) \in Nat
      BY <1>0, <1>5
    <3>1. CASE s # current
      <4>1. tables'[s] = tables[s]
        BY <1>1, <3>0, <3>1
      <4>. QED
        BY <4>1 DEF NamesInv, OwnLabels
    <3>2. CASE s = current /\ k > Len(table)
      BY <1>1, <1>2, <3>0, <3>2
    <3>3. CASE s = current /\ k <= Len(table)
      <4>1. tables'[s][k] = tables[s][k] /\ k \in Begin(s) + 1 .. Len(tables[s])
        BY <1>1, <1>2, <3>0, <3>3
      <4>. QED
        BY <4>1 DEF NamesInv, OwnLabels, IsLabel
    <3>4. k \in Int /\ Len(table) \in Int
      BY <1>2
    <3>. QED
      BY <3>1, <3>2, <3>3, <3>4
  <2>. QED
    BY <1>4, <1>6, <2>1 DEF OwnLabels, IsLabel
<1>13. MainEntry'
  <2>. SUFFICES ASSUME phase # "functions"
                PROVE  tables'[0][Len(funcs) + 1] = tables[0][Len(funcs) + 1]
    BY <1>0 DEF NamesInv, MainEntry, MAIN
  <2>1. 0 \in Made /\ Begin(0) = Len(funcs) + 1
    BY <1>0 DEF Made, Begin
  <2>. QED
    BY <1>6, <2>1
<1>14. FunctionNames'
  BY <1>0 DEF NamesInv, FunctionNames
<1>. QED
  BY <1>4, <1>6, <1>10, <1>11, <1>12, <1>13, <1>14 DEF NamesInv

LEMMA NamesDef ==
  ASSUME IInv, Types, NamesInv, BlocksInv, NEW name \in Functions, FunctionDef(name)
  PROVE  NamesInv' /\ \A s \in 0 .. Len(funcs) : DOMAIN tables[s] \subseteq DOMAIN tables'[s]
<1>. DEFINE n == Len(funcs)
            e == [name |-> <<name, 0>>, address |-> line]
            f == Append(funcs, e)
            t == Append(tables[0], e)
<1>0. /\ n \in Nat /\ 0 .. n \subseteq States /\ tables = [s \in States |-> tables[s]]
      /\ funcs \in Seq(TableEntries(line)) /\ tables[0] \in Seq(TableEntries(line))
      /\ \A k \in 1..n : funcs[k].address \in Nat
  BY Shapes, ControlFlowAssumption DEF IInv, TablesInv, Types, States
<1>1. /\ open = <<>> /\ phase = "functions" /\ n < MaxFunctions /\ phase' = phase
      /\ \A i \in 1..n : funcs[i].name # <<name, 0>>
      /\ funcs' = f /\ current' = Len(f)
      /\ tables' = [tables EXCEPT ![0] = t, ![current'] = f]
  BY <1>0 DEF FunctionDef, AddName
<1>2. e \in TableEntries(line) /\ e.name = <<name, 0>> /\ e.address = line
  BY Shapes DEF TableEntries, EntryNames
<1>3. Len(tables[0]) = n /\ \A k \in 1..n : tables[0][k] = funcs[k]
  BY <1>1 DEF NamesInv, OwnEntries, FunctionEntries
<1>4. \A k \in 1..n : funcs[k].address < line
  <2>1. Last(source) # "def"
    BY <1>1 DEF BlocksInv
  <2>. QED
    BY <2>1 DEF BlocksInv
<1>. HIDE DEF e
<1>5. /\ Len(f) = n + 1 /\ f[n + 1] = e /\ \A k \in 1..n : f[k] = funcs[k]
      /\ Len(t) = n + 1 /\ t[n + 1] = e /\ \A k \in 1..n : t[k] = funcs[k]
  BY <1>0, <1>2, <1>3
<1>. HIDE DEF f, t
<1>6. /\ tables'[0] = t /\ tables'[n + 1] = f
      /\ \A s \in 1..n : tables'[s] = tables[s]
  <2>1. n + 1 \in States /\ n + 1 # 0 /\ 0 \in States
    BY <1>0, <1>1, ControlFlowAssumption DEF States
  <2>. QED
    BY <1>0, <1>1, <1>5, <2>1
<1>7. Len(funcs') = n + 1 /\ \A s : s \in 1 .. n + 1 => s \in 1..n \/ s = n + 1
  BY <1>0, <1>1, <1>5
<1>8. ASSUME NEW s \in 1..n, NEW k \in 1..s PROVE tables[s][k] = funcs[k] /\ k \in 1..n
  <2>1. tables[s][k] = funcs[k]
    BY DEF NamesInv, FunctionEntries
  <2>. QED
    BY <1>0, <2>1
<1>9. FunctionNames'
  <2>1. ASSUME NEW k \in 1 .. n + 1 PROVE \E x \in Functions : f[k].name = <<x, 0>>
    BY <1>2, <1>5, <1>7 DEF NamesInv, FunctionNames
  <2>2. ASSUME NEW j \in 1 .. n + 1, NEW k \in 1 .. n + 1, j < k
        PROVE  f[j].name # f[k].name /\ f[j].address < f[k].address
    <3>1. j \in 1..n
      BY <1>0, <2>2
    <3>2. CASE k \in 1..n
      BY <1>5, <2>2, <3>1, <3>2 DEF NamesInv, FunctionNames
    <3>3. CASE k = n + 1
      BY <1>1, <1>2, <1>4, <1>5, <3>1, <3>3
    <3>. QED
      BY <1>7, <3>2, <3>3
  <2>. QED
    BY <1>1, <1>7, <2>1, <2>2 DEF FunctionNames
<1>10. FunctionEntries'
  <2>1. ASSUME NEW s \in 1 .. n + 1, NEW k \in 1..s PROVE tables'[s][k] = f[k]
    <3>1. CASE s \in 1..n
      BY <1>5, <1>6, <1>8, <3>1
    <3>2. CASE s = n + 1
      BY <1>6, <3>2
    <3>. QED
      BY <1>7, <3>1, <3>2
  <2>2. \A k \in 1 .. n + 1 : tables'[0][k] = f[k]
    BY <1>5, <1>6, <1>7
  <2>. QED
    BY <1>1, <1>7, <2>1, <2>2 DEF FunctionEntries
<1>11. Made' = 1 .. n + 1 /\ Made = 1..n
       /\ \A s \in 1 .. n + 1 : Begin(s)' = s /\ Begin(s) = s
  BY <1>0, <1>1, <1>7 DEF Made, Begin
<1>12. OwnEntries'
  <2>1. ASSUME NEW s \in 1 .. n + 1 PROVE Len(tables'[s]) >= s
    <3>1. CASE s \in 1..n
      BY <1>6, <1>11, <3>1 DEF NamesInv, OwnEntries
    <3>2. CASE s = n + 1
      BY <1>0, <1>5, <1>6, <3>2
    <3>. QED
      BY <1>7, <3>1, <3>2
  <2>2. Len(tables'[0]) = n + 1
    BY <1>5, <1>6
  <2>. QED
    BY <1>0, <1>7, <1>11, <2>1, <2>2 DEF OwnEntries
<1>13. OwnLabels'
  <2>1. ASSUME NEW s \in 1 .. n + 1, NEW k \in s + 1 .. Len(tables'[s])
        PROVE  IsLabel(tables'[s], k) /\ tables'[s][k].address >= Entry(s)'
    <3>1. CASE s \in 1..n
      <4>1. Entry(s)' = Entry(s) /\ tables'[s] = tables[s] /\ s \in Made /\ Begin(s) = s
        BY <1>6, <1>11, <3>1 DEF Entry
      <4>. QED
        BY <2>1, <4>1 DEF NamesInv, OwnLabels
    <3>2. CASE s = n + 1
      BY <1>0, <1>5, <1>6, <2>1, <3>2
    <3>. QED
      BY <1>7, <3>1, <3>2
  <2>. QED
    BY <1>11, <2>1 DEF OwnLabels, IsLabel
<1>14. MainEntry'
  BY <1>1 DEF MainEntry
<1>15. ASSUME NEW s \in 0..n PROVE DOMAIN tables[s] \subseteq DOMAIN tables'[s]
  <2>1. CASE s = 0
    <3>1. DOMAIN tables[0] = 1..n /\ DOMAIN t = 1 .. n + 1
      <4>1. t \in Seq(TableEntries(line))
        BY <1>0, <1>2 DEF t
      <4>. QED
        BY <1>0, <1>3, <1>5, <4>1
    <3>. QED
      BY <1>0, <1>6, <2>1, <3>1
  <2>2. CASE s # 0
    <3>1. s \in 1..n
      BY <1>0, <2>2
    <3>. QED
      BY <1>6, <3>1
  <2>. QED
    BY <2>1, <2>2
<1>. QED
  BY <1>9, <1>10, <1>12, <1>13, <1>14, <1>15 DEF NamesInv

LEMMA NamesMain ==
  ASSUME IInv, Types, NamesInv, BlocksInv, StartMain
  PROVE  /\ NamesInv' /\ \A s \in 0 .. Len(funcs) : DOMAIN tables[s] \subseteq DOMAIN tables'[s]
         /\ DOMAIN tables'[0] = 1 .. Len(tables'[0]) /\ Len(tables'[0]) \in Nat \ {0}
<1>. DEFINE n == Len(funcs)
            e == [name |-> MAIN, address |-> line]
            t == Append(tables[0], e)
<1>0. /\ n \in Nat /\ 0 .. n \subseteq States /\ tables = [s \in States |-> tables[s]]
      /\ tables[0] \in Seq(TableEntries(line)) /\ 0 \in States
      /\ \A k \in 1..n : funcs[k].address \in Nat
  BY Shapes, ControlFlowAssumption DEF IInv, TablesInv, Types, States
<1>1. /\ open = <<>> /\ phase = "functions" /\ phase' = "main" /\ funcs' = funcs
      /\ tables' = [tables EXCEPT ![0] = t]
  BY DEF StartMain, AddName
<1>2. e \in TableEntries(line) /\ e.name = MAIN /\ e.address = line
  BY Shapes DEF TableEntries, EntryNames, MAIN
<1>3. Len(tables[0]) = n /\ \A k \in 1..n : tables[0][k] = funcs[k]
  BY <1>1 DEF NamesInv, OwnEntries, FunctionEntries
<1>4. \A k \in 1..n : funcs[k].address < line
  <2>1. Last(source) # "def"
    BY <1>1 DEF BlocksInv
  <2>. QED
    BY <2>1 DEF BlocksInv
<1>. HIDE DEF e
<1>5. Len(t) = n + 1 /\ t[n + 1] = e /\ \A k \in 1..n : t[k] = funcs[k]
  BY <1>0, <1>2, <1>3
<1>. HIDE DEF t
<1>6. tables'[0] = t /\ \A s \in 1..n : tables'[s] = tables[s]
  BY <1>0, <1>1
<1>7. FunctionNames' /\ FunctionEntries'
  BY <1>1, <1>5, <1>6 DEF NamesInv, FunctionNames, FunctionEntries
<1>8. /\ Made = 1..n /\ Made' = 0..n /\ Begin(0)' = n + 1
      /\ \A s \in 1..n : Begin(s) = s /\ Begin(s)' = s
      /\ \A s : s \in 0..n => s \in 1..n \/ s = 0
  BY <1>0, <1>1 DEF Made, Begin
<1>9. OwnEntries'
  <2>1. ASSUME NEW s \in 0..n PROVE Len(tables'[s]) >= Begin(s)'
    <3>1. CASE s \in 1..n
      BY <1>6, <1>8, <3>1 DEF NamesInv, OwnEntries
    <3>2. CASE s = 0
      BY <1>0, <1>5, <1>6, <1>8, <3>2
    <3>. QED
      BY <1>8, <3>1, <3>2
  <2>2. Len(tables'[0]) >= n
    BY <1>0, <1>5, <1>6
  <2>. QED
    BY <1>1, <1>8, <2>1, <2>2 DEF OwnEntries
<1>10. OwnLabels'
  <2>1. ASSUME NEW s \in 0..n, NEW k \in Begin(s)' + 1 .. Len(tables'[s])
        PROVE  IsLabel(tables'[s], k) /\ tables'[s][k].address >= Entry(s)'
    <3>1. CASE s \in 1..n
      <4>1. Entry(s)' = Entry(s) /\ tables'[s] = tables[s] /\ s \in Made /\ Begin(s)' = Begin(s)
        BY <1>6, <1>8, <3>1 DEF Entry
      <4>. QED
        BY <2>1, <4>1 DEF NamesInv, OwnLabels
    <3>2. CASE s = 0
      BY <1>0, <1>5, <1>6, <1>8, <2>1, <3>2
    <3>. QED
      BY <1>8, <3>1, <3>2
  <2>. QED
    BY <1>8, <2>1 DEF OwnLabels, IsLabel
<1>11. MainEntry'
  BY <1>1, <1>2, <1>4, <1>5, <1>6 DEF MainEntry, MAIN
<1>12. DOMAIN tables[0] = 1..n /\ DOMAIN t = 1 .. n + 1
  <2>1. t \in Seq(TableEntries(line))
    BY <1>0, <1>2 DEF t
  <2>. QED
    BY <1>0, <1>3, <1>5, <2>1
<1>13. ASSUME NEW s \in 0..n PROVE DOMAIN tables[s] \subseteq DOMAIN tables'[s]
  <2>1. CASE s = 0
    BY <1>0, <1>6, <1>12, <2>1
  <2>2. CASE s \in 1..n
    BY <1>6, <2>2
  <2>. QED
    BY <1>8, <2>1, <2>2
<1>14. DOMAIN tables'[0] = 1 .. Len(tables'[0]) /\ Len(tables'[0]) \in Nat \ {0}
  BY <1>0, <1>5, <1>6, <1>12
<1>15. NamesInv'
  BY <1>7, <1>9, <1>10, <1>11 DEF NamesInv
<1>. QED
  BY <1>13, <1>14, <1>15
-----------------------------------------------------------------------------
(* The blocks. *)

LEMMA BlocksStep ==
  ASSUME IInv, Types, NamesInv, BlocksInv, UNCHANGED <<funcs, current, phase>>,
         phase # "done", current \in Made, Entry(current)' = Entry(current),
         IsSeq(open'), open # <<>> /\ open[1].kind = "def" => open' # <<>> /\ open'[1] = open[1],
         \A j \in DOMAIN open' :
           \/ j \in DOMAIN open /\ open'[j] = open[j]
           \/ /\ open'[j].kind # "def"
              /\ open'[j].kind \in {"for", "while"} => open'[j].ret >= Entry(current),
         Len(source') > 0, Last(source') # "def",
         Len(code') \in Nat, Len(code') >= Len(code),
         Last(source) = "def" => Len(code') > Len(code)
  PROVE  BlocksInv'
<1>0. /\ Len(code) \in Nat /\ line = Len(code) /\ line' = Len(code')
      /\ funcs' = funcs /\ current' = current /\ phase' = phase
      /\ \A k \in 1 .. Len(funcs) : funcs[k].address \in 0..line
  BY Shapes DEF line
<1>1. ~(phase = "functions" /\ current = 0)
  BY DEF Made
<1>2. current # 0 => phase = "functions" /\ open' # <<>> /\ open'[1].kind = "def"
  BY DEF BlocksInv
<1>3. ASSUME NEW j \in DOMAIN open', open'[j].kind = "def" PROVE j = 1 /\ open'[j].branch = 0
  BY <1>3 DEF BlocksInv
<1>4. ASSUME NEW j \in DOMAIN open', open'[j].kind \in {"for", "while"}
      PROVE  open'[j].ret >= Entry(current)
  BY <1>4 DEF BlocksInv
<1>5. ASSUME NEW k \in 1 .. Len(funcs) PROVE funcs[k].address < line'
  <2>1. CASE Last(source) = "def"
    BY <1>0, <2>1
  <2>2. CASE Last(source) # "def"
    <3>1. funcs[k].address < line
      BY <2>2 DEF BlocksInv
    <3>. QED
      BY <1>0, <3>1
  <2>. QED
    BY <2>1, <2>2
<1>. QED
  BY <1>0, <1>1, <1>2, <1>3, <1>4, <1>5 DEF BlocksInv
-----------------------------------------------------------------------------
(* The branches. *)

\* What a step leaves of the instructions there are, but the label of one.
KeepCode(b) ==
  \A i \in DOMAIN code : /\ i \in DOMAIN code' /\ code'[i].op = code[i].op
                         /\ code'[i].state = code[i].state /\ code'[i].src = code[i].src
                         /\ i = b \/ code'[i].label = code[i].label

LEMMA AimStep ==
  ASSUME IInv, Types, AimInv, NEW b, KeepCode(b),
         \A t \in DOMAIN source : source'[t] = source[t],
         \A s \in 0 .. Len(funcs) : DOMAIN tables[s] \subseteq DOMAIN tables'[s],
         b \in DOMAIN code => Aimed(b)',
         phase = "functions" => phase' = "functions" \/ b = 1,
         \A j \in DOMAIN open : open[j].branch \in {0, b}
                                \/ \E k \in DOMAIN open' : open'[k].branch = open[j].branch,
         \A i \in DOMAIN code' : i \in DOMAIN code \/ i \notin Branches' \/ Aimed(i)'
                                 \/ \E k \in DOMAIN open' : open'[k].branch = i,
         \A j \in DOMAIN open' : open'[j].kind # "def" => code'[open'[j].branch].state = current'
  PROVE  AimInv'
<1>0. /\ Len(code) \in Nat /\ Len(code) >= 1 /\ DOMAIN code = 1 .. Len(code)
      /\ DOMAIN source = 1 .. Len(source)
      /\ \A i \in 1 .. Len(code) : code[i].state \in 0 .. Len(funcs) /\ code[i].src \in 1 .. Len(source)
  BY Shapes
<1>1. code'[1].state = 0
  BY <1>0 DEF KeepCode, AimInv
<1>2. ASSUME NEW i \in Branches', i \in DOMAIN code PROVE i \in Branches
  <2>1. code'[i].op = code[i].op /\ code'[i].src = code[i].src /\ code[i].src \in DOMAIN source
    BY <1>0, <1>2 DEF KeepCode
  <2>2. source'[code'[i].src] = source[code[i].src]
    BY <2>1
  <2>. QED
    BY <1>2, <2>1, <2>2 DEF Branches
<1>3. ASSUME NEW i \in DOMAIN code, Aimed(i), i # b PROVE Aimed(i)'
  <2>1. code'[i].label = code[i].label /\ code'[i].state = code[i].state
    BY <1>3 DEF KeepCode
  <2>2. code[i].state \in 0 .. Len(funcs)
    BY <1>0, <1>3
  <2>. QED
    BY <1>3, <2>1, <2>2 DEF Aimed
<1>4. ASSUME NEW i \in Branches'
      PROVE  \/ i = 1 /\ phase' = "functions"
             \/ \E j \in DOMAIN open' : open'[j].branch = i
             \/ Aimed(i)'
  <2>1. i \in DOMAIN code'
    BY DEF Branches
  <2>2. CASE i \notin DOMAIN code
    BY <2>1, <2>2
  <2>3. CASE i \in DOMAIN code /\ i = b
    BY <2>3
  <2>4. CASE i \in DOMAIN code /\ i # b
    <3>1. i \in Branches /\ i # 0
      BY <1>0, <1>2, <2>4
    <3>2. CASE i = 1 /\ phase = "functions"
      BY <2>4, <3>2
    <3>3. CASE \E j \in DOMAIN open : open[j].branch = i
      BY <2>4, <3>1, <3>3
    <3>4. CASE Aimed(i)
      BY <1>3, <2>4, <3>4
    <3>. QED
      BY <3>1, <3>2, <3>3, <3>4 DEF AimInv
  <2>. QED
    BY <2>2, <2>3, <2>4
<1>. QED
  BY <1>1, <1>4 DEF AimInv

\* The instructions of a step that only adds some.
LEMMA AddPlain ==
  ASSUME NEW c, IsSeq(c), NEW n \in Nat, NEW src
  PROVE  /\ IsSeq(c \o Plain(n, src)) /\ Extends(c, c \o Plain(n, src))
         /\ Len(c \o Plain(n, src)) = Len(c) + n
         /\ \A i \in Len(c) + 1 .. Len(c \o Plain(n, src)) : (c \o Plain(n, src))[i].op = "plain"
<1>. DEFINE d == c \o Plain(n, src)
<1>0. d = c \o Plain(n, src)
  OBVIOUS
<1>. HIDE DEF d
<1>1. IsSeq(Plain(n, src)) /\ Len(Plain(n, src)) = n
      /\ \A k \in 1..n : Plain(n, src)[k].op = "plain"
  BY PlainSeq DEF Plain, Instr
<1>2. Extends(c, d) /\ Len(d) = Len(c) + n /\ \A k \in 1..n : d[Len(c) + k] = Plain(n, src)[k]
  <2>. DEFINE p == Plain(n, src)
  <2>1. IsSeq(p) /\ Len(p) = n /\ d = c \o p
    BY <1>0, <1>1
  <2>. HIDE DEF p
  <2>2. Extends(c, d) /\ Len(d) = Len(c) + Len(p) /\ \A k \in 1 .. Len(p) : d[Len(c) + k] = p[k]
    BY <2>1, ConcatExtends
  <2>. QED
    BY <2>1, <2>2 DEF p
<1>3. Len(c) \in Nat
  BY DEF IsSeq
<1>4. ASSUME NEW i \in Len(c) + 1 .. Len(d) PROVE d[i].op = "plain"
  <2>1. i - Len(c) \in 1..n /\ Len(c) + (i - Len(c)) = i
    BY <1>2, <1>3
  <2>. QED
    BY <1>1, <1>2, <2>1
<1>. QED
  BY <1>2, <1>4 DEF Extends, d

LEMMA AddInstr ==
  ASSUME NEW c, IsSeq(c), NEW op, NEW label, NEW src
  PROVE  LET d == Append(c, Instr(op, label, src))
         IN  /\ IsSeq(d) /\ Extends(c, d) /\ Len(d) = Len(c) + 1
             /\ d[Len(c) + 1].op = op /\ d[Len(c) + 1].label = label
             /\ d[Len(c) + 1].state = current /\ d[Len(c) + 1].src = src
<1>. DEFINE e == Instr(op, label, src)
            d == Append(c, e)
<1>1. e.op = op /\ e.label = label /\ e.state = current /\ e.src = src
  BY DEF Instr
<1>. HIDE DEF e
<1>2. d = Append(c, e)
  OBVIOUS
<1>. HIDE DEF d
<1>3. Extends(c, d) /\ Len(d) = Len(c) + 1 /\ d[Len(c) + 1] = e
  BY <1>2, AppendExtends
<1>. QED
  BY <1>1, <1>3 DEF Extends, d, e

\* The parts of source that a step adds.
LEMMA AddSource ==
  ASSUME Types, NEW parts \in Seq(Kinds), NEW kind \in Kinds,
         source' = Append(source \o parts, kind)
  PROVE  /\ Len(source') > 0 /\ Last(source') = kind /\ source' \in Seq(Kinds)
         /\ Len(source') = Len(source) + Len(parts) + 1
         /\ source'[Len(source')] = kind
         /\ \A t \in DOMAIN source : source'[t] = source[t]
<1>1. source \in Seq(Kinds)
  BY DEF Types
<1>2. source \o parts \in Seq(Kinds) /\ Len(source \o parts) = Len(source) + Len(parts)
      /\ \A t \in DOMAIN source : (source \o parts)[t] = source[t] /\ t \in DOMAIN (source \o parts)
  BY <1>1
<1>. DEFINE s == source \o parts
<1>3. s \in Seq(Kinds) /\ source' = Append(s, kind)
  BY <1>2
<1>. HIDE DEF s
<1>4. /\ Len(source') = Len(s) + 1 /\ source' \in Seq(Kinds) /\ Len(s) \in Nat
      /\ source'[Len(s) + 1] = kind /\ \A t \in DOMAIN s : source'[t] = s[t]
  BY <1>3
<1>. QED
  BY <1>2, <1>4 DEF s, Last

LEMMA CompilingMade ==
  ASSUME IInv, Types, BlocksInv, Compiling \/ (open # <<>> /\ Last(open).kind # "def")
  PROVE  phase # "done" /\ current \in Made
<1>1. open # <<>> \/ phase = "main"
  BY DEF Compiling
<1>2. current \in 0 .. Len(funcs)
  BY Shapes
<1>. QED
  BY <1>1, <1>2 DEF BlocksInv, Made

\* The branches of blocks are in the code.
LEMMA OpenIn ==
  ASSUME IInv, Types, AimInv, NEW j \in DOMAIN open, open[j].kind # "def"
  PROVE  open[j].branch \in DOMAIN code /\ code[open[j].branch].state = current
<1>1. open[j].branch \in 0 .. Len(code) /\ open[j].branch >= 2
  BY DEF IInv, CodeInv, OpenBranches
<1>2. DOMAIN code = 1 .. Len(code) /\ Len(code) \in Nat
  BY Shapes
<1>3. code[open[j].branch].state = current
  BY DEF AimInv
<1>. QED
  BY <1>1, <1>2, <1>3

\* Code that is added, and no more.
LEMMA ExtendsKeep ==
  ASSUME IInv, Types, IsSeq(code'), Extends(code, code')
  PROVE  /\ Len(code') \in Nat /\ DOMAIN code' = 1 .. Len(code')
         /\ \A b : KeepCode(b)
         /\ \A i \in DOMAIN code' : i \in DOMAIN code \/ i \in Len(code) + 1 .. Len(code')
<1>1. Len(code') \in Nat /\ DOMAIN code' = 1 .. Len(code') /\ Len(code) \in Nat
      /\ DOMAIN code = 1 .. Len(code)
  BY Shapes DEF IsSeq
<1>2. \A i \in DOMAIN code : i \in DOMAIN code' /\ code'[i] = code[i]
  BY DEF Extends
<1>. QED
  BY <1>1, <1>2 DEF KeepCode

LEMMA CodeStep ==
  ASSUME IInv, Types, NamesInv, BlocksInv, AimInv,
         UNCHANGED <<tables, funcs, current, open, phase>>, phase # "done", current \in Made,
         IsSeq(code'), Extends(code, code'), Len(code') > Len(code),
         \A i \in Len(code) + 1 .. Len(code') : i \notin Branches' \/ Aimed(i)',
         Len(source') > 0, Last(source') # "def",
         \A t \in DOMAIN source : source'[t] = source[t]
  PROVE  NamesInv' /\ BlocksInv' /\ AimInv'
<1>1. NamesInv' /\ Entry(current)' = Entry(current)
  <2>1. NamesInv' /\ \A s : Entry(s)' = Entry(s)
    BY NamesSame
  <2>. QED
    BY <2>1 DEF Entry, Begin
<1>2. Len(code') \in Nat /\ Len(code) \in Nat /\ KeepCode(0) /\ 0 \notin DOMAIN code
  BY Shapes, ExtendsKeep
<1>3. IsSeq(open) /\ open' = open
  BY DEF IInv, CodeInv, OpenBranches
<1>4. BlocksInv'
  <2>1. \A j \in DOMAIN open' : j \in DOMAIN open /\ open'[j] = open[j]
    BY <1>3
  <2>. QED
    BY <1>1, <1>2, <1>3, <2>1, BlocksStep
<1>5. AimInv'
  <2>1. ASSUME NEW j \in DOMAIN open', open'[j].kind # "def"
        PROVE  code'[open'[j].branch].state = current'
    <3>1. open[j].branch \in DOMAIN code /\ code[open[j].branch].state = current
      BY <1>3, <2>1, OpenIn
    <3>. QED
      BY <1>2, <1>3, <3>1 DEF KeepCode
  <2>2. \A j \in DOMAIN open : \E k \in DOMAIN open' : open'[k].branch = open[j].branch
    BY <1>3
  <2>3. \A s \in 0 .. Len(funcs) : DOMAIN tables[s] \subseteq DOMAIN tables'[s]
    OBVIOUS
  <2>4. \A i \in DOMAIN code' : i \in DOMAIN code \/ i \notin Branches' \/ Aimed(i)'
    BY ExtendsKeep
  <2>. QED
    BY <1>2, <2>1, <2>2, <2>3, <2>4, AimStep
<1>. QED
  BY <1>1, <1>4, <1>5

\* A new block, with the branch that has been made last.
LEMMA PushStep ==
  ASSUME IInv, Types, NamesInv, BlocksInv, AimInv,
         UNCHANGED <<tables, funcs, current, phase>>, phase # "done", current \in Made,
         IsSeq(code'), Extends(code, code'), Len(code') > Len(code),
         \A i \in Len(code) + 1 .. Len(code') - 1 : i \notin Branches',
         code'[Len(code')].state = current,
         NEW p, p.kind # "def", p.ret >= Entry(current), p.branch = Len(code'),
         open' = Append(open, p),
         Len(source') > 0, Last(source') # "def",
         \A t \in DOMAIN source : source'[t] = source[t]
  PROVE  NamesInv' /\ BlocksInv' /\ AimInv'
<1>1. NamesInv' /\ Entry(current)' = Entry(current)
  <2>1. NamesInv' /\ \A s : Entry(s)' = Entry(s)
    BY NamesSame
  <2>. QED
    BY <2>1 DEF Entry, Begin
<1>2. Len(code') \in Nat /\ Len(code) \in Nat /\ KeepCode(0) /\ 0 \notin DOMAIN code
  BY Shapes, ExtendsKeep
<1>3. /\ IsSeq(open') /\ DOMAIN open' = 1 .. Len(open) + 1 /\ open'[Len(open) + 1] = p
      /\ \A j \in DOMAIN open : j \in DOMAIN open' /\ open'[j] = open[j]
      /\ Len(open) \in Nat /\ DOMAIN open = 1 .. Len(open) /\ open' # <<>>
  <2>1. IsSeq(open) /\ Len(open) \in Nat /\ DOMAIN open = 1 .. Len(open)
    BY Shapes DEF IInv, CodeInv, OpenBranches
  <2>2. Extends(open, open') /\ Len(open') = Len(open) + 1 /\ open'[Len(open) + 1] = p
    BY <2>1, AppendExtends
  <2>3. IsSeq(open') /\ DOMAIN open' = 1 .. Len(open')
    BY <2>2 DEF Extends, IsSeq
  <2>. QED
    BY <2>1, <2>2, <2>3 DEF Extends
<1>4. \A j \in DOMAIN open' : (j \in DOMAIN open /\ open'[j] = open[j]) \/ j = Len(open) + 1
  BY <1>3
<1>5. BlocksInv'
  <2>1. \A j \in DOMAIN open' : \/ j \in DOMAIN open /\ open'[j] = open[j]
                                \/ open'[j].kind # "def" /\ open'[j].ret >= Entry(current)
    BY <1>3, <1>4
  <2>2. open # <<>> => open'[1] = open[1]
    BY <1>3, Shapes
  <2>. QED
    BY <1>1, <1>2, <1>3, <2>1, <2>2, BlocksStep
<1>6. AimInv'
  <2>1. ASSUME NEW j \in DOMAIN open', open'[j].kind # "def"
        PROVE  code'[open'[j].branch].state = current'
    <3>1. CASE j \in DOMAIN open /\ open'[j] = open[j]
      <4>1. open[j].branch \in DOMAIN code /\ code[open[j].branch].state = current
        BY <2>1, <3>1, OpenIn
      <4>. QED
        BY <1>2, <3>1, <4>1 DEF KeepCode
    <3>2. CASE j = Len(open) + 1
      BY <1>3, <3>2
    <3>. QED
      BY <1>4, <3>1, <3>2
  <2>2. \A j \in DOMAIN open : \E k \in DOMAIN open' : open'[k].branch = open[j].branch
    BY <1>3
  <2>3. \A s \in 0 .. Len(funcs) : DOMAIN tables[s] \subseteq DOMAIN tables'[s]
    OBVIOUS
  <2>4. \A i \in DOMAIN code' : i \in DOMAIN code \/ i \notin Branches'
                                \/ \E k \in DOMAIN open' : open'[k].branch = i
    <3>1. ASSUME NEW i \in DOMAIN code', i \notin DOMAIN code, i \in Branches'
          PROVE  i = Len(code')
      <4>1. i \in Len(code) + 1 .. Len(code')
        BY <3>1, ExtendsKeep
      <4>. QED
        BY <1>2, <3>1, <4>1
    <3>2. Len(open) + 1 \in DOMAIN open' /\ open'[Len(open) + 1].branch = Len(code')
      BY <1>3
    <3>. QED
      BY <3>1, <3>2
  <2>. QED
    BY <1>2, <2>1, <2>2, <2>3, <2>4, AimStep
<1>. QED
  BY <1>1, <1>5, <1>6

\* A block that ends, and perhaps the else block that begins: labels for the
\* current State, one of them for the branch of the block.
LEMMA PopStep ==
  ASSUME IInv, Types, NamesInv, BlocksInv, AimInv, UNCHANGED <<funcs, current, phase>>,
         open # <<>>, Last(open).kind # "def", NEW b, b = Last(open).branch,
         NEW t, tables' = [tables EXCEPT ![current] = t],
         DOMAIN t = 1 .. Len(t), Len(t) \in Nat, Len(t) >= Len(table),
         \A k \in 1 .. Len(table) : t[k] = table[k],
         \A k \in Len(table) + 1 .. Len(t) : IsLabel(t, k) /\ t[k].address >= Entry(current),
         IsSeq(code'), Len(code') >= Len(code), KeepCode(b),
         code'[b].label + 1 \in 1 .. Len(t),
         \A i \in Len(code) + 1 .. Len(code') : i \notin Branches' \/ Aimed(i)'
                                 \/ \E k \in DOMAIN open' : open'[k].branch = i,
         \/ open' = Front(open)
         \/ \E p : /\ open' = Append(Front(open), p) /\ p.kind = "else"
                   /\ code'[p.branch].state = current,
         Len(source') > 0, Last(source') # "def",
         \A u \in DOMAIN source : source'[u] = source[u]
  PROVE  NamesInv' /\ BlocksInv' /\ AimInv'
<1>. DEFINE m == Len(open)
            o == Front(open)
<1>0. /\ phase # "done" /\ current \in Made
      /\ m \in Nat \ {0} /\ DOMAIN open = 1..m /\ Last(open) = open[m] /\ m \in 1..m
      /\ Len(code) \in Nat /\ DOMAIN code = 1 .. Len(code)
      /\ Len(code') \in Nat /\ DOMAIN code' = 1 .. Len(code')
      /\ IsSeq(open)
  <2>1. Len(open) \in Nat /\ DOMAIN open = 1 .. Len(open) /\ IsSeq(open)
    BY Shapes DEF IInv, CodeInv, OpenBranches
  <2>2. m # 0
    BY <2>1 DEF IsSeq
  <2>. QED
    BY <2>1, <2>2, Shapes, CompilingMade DEF Last, IsSeq
<1>1. /\ b \in DOMAIN code /\ code[b].state = current
  BY <1>0, OpenIn
<1>2. /\ IsSeq(o) /\ Len(o) = m - 1 /\ DOMAIN o = 1 .. m - 1
      /\ \A j \in 1 .. m - 1 : o[j] = open[j]
  <2>1. PICK T : open \in Seq(T)
    BY <1>0 DEF IsSeq
  <2>. DEFINE e == SubSeq(open, 1, m - 1)
  <2>2. o = e
    BY DEF Front
  <2>. HIDE DEF o
  <2>3. /\ e \in Seq(T) /\ Len(e) = m - 1 /\ DOMAIN e = 1 .. m - 1
        /\ \A j \in 1 .. m - 1 : e[j] = open[j]
    BY <1>0, <2>1
  <2>. QED
    BY <2>2, <2>3 DEF IsSeq
<1>3. NamesInv' /\ Entry(current)' = Entry(current)
  <2>1. NamesInv' /\ \A s \in Made : Entry(s)' = Entry(s)
    BY <1>0, NamesGrow
  <2>. QED
    BY <1>0, <2>1 DEF Entry, Begin
<1>. HIDE DEF m, o
<1>4. /\ IsSeq(open')
      /\ \A j \in 1 .. m - 1 : j \in DOMAIN open' /\ open'[j] = open[j]
      /\ \A j \in DOMAIN open' :
           \/ j \in 1 .. m - 1
           \/ open'[j].kind = "else" /\ code'[open'[j].branch].state = current
  <2>1. CASE open' = o
    BY <1>2, <2>1
  <2>2. CASE open' # o
    <3>1. PICK p : /\ open' = Append(o, p) /\ p.kind = "else"
                   /\ code'[p.branch].state = current
      BY <2>2 DEF o
    <3>2. Extends(o, open') /\ Len(open') = m /\ open'[m] = p
      <4>1. m \in Int
        BY <1>0
      <4>2. Extends(o, open') /\ Len(open') = Len(o) + 1 /\ open'[Len(o) + 1] = p
        BY <1>2, <3>1, AppendExtends
      <4>. QED
        BY <1>2, <4>1, <4>2
    <3>3. IsSeq(open') /\ DOMAIN open' = 1..m
      BY <3>2 DEF Extends, IsSeq
    <3>4. m \in Nat /\ \A j \in 1..m : j \in 1 .. m - 1 \/ j = m
      <4>1. m \in Nat
        BY <1>0
      <4>. QED
        BY <4>1
    <3>5. \A j \in 1 .. m - 1 : j \in 1..m /\ open'[j] = open[j]
      BY <1>2, <3>2, <3>4 DEF Extends
    <3>. QED
      BY <3>1, <3>2, <3>3, <3>4, <3>5
  <2>. QED
    BY <2>1, <2>2
<1>5. \A j \in 1 .. m - 1 : j \in DOMAIN open
  BY <1>0
<1>6. BlocksInv'
  <2>1. \A j \in DOMAIN open' : \/ j \in DOMAIN open /\ open'[j] = open[j]
                                \/ open'[j].kind = "else"
    BY <1>4, <1>5
  <2>2. ASSUME open[1].kind = "def" PROVE open' # <<>> /\ open'[1] = open[1]
    <3>1. m # 1
      BY <1>0, <2>2
    <3>2. 1 \in 1 .. m - 1
      BY <1>0, <3>1
    <3>. QED
      BY <1>4, <3>2
  <2>3. Last(source) # "def"
    BY DEF BlocksInv
  <2>. QED
    BY <1>0, <1>3, <1>4, <2>1, <2>2, <2>3, BlocksStep
<1>7. AimInv'
  <2>1. ASSUME NEW j \in DOMAIN open', open'[j].kind # "def"
        PROVE  code'[open'[j].branch].state = current'
    <3>1. CASE j \in 1 .. m - 1
      <4>1. open'[j] = open[j] /\ j \in DOMAIN open
        BY <1>4, <1>5, <3>1
      <4>2. open[j].branch \in DOMAIN code /\ code[open[j].branch].state = current
        BY <2>1, <4>1, OpenIn
      <4>. QED
        BY <4>1, <4>2 DEF KeepCode
    <3>. QED
      BY <1>4, <2>1, <3>1
  <2>2. \A j \in DOMAIN open : open[j].branch = b
                               \/ \E k \in DOMAIN open' : open'[k].branch = open[j].branch
    <3>1. \A j \in DOMAIN open : j \in 1 .. m - 1 \/ j = m
      BY <1>0
    <3>2. open[m].branch = b
      BY <1>0
    <3>. QED
      BY <1>4, <3>1, <3>2
  <2>3. /\ tables'[current] = t /\ current \in 0 .. Len(funcs)
        /\ \A s \in 0 .. Len(funcs) : s # current => tables'[s] = tables[s]
    BY <1>0, Shapes DEF IInv, TablesInv
  <2>4. ASSUME NEW s \in 0 .. Len(funcs) PROVE DOMAIN tables[s] \subseteq DOMAIN tables'[s]
    <3>1. CASE s = current
      <4>1. DOMAIN table = 1 .. Len(table) /\ Len(table) \in Nat /\ tables[s] = table
        BY <2>3, <3>1, Shapes DEF table
      <4>. QED
        BY <2>3, <3>1, <4>1
    <3>. QED
      BY <2>3, <3>1
  <2>5. Aimed(b)'
    <3>1. code'[b].state = current
      BY <1>1 DEF KeepCode
    <3>. QED
      BY <2>3, <3>1 DEF Aimed
  <2>6. \A i \in DOMAIN code' : i \in DOMAIN code \/ i \in Len(code) + 1 .. Len(code')
    BY <1>0
  <2>. QED
    BY <2>1, <2>2, <2>4, <2>5, <2>6, AimStep
<1>. QED
  BY <1>3, <1>6, <1>7

LEMMA AppendConcat ==
  ASSUME NEW s, IsSeq(s), NEW t, IsSeq(t), NEW e
  PROVE  s \o Append(t, e) = Append(s \o t, e)
<1>1. PICK S : s \in Seq(S)
  BY DEF IsSeq
<1>2. PICK T : t \in Seq(T)
  BY DEF IsSeq
<1>. DEFINE U == (S \cup T) \cup {e}
<1>3. s \in Seq(U) /\ t \in Seq(U) /\ e \in U
  BY <1>1, <1>2
<1>. HIDE DEF U
<1>. QED
  BY <1>3

\* Filling in the label of a branch that is in the code, when the code has
\* grown by more.
LEMMA PatchKeep ==
  ASSUME IInv, Types, NEW d, IsSeq(d), Extends(code, d), NEW b \in DOMAIN code, NEW label,
         NEW c, c = WithLabel(d, b, label)
  PROVE  /\ IsSeq(c) /\ Len(c) = Len(d) /\ c[b].label = label
         /\ \A i \in DOMAIN d : i # b => c[i] = d[i]
         /\ \A i \in DOMAIN code : /\ i \in DOMAIN c /\ c[i].op = code[i].op
                                   /\ c[i].state = code[i].state /\ c[i].src = code[i].src
                                   /\ i = b \/ c[i].label = code[i].label
<1>1. DifferAt(b, d, c)
  BY DEF DifferAt, WithLabel
<1>2. IsSeq(c) /\ Len(c) = Len(d) /\ DOMAIN c = DOMAIN d /\ \A i \in DOMAIN d : i # b => c[i] = d[i]
  <2>1. IsSeq(c) /\ Len(c) = Len(d) /\ DOMAIN c = DOMAIN d
    BY <1>1, DifferSeq
  <2>. QED
    BY <1>1, <2>1 DEF DifferAt
<1>3. \A i \in DOMAIN code : i \in DOMAIN d /\ d[i] = code[i]
  BY DEF Extends
<1>4. c[b] = [code[b] EXCEPT !.label = label]
  BY <1>3 DEF WithLabel
<1>5. code[b] \in Instrs(Len(funcs), Len(source))
  BY DEF Types
<1>6. c[b].label = label /\ c[b].op = code[b].op /\ c[b].state = code[b].state
      /\ c[b].src = code[b].src
  BY <1>4, <1>5 DEF Instrs
<1>. QED
  BY <1>2, <1>3, <1>6

\* The addresses of a table are within the code.
LEMMA EntryIn ==
  ASSUME IInv, Types, NamesInv, NEW s \in Made
  PROVE  Entry(s) \in 0..line /\ line \in Nat
<1>1. s \in 0 .. Len(funcs) /\ Begin(s) \in 1 .. Len(tables[s])
  BY Begins
<1>. QED
  BY <1>1, Shapes DEF Entry

LEMMA NamesDefine ==
  ASSUME IInv, Types, NamesInv, BlocksInv, AimInv, NEW name \in Functions, FunctionDef(name)
  PROVE  NamesInv' /\ BlocksInv' /\ AimInv'
<1>. DEFINE p == [kind |-> "def", ret |-> 0, branch |-> 0]
<1>1. /\ open = <<>> /\ phase = "functions" /\ phase' = phase /\ code' = code
      /\ current' = Len(funcs') /\ open' = <<p>> /\ source' = Append(source, "def")
      /\ funcs' = AddName(funcs, line, <<name, 0>>)
  BY DEF FunctionDef
<1>2. NamesInv' /\ \A s \in 0 .. Len(funcs) : DOMAIN tables[s] \subseteq DOMAIN tables'[s]
  BY NamesDef
<1>3. p.kind = "def" /\ p.branch = 0
  OBVIOUS
<1>. HIDE DEF p
<1>4. /\ DOMAIN open' = {1} /\ open'[1] = p /\ open' # <<>> /\ Last(open') = p
  BY <1>1 DEF Last
<1>5. source \in Seq(Kinds) /\ "def" \in Kinds
  BY DEF Types, Kinds, Opener
<1>6. Len(source') > 0 /\ Last(source') = "def" /\ \A u \in DOMAIN source : source'[u] = source[u]
  BY <1>1, <1>5 DEF Last
<1>7. Len(funcs') # 0
  <2>1. Len(funcs) \in Nat
    BY Shapes
  <2>2. Len(funcs') = Len(funcs) + 1
    <3>. DEFINE e == [name |-> <<name, 0>>, address |-> line]
    <3>1. funcs' = Append(funcs, e) /\ IsSeq(funcs)
      BY <1>1 DEF AddName, IInv, TablesInv
    <3>. HIDE DEF e
    <3>. QED
      BY <3>1, AppendExtends
  <2>. QED
    BY <2>1, <2>2
<1>8. BlocksInv'
  BY <1>1, <1>3, <1>4, <1>6, <1>7 DEF BlocksInv
<1>9. AimInv'
  <2>1. KeepCode(0) /\ 0 \notin DOMAIN code
    BY <1>1, Shapes DEF KeepCode
  <2>2. \A j \in DOMAIN open' : open'[j].kind = "def"
    BY <1>3, <1>4
  <2>3. \A j \in DOMAIN open : FALSE
    BY <1>1
  <2>. QED
    BY <1>1, <1>2, <1>6, <2>1, <2>2, <2>3, AimStep
<1>. QED
  BY <1>2, <1>8, <1>9

LEMMA NamesStart ==
  ASSUME IInv, Types, NamesInv, BlocksInv, AimInv, StartMain
  PROVE  NamesInv' /\ BlocksInv' /\ AimInv'
<1>. DEFINE label == Len(tables'[0]) - 1
            c == WithLabel(code, 1, label)
<1>1. /\ open = <<>> /\ phase = "functions" /\ phase' = "main" /\ code' = Append(c, Instr("plain", 0, Here))
      /\ UNCHANGED <<funcs, current, open>> /\ source' = Append(source, "main")
  BY DEF StartMain, WithLabel, LabelAddress
<1>2. /\ NamesInv' /\ \A s \in 0 .. Len(funcs) : DOMAIN tables[s] \subseteq DOMAIN tables'[s]
      /\ DOMAIN tables'[0] = 1 .. Len(tables'[0]) /\ Len(tables'[0]) \in Nat \ {0}
  BY NamesMain
<1>. HIDE DEF label
<1>3. 1 \in DOMAIN code /\ Len(code) \in Nat /\ Extends(code, code) /\ IsSeq(code)
      /\ DOMAIN code = 1 .. Len(code)
  BY Shapes DEF Extends, IInv, CodeInv
<1>4. /\ IsSeq(c) /\ Len(c) = Len(code) /\ c[1].label = label
      /\ \A i \in DOMAIN code : /\ i \in DOMAIN c /\ c[i].op = code[i].op
                                /\ c[i].state = code[i].state /\ c[i].src = code[i].src
                                /\ i = 1 \/ c[i].label = code[i].label
  BY <1>3, PatchKeep
<1>. HIDE DEF c
<1>5. /\ Extends(c, code') /\ IsSeq(code') /\ Len(code') = Len(code) + 1
      /\ code'[Len(code) + 1].op = "plain"
  <2>. DEFINE e == Instr("plain", 0, Here)
  <2>1. e.op = "plain" /\ code' = Append(c, e)
    BY <1>1 DEF Instr
  <2>. HIDE DEF e
  <2>2. Extends(c, code') /\ Len(code') = Len(c) + 1 /\ code'[Len(c) + 1] = e
    BY <1>4, <2>1, AppendExtends
  <2>. QED
    BY <1>4, <2>1, <2>2 DEF Extends
<1>6. KeepCode(1) /\ code'[1].label = label
  BY <1>3, <1>4, <1>5 DEF KeepCode, Extends
<1>7. source \in Seq(Kinds) /\ "main" \in Kinds
  BY DEF Types, Kinds
<1>8. Len(source') > 0 /\ Last(source') = "main" /\ \A u \in DOMAIN source : source'[u] = source[u]
  BY <1>1, <1>7 DEF Last
<1>9. current = 0
  BY <1>1 DEF BlocksInv
<1>10. BlocksInv'
  <2>1. \A k \in 1 .. Len(funcs) : funcs[k].address < line'
    <3>1. Last(source) # "def"
      BY <1>1 DEF BlocksInv
    <3>2. \A k \in 1 .. Len(funcs) : funcs[k].address < line /\ funcs[k].address \in Nat
      BY <3>1, Shapes DEF BlocksInv
    <3>3. line' = line + 1 /\ line \in Nat
      BY <1>3, <1>5 DEF line
    <3>. QED
      BY <3>2, <3>3
  <2>. QED
    BY <1>1, <1>8, <1>9, <2>1 DEF BlocksInv
<1>11. AimInv'
  <2>1. Aimed(1)'
    <3>1. code'[1].state = 0
      BY <1>3, <1>6 DEF KeepCode, AimInv
    <3>2. label + 1 = Len(tables'[0])
      BY <1>2 DEF label
    <3>. QED
      BY <1>2, <1>6, <3>1, <3>2 DEF Aimed
  <2>2. \A j : j \in DOMAIN open => FALSE
    BY <1>1
  <2>3. ASSUME NEW i \in DOMAIN code', i \notin DOMAIN code PROVE i \notin Branches'
    <3>1. i = Len(code) + 1
      <4>1. DOMAIN code' = 1 .. Len(code) + 1
        BY <1>5 DEF IsSeq
      <4>. QED
        BY <1>3, <2>3, <4>1
    <3>. QED
      BY <1>5, <3>1 DEF Branches
  <2>4. \A j : j \in DOMAIN open' => FALSE
    BY <1>1
  <2>. QED
    BY <1>1, <1>2, <1>6, <1>8, <2>1, <2>2, <2>3, <2>4, AimStep
<1>. QED
  BY <1>2, <1>10, <1>11

NamesAll == NamesInv /\ BlocksInv /\ AimInv

\* A part of source that begins no function.
LEMMA AddPart ==
  ASSUME Types, NEW kind \in Kinds, source' = Append(source, kind)
  PROVE  /\ Len(source') > 0 /\ Last(source') = kind /\ source'[Here] = kind
         /\ \A t \in DOMAIN source : source'[t] = source[t]
<1>1. source \in Seq(Kinds)
  BY DEF Types
<1>. QED
  BY <1>1 DEF Last, Here

\* The statements that add code and nothing else.
LEMMA NamesStatement ==
  ASSUME IInv, Types, NamesAll,
         \/ Assign \/ CallLoop \/ ReturnLoop \/ Return \/ Flow("break") \/ Flow("continue")
  PROVE  NamesAll'
<1>. SUFFICES NamesInv' /\ BlocksInv' /\ AimInv'
  BY DEF NamesAll
<1>0. /\ Compiling /\ UNCHANGED <<tables, funcs, current, open, phase>>
      /\ phase # "done" /\ current \in Made /\ NamesInv /\ BlocksInv /\ AimInv
      /\ IsSeq(code) /\ Len(code) \in Nat
  <2>1. Compiling /\ UNCHANGED <<tables, funcs, current, open, phase>>
    BY DEF Assign, CallLoop, ReturnLoop, Return, Flow
  <2>. QED
    BY <2>1, CompilingMade, Shapes DEF NamesAll, IInv, CodeInv
<1>k. {"assign", "loop", "return", "break", "continue"} \subseteq Kinds
  BY DEF Kinds
\* A branch to LOOP has a label that there is.
<1>l. ASSUME \E i \in DOMAIN table : table[i].name = <<LOOP, 0>>
      PROVE  FunAddress(table, <<LOOP, 0>>) + 1 \in DOMAIN tables[current]
  <2>1. table \in Seq(TableEntries(line)) /\ table = tables[current] /\ Len(table) \in Nat
        /\ DOMAIN table = 1 .. Len(table)
    BY Shapes DEF table
  <2>2. PICK i \in DOMAIN table : table[i].name = <<LOOP, 0>>
    BY <1>l
  <2>3. FunAddress(table, <<LOOP, 0>>) \in 0 .. Len(table) - 1
    BY <2>1, <2>2, FunFound
  <2>. QED
    BY <2>1, <2>3
<1>1. ASSUME Assign PROVE NamesInv' /\ BlocksInv' /\ AimInv'
  <2>1. code' = code \o Plain(1, Here) /\ source' = Append(source, "assign")
    BY <1>1 DEF Assign
  <2>2. /\ IsSeq(code') /\ Extends(code, code') /\ Len(code') = Len(code) + 1
        /\ \A i \in Len(code) + 1 .. Len(code') : code'[i].op = "plain"
    BY <1>0, <2>1, AddPlain
  <2>3. \A i \in Len(code) + 1 .. Len(code') : i \notin Branches'
    BY <2>2 DEF Branches
  <2>4. Len(code') > Len(code)
    BY <1>0, <2>2
  <2>5. /\ Len(source') > 0 /\ Last(source') # "def"
        /\ \A t \in DOMAIN source : source'[t] = source[t]
    BY <1>k, <2>1, AddPart
  <2>. QED
    BY <1>0, <2>2, <2>3, <2>4, <2>5, CodeStep
<1>2. ASSUME CallLoop PROVE NamesInv' /\ BlocksInv' /\ AimInv'
  <2>. DEFINE label == FunAddress(table, <<LOOP, 0>>)
              e == Instr("b", label, Here)
              c == Append(code, e)
  <2>1. /\ \E i \in DOMAIN table : table[i].name = <<LOOP, 0>>
        /\ code' = c \o Plain(1, Here + 1) /\ source' = source \o <<"loop", "assign">>
    BY <1>2 DEF CallLoop
  <2>2. e.op = "b" /\ e.label = label /\ e.state = current
    BY DEF Instr
  <2>. HIDE DEF e
  <2>3. Extends(code, c) /\ IsSeq(c) /\ Len(c) = Len(code) + 1 /\ c[Len(code) + 1] = e
    BY <1>0, AppendExtends DEF Extends
  <2>. HIDE DEF c, label
  <2>4. /\ IsSeq(code') /\ Extends(c, code') /\ Len(code') = Len(c) + 1
        /\ \A i \in Len(c) + 1 .. Len(code') : code'[i].op = "plain"
    BY <2>1, <2>3, AddPlain
  <2>5. Extends(code, code') /\ Len(code') = Len(code) + 2 /\ code'[Len(code) + 1] = e
    <3>1. Extends(code, code')
      BY <1>0, <2>3, <2>4, ExtendsTransitive
    <3>2. Len(code) + 1 \in DOMAIN c
      BY <1>0, <2>3 DEF IsSeq
    <3>. QED
      BY <1>0, <2>3, <2>4, <3>1, <3>2 DEF Extends
  <2>7. ASSUME NEW i \in Len(code) + 1 .. Len(code') PROVE i \notin Branches' \/ Aimed(i)'
    <3>1. CASE i = Len(code) + 1
      <4>1. label + 1 \in DOMAIN tables[current]
        BY <1>l, <2>1 DEF label
      <4>. QED
        BY <1>0, <2>2, <2>5, <3>1, <4>1 DEF Aimed
    <3>2. CASE i # Len(code) + 1
      <4>1. i \in Len(c) + 1 .. Len(code')
        BY <1>0, <2>3, <2>5, <3>2
      <4>. QED
        BY <2>4, <4>1 DEF Branches
    <3>. QED
      BY <3>1, <3>2
  <2>8. Len(code') > Len(code)
    BY <1>0, <2>5
  <2>9. /\ Len(source') > 0 /\ Last(source') # "def"
        /\ \A t \in DOMAIN source : source'[t] = source[t]
    <3>1. <<"loop">> \in Seq(Kinds) /\ "assign" \in Kinds /\ source \in Seq(Kinds)
      BY <1>k DEF Types
    <3>2. source' = Append(source \o <<"loop">>, "assign")
      BY <2>1, <3>1
    <3>. QED
      BY <3>1, <3>2, AddSource
  <2>. QED
    BY <1>0, <2>4, <2>5, <2>7, <2>8, <2>9, CodeStep
\* One instruction at the end.
<1>i. ASSUME NEW op, NEW label, code' = Append(code, Instr(op, label, Here))
      PROVE  /\ IsSeq(code') /\ Extends(code, code') /\ Len(code') > Len(code)
             /\ \A i \in Len(code) + 1 .. Len(code') :
                  /\ code'[i].op = op /\ code'[i].label = label
                  /\ code'[i].state = current /\ code'[i].src = Here
  <2>1. /\ IsSeq(code') /\ Extends(code, code') /\ Len(code') = Len(code) + 1
        /\ code'[Len(code) + 1].op = op /\ code'[Len(code) + 1].label = label
        /\ code'[Len(code) + 1].state = current /\ code'[Len(code) + 1].src = Here
    BY <1>0, <1>i, AddInstr
  <2>2. \A i \in Len(code) + 1 .. Len(code') : i = Len(code) + 1
    BY <1>0, <2>1
  <2>. QED
    BY <1>0, <2>1, <2>2
<1>3. ASSUME ReturnLoop PROVE NamesInv' /\ BlocksInv' /\ AimInv'
  <2>. DEFINE label == FunAddress(table, <<LOOP, 0>>)
  <2>1. /\ \E i \in DOMAIN table : table[i].name = <<LOOP, 0>>
        /\ code' = Append(code, Instr("b", label, Here)) /\ source' = Append(source, "loop")
    BY <1>3 DEF ReturnLoop
  <2>2. label + 1 \in DOMAIN tables[current]
    BY <1>l, <2>1
  <2>. HIDE DEF label
  <2>3. /\ IsSeq(code') /\ Extends(code, code') /\ Len(code') > Len(code)
        /\ \A i \in Len(code) + 1 .. Len(code') :
             code'[i].label = label /\ code'[i].state = current
    BY <1>i, <2>1
  <2>4. \A i \in Len(code) + 1 .. Len(code') : Aimed(i)'
    BY <1>0, <2>2, <2>3 DEF Aimed
  <2>5. /\ Len(source') > 0 /\ Last(source') # "def"
        /\ \A t \in DOMAIN source : source'[t] = source[t]
    BY <1>k, <2>1, AddPart
  <2>. QED
    BY <1>0, <2>3, <2>4, <2>5, CodeStep
<1>4. ASSUME Return PROVE NamesInv' /\ BlocksInv' /\ AimInv'
  <2>. DEFINE c == code \o Plain(1, Here)
              e == Instr("br", 0, Here)
  <2>1. code' = Append(c, e) /\ source' = Append(source, "return")
    BY <1>4 DEF Return
  <2>2. e.op = "br"
    BY DEF Instr
  <2>. HIDE DEF e
  <2>3. /\ IsSeq(c) /\ Extends(code, c) /\ Len(c) = Len(code) + 1
        /\ \A i \in Len(code) + 1 .. Len(c) : c[i].op = "plain"
    BY <1>0, AddPlain
  <2>. HIDE DEF c
  <2>4. Extends(c, code') /\ Len(code') = Len(c) + 1 /\ code'[Len(c) + 1] = e /\ IsSeq(code')
    BY <2>1, <2>3, AppendExtends DEF Extends
  <2>5. Extends(code, code')
    BY <1>0, <2>3, <2>4, ExtendsTransitive
  <2>6. ASSUME NEW i \in Len(code) + 1 .. Len(code') PROVE i \notin Branches'
    <3>1. CASE i = Len(code) + 1
      <4>1. i \in DOMAIN c /\ i \in Len(code) + 1 .. Len(c)
        BY <1>0, <2>3, <3>1 DEF IsSeq
      <4>2. code'[i].op = "plain"
        BY <2>3, <2>4, <4>1 DEF Extends
      <4>. QED
        BY <4>2 DEF Branches
    <3>2. CASE i # Len(code) + 1
      <4>1. i = Len(c) + 1
        BY <1>0, <2>3, <2>4, <3>2
      <4>. QED
        BY <2>2, <2>4, <4>1 DEF Branches
    <3>. QED
      BY <3>1, <3>2
  <2>7. Len(code') > Len(code)
    BY <1>0, <2>3, <2>4
  <2>8. /\ Len(source') > 0 /\ Last(source') # "def"
        /\ \A t \in DOMAIN source : source'[t] = source[t]
    BY <1>k, <2>1, AddPart
  <2>. QED
    BY <1>0, <2>4, <2>5, <2>6, <2>7, <2>8, CodeStep
<1>5. ASSUME NEW kind \in {"break", "continue"}, Flow(kind)
      PROVE  NamesInv' /\ BlocksInv' /\ AimInv'
  <2>1. code' = Append(code, Instr("b", 0, Here)) /\ source' = Append(source, kind)
    BY <1>5 DEF Flow
  <2>2. /\ Len(source') > 0 /\ Last(source') = kind /\ source'[Here] = kind
        /\ \A t \in DOMAIN source : source'[t] = source[t]
    BY <1>k, <2>1, AddPart
  <2>3. /\ IsSeq(code') /\ Extends(code, code') /\ Len(code') > Len(code)
        /\ \A i \in Len(code) + 1 .. Len(code') : code'[i].src = Here
    BY <1>i, <2>1
  <2>4. \A i \in Len(code) + 1 .. Len(code') : i \notin Branches'
    BY <2>2, <2>3 DEF Branches
  <2>. QED
    BY <1>0, <2>2, <2>3, <2>4, CodeStep
<1>. QED
  BY <1>1, <1>2, <1>3, <1>4, <1>5

LEMMA NamesOpen ==
  ASSUME IInv, Types, NamesAll, NEW kind \in Opener \ {"def"}, NEW n \in EvalLines,
         NEW before \in Seq(Kinds), OpenBlock(kind, n, before)
  PROVE  NamesAll'
<1>. SUFFICES NamesInv' /\ BlocksInv' /\ AimInv'
  BY DEF NamesAll
<1>. DEFINE src == Here + Len(before)
            c == code \o Plain(Len(before), Here)
            d == c \o Plain(n + 1, src)
            e == Instr("bcond", 0, src)
            p == [kind |-> kind, ret |-> line + Len(before), branch |-> Len(code')]
<1>0. /\ Compiling /\ UNCHANGED <<tables, funcs, current, phase>>
      /\ phase # "done" /\ current \in Made /\ NamesInv /\ BlocksInv /\ AimInv
      /\ IsSeq(code) /\ Len(code) \in Nat /\ Len(before) \in Nat /\ n \in Nat /\ n + 1 \in Nat
  <2>1. Compiling /\ UNCHANGED <<tables, funcs, current, phase>>
    BY DEF OpenBlock
  <2>. QED
    BY <2>1, CompilingMade, Shapes, ControlFlowAssumption DEF NamesAll, IInv, CodeInv
<1>1. /\ code' = c \o Append(Plain(n + 1, src), e)
      /\ open' = Append(open, p) /\ source' = Append(source \o before, kind)
  BY DEF OpenBlock, Condition
<1>2. code' = Append(d, e)
  <2>. DEFINE q == Plain(n + 1, src)
  <2>1. IsSeq(q)
    BY <1>0, PlainSeq
  <2>2. IsSeq(c)
    BY <1>0, AddPlain
  <2>. HIDE DEF q, c, e
  <2>3. c \o Append(q, e) = Append(c \o q, e)
    BY <2>1, <2>2, AppendConcat
  <2>. QED
    BY <1>1, <2>3 DEF q
<1>3. e.op = "bcond" /\ e.state = current
  BY DEF Instr
<1>4. p.kind = kind /\ p.ret = line + Len(before) /\ p.branch = Len(code')
  OBVIOUS
<1>. HIDE DEF e, p, src
<1>5. /\ IsSeq(c) /\ Extends(code, c) /\ Len(c) = Len(code) + Len(before)
      /\ \A i \in Len(code) + 1 .. Len(c) : c[i].op = "plain"
  BY <1>0, AddPlain
<1>. HIDE DEF c
<1>6. /\ IsSeq(d) /\ Extends(c, d) /\ Len(d) = Len(c) + n + 1
      /\ \A i \in Len(c) + 1 .. Len(d) : d[i].op = "plain"
  <2>1. /\ IsSeq(d) /\ Extends(c, d) /\ Len(d) = Len(c) + (n + 1)
        /\ \A i \in Len(c) + 1 .. Len(d) : d[i].op = "plain"
    <3>. DEFINE m == n + 1
    <3>1. m \in Nat /\ d = c \o Plain(m, src)
      BY <1>0
    <3>. HIDE DEF d, m
    <3>2. /\ IsSeq(d) /\ Extends(c, d) /\ Len(d) = Len(c) + m
          /\ \A i \in Len(c) + 1 .. Len(d) : d[i].op = "plain"
      BY <1>5, <3>1, AddPlain
    <3>. QED
      BY <3>2 DEF m
  <2>2. Len(c) \in Nat
    BY <1>0, <1>5
  <2>. HIDE DEF d
  <2>. QED
    BY <1>0, <2>1, <2>2
<1>. HIDE DEF d
<1>7. Extends(d, code') /\ IsSeq(code') /\ Len(code') = Len(d) + 1 /\ code'[Len(d) + 1] = e
  BY <1>2, <1>6, AppendExtends DEF Extends
<1>8. Extends(c, code') /\ Extends(code, code')
  <2>1. Extends(c, code')
    BY <1>5, <1>6, <1>7, ExtendsTransitive
  <2>. QED
    BY <1>0, <1>5, <2>1, ExtendsTransitive
<1>9. Len(c) \in Nat /\ Len(d) \in Nat /\ DOMAIN c = 1 .. Len(c) /\ DOMAIN d = 1 .. Len(d)
  BY <1>5, <1>6 DEF IsSeq
<1>10. Len(code') > Len(code) /\ code'[Len(code')].state = current
  BY <1>0, <1>3, <1>5, <1>6, <1>7
<1>11. ASSUME NEW i \in Len(code) + 1 .. Len(code') - 1 PROVE i \notin Branches'
  <2>1. code'[i].op = "plain"
    <3>1. CASE i <= Len(c)
      <4>1. i \in DOMAIN c /\ i \in Len(code) + 1 .. Len(c)
        BY <1>0, <1>9, <3>1
      <4>. QED
        BY <1>5, <1>8, <4>1 DEF Extends
    <3>2. CASE i > Len(c)
      <4>1. i \in DOMAIN d /\ i \in Len(c) + 1 .. Len(d)
        BY <1>0, <1>7, <1>9, <3>2
      <4>. QED
        BY <1>6, <1>7, <4>1 DEF Extends
    <3>. QED
      BY <1>0, <1>9, <3>1, <3>2
  <2>. QED
    BY <2>1 DEF Branches
<1>12. p.kind # "def" /\ p.ret >= Entry(current)
  <2>1. Entry(current) \in 0..line /\ line \in Nat
    BY <1>0, EntryIn
  <2>. QED
    BY <1>0, <1>4, <2>1
<1>13. /\ Len(source') > 0 /\ Last(source') # "def"
       /\ \A t \in DOMAIN source : source'[t] = source[t]
  <2>1. kind \in Kinds
    BY DEF Kinds
  <2>. QED
    BY <1>1, <2>1, AddSource
<1>. QED
  BY <1>0, <1>1, <1>4, <1>7, <1>8, <1>10, <1>11, <1>12, <1>13, PushStep

LEMMA NamesClose ==
  ASSUME IInv, Types, NamesAll, EndFunction
  PROVE  NamesAll'
<1>1. /\ open # <<>> /\ Last(open).kind = "def" /\ HasStatement /\ current' = 0 /\ open' = <<>>
      /\ source' = Append(source, "enddef") /\ UNCHANGED <<code, tables, funcs, phase>>
  BY DEF EndFunction
<1>2. NamesInv /\ BlocksInv /\ AimInv
  BY DEF NamesAll
<1>3. NamesInv'
  BY <1>1, <1>2, NamesSame
<1>4. /\ Len(source') > 0 /\ Last(source') = "enddef"
      /\ \A t \in DOMAIN source : source'[t] = source[t]
  <2>1. "enddef" \in Kinds
    BY DEF Kinds, Closer
  <2>. QED
    BY <1>1, <2>1, AddPart
<1>5. \A j : j \in DOMAIN open' => FALSE
  BY <1>1
<1>6. BlocksInv'
  <2>1. Last(source) # "def" /\ phase # "done"
    BY <1>1, <1>2 DEF HasStatement, Opener, BlocksInv
  <2>2. \A k \in 1 .. Len(funcs) : funcs[k].address < line
    BY <1>2, <2>1 DEF BlocksInv
  <2>. QED
    BY <1>1, <1>4, <1>5, <2>1, <2>2 DEF BlocksInv, line
<1>7. AimInv'
  <2>1. KeepCode(0) /\ 0 \notin DOMAIN code
    BY <1>1, Shapes DEF KeepCode
  <2>2. ASSUME NEW j \in DOMAIN open PROVE open[j].branch = 0
    <3>1. /\ Len(open) \in Nat /\ DOMAIN open = 1 .. Len(open) /\ Last(open) = open[Len(open)]
      BY Shapes DEF Last
    <3>2. Len(open) \in DOMAIN open
      BY <2>2, <3>1
    <3>3. Len(open) = 1
      BY <1>1, <1>2, <3>1, <3>2 DEF BlocksInv
    <3>4. j = Len(open)
      BY <2>2, <3>1, <3>3
    <3>. QED
      BY <1>1, <1>2, <3>1, <3>2, <3>4 DEF BlocksInv
  <2>. QED
    BY <1>1, <1>2, <1>4, <1>5, <2>1, <2>2, AimStep
<1>. QED
  BY <1>3, <1>6, <1>7 DEF NamesAll

LEMMA NamesFinish ==
  ASSUME IInv, Types, NamesAll, Finish
  PROVE  NamesAll'
<1>. DEFINE e == Instr("halt", 0, Here)
<1>1. /\ phase = "main" /\ open = <<>> /\ phase' = "done" /\ code' = Append(code, e)
      /\ source' = Append(source, "halt") /\ UNCHANGED <<tables, funcs, current, open>>
  BY DEF Finish
<1>2. NamesInv /\ BlocksInv /\ AimInv /\ IsSeq(code)
  BY DEF NamesAll, IInv, CodeInv
<1>3. NamesInv'
  <2>1. (phase' = "functions") <=> (phase = "functions")
    BY <1>1
  <2>. QED
    BY <1>1, <1>2, <2>1, NamesSame
<1>4. e.op = "halt"
  BY DEF Instr
<1>. HIDE DEF e
<1>5. IsSeq(code') /\ Extends(code, code') /\ Len(code') = Len(code) + 1 /\ code'[Len(code) + 1] = e
  BY <1>1, <1>2, AppendExtends DEF Extends
<1>6. /\ Len(source') > 0 /\ Last(source') = "halt"
      /\ \A t \in DOMAIN source : source'[t] = source[t]
  <2>1. "halt" \in Kinds
    BY DEF Kinds
  <2>. QED
    BY <1>1, <2>1, AddPart
<1>7. BlocksInv'
  <2>1. line \in Nat /\ line' = line + 1 /\ \A k \in 1 .. Len(funcs) : funcs[k].address \in 0..line
    BY <1>5, Shapes DEF line
  <2>2. ASSUME NEW k \in DOMAIN tables[0] PROVE tables[0][k].address < line'
    <3>1. 0 \in 0 .. Len(funcs)
      BY Shapes
    <3>2. tables[0][k].address \in 0..line
      BY <3>1, Shapes
    <3>. QED
      BY <2>1, <3>2
  <2>3. \A k \in 1 .. Len(funcs) : funcs[k].address < line'
    BY <2>1
  <2>4. current = 0
    BY <1>1, <1>2 DEF BlocksInv
  <2>. QED
    BY <1>1, <1>6, <2>2, <2>3, <2>4 DEF BlocksInv
<1>8. AimInv'
  <2>1. KeepCode(0) /\ 0 \notin DOMAIN code
    BY <1>5, ExtendsKeep, Shapes
  <2>2. ASSUME NEW i \in DOMAIN code', i \notin DOMAIN code PROVE i \notin Branches'
    <3>1. i \in Len(code) + 1 .. Len(code') /\ Len(code) \in Nat
      BY <1>5, <2>2, ExtendsKeep, Shapes
    <3>2. i = Len(code) + 1
      BY <1>5, <3>1
    <3>. QED
      BY <1>4, <1>5, <3>2 DEF Branches
  <2>3. \A j : j \in DOMAIN open \/ j \in DOMAIN open' => FALSE
    BY <1>1
  <2>. QED
    BY <1>1, <1>2, <1>6, <2>1, <2>2, <2>3, AimStep
<1>. QED
  BY <1>3, <1>7, <1>8 DEF NamesAll

\* Labels are added one by one.
LEMMA OneLabel ==
  ASSUME NEW n \in Nat, NEW t \in Seq(TableEntries(n)), NEW address \in 0..n
  PROVE  LET u == AddLabel(t, address)
         IN  /\ u \in Seq(TableEntries(n)) /\ Len(u) = Len(t) + 1
             /\ \A k \in 1 .. Len(t) : u[k] = t[k]
             /\ IsLabel(u, Len(t) + 1) /\ u[Len(t) + 1].address = address
             /\ LabelAddress(u) = Len(t)
<1>. DEFINE u == AddLabel(t, address)
<1>1. u = AddLabel(t, address) /\ Len(t) \in Nat
  OBVIOUS
<1>. HIDE DEF u
<1>2. /\ u \in Seq(TableEntries(n)) /\ Len(u) = Len(t) + 1
      /\ \A k \in 1 .. Len(t) : u[k] = t[k]
      /\ u[Len(t) + 1].name = <<"label", Len(t)>> /\ u[Len(t) + 1].address = address
      /\ LabelAddress(u) = Len(t)
  <2>. DEFINE e == [name |-> <<"label", Len(t)>>, address |-> address]
  <2>1. e \in TableEntries(n) /\ e.name = <<"label", Len(t)>> /\ e.address = address
    BY <1>1 DEF TableEntries, EntryNames
  <2>2. u = Append(t, e)
    BY <1>1 DEF AddLabel
  <2>. HIDE DEF e
  <2>. QED
    BY <2>1, <2>2 DEF LabelAddress
<1>3. IsLabel(u, Len(t) + 1)
  <2>1. (Len(t) + 1) - 1 = Len(t)
    BY <1>1
  <2>. QED
    BY <1>2, <2>1 DEF IsLabel
<1>. QED
  BY <1>2, <1>3 DEF u

LEMMA NamesEndLoop ==
  ASSUME IInv, Types, NamesAll, EndLoop
  PROVE  NamesAll'
<1>. SUFFICES NamesInv' /\ BlocksInv' /\ AimInv'
  BY DEF NamesAll
<1>. DEFINE top == Last(open)
            updated == IF top.kind = "for" THEN <<"update">> ELSE <<>>
            back == AddLabel(table, top.ret)
            c == code \o Plain(Len(updated), Here)
            src == Here + Len(updated)
            e == Instr("b", LabelAddress(back), src)
            looped == Append(c, e)
            out == AddLabel(back, Len(looped))
            label == LabelAddress(out)
<1>1. /\ open # <<>> /\ top.kind \in {"for", "while"} /\ HasStatement
      /\ code' = WithLabel(looped, top.branch, label)
      /\ tables' = [tables EXCEPT ![current] = out]
      /\ open' = Front(open) /\ source' = Append(source \o updated, "endloop")
      /\ UNCHANGED <<funcs, current, phase>>
  BY DEF EndLoop, WithLabel
<1>2. /\ NamesInv /\ BlocksInv /\ AimInv /\ IsSeq(code) /\ Len(code) \in Nat /\ line = Len(code)
      /\ DOMAIN code = 1 .. Len(code)
      /\ current \in Made /\ top.kind # "def"
  <2>1. NamesInv /\ BlocksInv /\ AimInv /\ IsSeq(code) /\ top.kind # "def"
    BY <1>1 DEF NamesAll, IInv, CodeInv
  <2>. QED
    BY <1>1, <2>1, CompilingMade, Shapes DEF line
<1>3. /\ Len(open) \in DOMAIN open /\ top = open[Len(open)]
  <2>1. open \in Seq(Blocks(line))
    BY DEF Types
  <2>. QED
    BY <1>1, <2>1 DEF Last
<1>4. PICK b : b = top.branch
  OBVIOUS
<1>5. b \in DOMAIN code /\ code[b].state = current
  BY <1>2, <1>3, <1>4, OpenIn
<1>6. top.ret \in 0..line /\ top.ret >= Entry(current)
  BY <1>1, <1>2, <1>3, Shapes DEF BlocksInv
<1>7. updated \in Seq(Kinds) /\ Len(updated) \in Nat
  <2>1. "update" \in Kinds
    BY DEF Kinds
  <2>2. <<"update">> \in Seq(Kinds) /\ <<>> \in Seq(Kinds)
    BY <2>1
  <2>3. updated \in Seq(Kinds)
    BY <2>2
  <2>. HIDE DEF updated
  <2>. QED
    BY <2>3
<1>. HIDE DEF updated
\* The code.
<1>8. /\ IsSeq(c) /\ Extends(code, c) /\ Len(c) = Len(code) + Len(updated)
      /\ \A i \in Len(code) + 1 .. Len(c) : c[i].op = "plain"
  BY <1>2, <1>7, AddPlain
<1>9. e.op = "b" /\ e.label = LabelAddress(back) /\ e.state = current
  BY DEF Instr
<1>. HIDE DEF c, e, src
<1>10. /\ Extends(c, looped) /\ IsSeq(looped) /\ Len(looped) = Len(c) + 1
       /\ looped[Len(c) + 1] = e
  BY <1>8, AppendExtends DEF Extends
<1>11. Extends(code, looped)
  BY <1>2, <1>8, <1>10, ExtendsTransitive
<1>12. Len(c) \in Nat /\ Len(looped) \in Nat /\ DOMAIN c = 1 .. Len(c)
       /\ DOMAIN looped = 1 .. Len(looped) /\ Len(looped) >= line
  <2>1. Len(c) \in Nat /\ DOMAIN c = 1 .. Len(c) /\ Len(looped) \in Nat
        /\ DOMAIN looped = 1 .. Len(looped)
    BY <1>8, <1>10 DEF IsSeq
  <2>. QED
    BY <1>2, <1>7, <1>8, <1>10, <2>1
<1>. HIDE DEF looped, label, top
<1>13. /\ IsSeq(code') /\ Len(code') = Len(looped) /\ code'[b].label = label
       /\ \A i \in DOMAIN looped : i # b => code'[i] = looped[i]
       /\ KeepCode(b)
  <2>1. code' = WithLabel(looped, b, label)
    BY <1>1, <1>4
  <2>. DEFINE f == WithLabel(looped, b, label)
  <2>2. /\ IsSeq(f) /\ Len(f) = Len(looped) /\ f[b].label = label
        /\ \A i \in DOMAIN looped : i # b => f[i] = looped[i]
        /\ \A i \in DOMAIN code : /\ i \in DOMAIN f /\ f[i].op = code[i].op
                                  /\ f[i].state = code[i].state /\ f[i].src = code[i].src
                                  /\ i = b \/ f[i].label = code[i].label
    BY <1>5, <1>10, <1>11, PatchKeep
  <2>. HIDE DEF f
  <2>. QED
    BY <2>1, <2>2 DEF KeepCode, f
\* The labels.
<1>14. table \in Seq(TableEntries(line)) /\ line \in Nat /\ table = tables[current]
       /\ Len(table) \in Nat
  BY <1>2, Shapes DEF table
<1>15. /\ back \in Seq(TableEntries(line)) /\ Len(back) = Len(table) + 1
       /\ \A k \in 1 .. Len(table) : back[k] = table[k]
       /\ IsLabel(back, Len(table) + 1) /\ back[Len(table) + 1].address = top.ret
       /\ LabelAddress(back) = Len(table)
  BY <1>6, <1>14, OneLabel
<1>. HIDE DEF back
<1>16. back \in Seq(TableEntries(Len(looped))) /\ Len(looped) \in 0 .. Len(looped)
  <2>1. TableEntries(line) \subseteq TableEntries(Len(looped))
    BY <1>12, <1>14 DEF TableEntries
  <2>. QED
    BY <1>12, <1>15, <2>1, SeqMonotonic
<1>17. /\ out \in Seq(TableEntries(Len(looped))) /\ Len(out) = Len(back) + 1
       /\ \A k \in 1 .. Len(back) : out[k] = back[k]
       /\ IsLabel(out, Len(back) + 1) /\ out[Len(back) + 1].address = Len(looped)
       /\ label = Len(back)
  BY <1>12, <1>16, OneLabel DEF label
<1>. HIDE DEF out
<1>18. /\ Len(out) = Len(table) + 2 /\ DOMAIN out = 1 .. Len(out) /\ Len(out) \in Nat
       /\ label + 1 \in 1 .. Len(out) /\ Len(back) = Len(table) + 1
  BY <1>14, <1>15, <1>17
<1>19. \A k \in 1 .. Len(table) : out[k] = table[k]
  BY <1>14, <1>15, <1>17
<1>20. ASSUME NEW k \in Len(table) + 1 .. Len(out)
       PROVE  IsLabel(out, k) /\ out[k].address >= Entry(current)
  <2>1. Entry(current) \in 0..line
    BY <1>2, EntryIn
  <2>2. CASE k = Len(table) + 1
    <3>1. out[k] = back[k] /\ IsLabel(back, k) /\ back[k].address = top.ret
      BY <1>14, <1>15, <1>17, <1>18, <2>2
    <3>. QED
      BY <1>6, <3>1 DEF IsLabel
  <2>3. CASE k = Len(back) + 1
    BY <1>12, <1>14, <1>17, <2>1, <2>3
  <2>4. k = Len(table) + 1 \/ k = Len(back) + 1
    BY <1>14, <1>18
  <2>. QED
    BY <2>2, <2>3, <2>4
\* The new branch is back to the loop.
<1>21. ASSUME NEW i \in Len(code) + 1 .. Len(code') PROVE i \notin Branches' \/ Aimed(i)'
  <2>1. i # b /\ i \in DOMAIN looped /\ code'[i] = looped[i]
    <3>1. i # b /\ i \in DOMAIN looped
      BY <1>2, <1>5, <1>12, <1>13
    <3>. QED
      BY <1>13, <3>1
  <2>2. CASE i <= Len(c)
    <3>1. i \in DOMAIN c /\ i \in Len(code) + 1 .. Len(c)
      BY <1>2, <1>12, <2>2
    <3>2. code'[i].op = "plain"
      BY <1>8, <1>10, <2>1, <3>1 DEF Extends
    <3>. QED
      BY <3>2 DEF Branches
  <2>3. CASE i > Len(c)
    <3>1. i = Len(c) + 1
      BY <1>10, <1>12, <1>13, <2>3
    <3>2. code'[i].state = current /\ code'[i].label = Len(table)
      BY <1>9, <1>10, <1>15, <2>1, <3>1
    <3>3. tables'[current] = out
      BY <1>1, <1>2, Shapes DEF IInv, TablesInv
    <3>4. Len(table) + 1 \in DOMAIN out
      BY <1>14, <1>18
    <3>. QED
      BY <3>2, <3>3, <3>4 DEF Aimed
  <2>. QED
    BY <1>2, <1>12, <2>2, <2>3
<1>22. /\ Len(source') > 0 /\ Last(source') # "def"
       /\ \A t \in DOMAIN source : source'[t] = source[t]
  <2>1. "endloop" \in Kinds
    BY DEF Kinds, Closer
  <2>. QED
    BY <1>1, <1>7, <2>1, AddSource
<1>23. Len(code') >= Len(code) /\ Len(out) >= Len(table)
  BY <1>2, <1>12, <1>13, <1>14, <1>18
<1>24. open # <<>> /\ Last(open).kind # "def" /\ b = Last(open).branch
  BY <1>1, <1>2, <1>4 DEF top
<1>. QED
  BY <1>1, <1>2, <1>13, <1>18, <1>19, <1>20, <1>21, <1>22, <1>23, <1>24, PopStep

\* What the two ends of an if share: a block on top whose branch is in the code.
LEMMA TopBlock ==
  ASSUME IInv, Types, NamesAll, open # <<>>, Last(open).kind # "def"
  PROVE  /\ Last(open).branch \in DOMAIN code /\ code[Last(open).branch].state = current
         /\ current \in Made /\ current \in States /\ Entry(current) \in 0..line
         /\ table \in Seq(TableEntries(line)) /\ Len(table) \in Nat /\ table = tables[current]
         /\ line = Len(code) /\ line \in Nat /\ DOMAIN code = 1 .. Len(code)
         /\ IsSeq(code) /\ Extends(code, code)
         /\ tables = [s \in States |-> tables[s]]
<1>0. NamesInv /\ BlocksInv /\ AimInv
  BY DEF NamesAll
<1>1. Len(open) \in DOMAIN open /\ Last(open) = open[Len(open)]
  <2>1. open \in Seq(Blocks(line))
    BY DEF Types
  <2>. QED
    BY <2>1 DEF Last
<1>2. Last(open).branch \in DOMAIN code /\ code[Last(open).branch].state = current
  BY <1>0, <1>1, OpenIn
<1>3. current \in Made
  BY <1>0, CompilingMade
<1>4. Entry(current) \in 0..line
  BY <1>0, <1>3, EntryIn
<1>5. IsSeq(code) /\ Extends(code, code) /\ Len(code) \in Nat
  BY Shapes DEF IInv, CodeInv, Extends
<1>6. tables = [s \in States |-> tables[s]]
  BY DEF IInv, TablesInv
<1>. QED
  BY <1>2, <1>3, <1>4, <1>5, <1>6, Shapes DEF table

LEMMA NamesElse ==
  ASSUME IInv, Types, NamesAll, Else
  PROVE  NamesAll'
<1>. SUFFICES NamesInv' /\ BlocksInv' /\ AimInv'
  BY DEF NamesAll
<1>. DEFINE top == Last(open)
            other == AddLabel(table, line + 1)
            label == LabelAddress(other)
            c == WithLabel(code, top.branch, label)
            e == Instr("b", 0, Here)
            p == [kind |-> "else", ret |-> 0, branch |-> line + 1]
            n == line + 1
<1>1. /\ open # <<>> /\ top.kind = "if"
      /\ code' = Append(c, e) /\ tables' = [tables EXCEPT ![current] = other]
      /\ open' = Append(Front(open), p) /\ source' = Append(source, "else")
      /\ UNCHANGED <<funcs, current, phase>>
  BY DEF Else, WithLabel
<1>. HIDE DEF top
<1>2. /\ top.branch \in DOMAIN code /\ code[top.branch].state = current
      /\ current \in Made /\ current \in States /\ Entry(current) \in 0..line
      /\ table \in Seq(TableEntries(line)) /\ Len(table) \in Nat /\ table = tables[current]
      /\ line = Len(code) /\ line \in Nat /\ DOMAIN code = 1 .. Len(code)
      /\ IsSeq(code) /\ Extends(code, code)
      /\ tables = [s \in States |-> tables[s]]
  BY <1>1, TopBlock DEF top
<1>3. PICK b : b = top.branch
  OBVIOUS
<1>4. /\ other \in Seq(TableEntries(n)) /\ Len(other) = Len(table) + 1
      /\ \A k \in 1 .. Len(table) : other[k] = table[k]
      /\ IsLabel(other, Len(table) + 1) /\ other[Len(table) + 1].address = n
      /\ label = Len(table)
  <2>1. n \in Nat /\ n \in 0..n
    BY <1>2
  <2>2. TableEntries(line) \subseteq TableEntries(n)
    BY <1>2 DEF TableEntries
  <2>3. table \in Seq(TableEntries(n))
    BY <1>2, <2>2, SeqMonotonic
  <2>4. other = AddLabel(table, n)
    OBVIOUS
  <2>. HIDE DEF n
  <2>. QED
    BY <2>1, <2>3, <2>4, OneLabel
<1>. HIDE DEF other, label
<1>5. /\ IsSeq(c) /\ Len(c) = Len(code) /\ c[b].label = label
      /\ \A i \in DOMAIN code : /\ i \in DOMAIN c /\ c[i].op = code[i].op
                                /\ c[i].state = code[i].state /\ c[i].src = code[i].src
                                /\ i = b \/ c[i].label = code[i].label
  BY <1>2, <1>3, PatchKeep
<1>6. e.op = "b" /\ e.state = current /\ p.kind = "else" /\ p.branch = n
  BY DEF Instr
<1>. HIDE DEF c, e, p
<1>7. Extends(c, code') /\ IsSeq(code') /\ Len(code') = Len(code) + 1 /\ code'[Len(code) + 1] = e
  BY <1>1, <1>5, AppendExtends DEF Extends
<1>8. KeepCode(b) /\ code'[b].label = label
  BY <1>2, <1>3, <1>5, <1>7 DEF KeepCode, Extends
<1>9. DOMAIN other = 1 .. Len(other) /\ Len(other) \in Nat /\ Len(other) >= Len(table)
      /\ label + 1 \in 1 .. Len(other)
  BY <1>2, <1>4
<1>10. ASSUME NEW k \in Len(table) + 1 .. Len(other)
       PROVE  IsLabel(other, k) /\ other[k].address >= Entry(current)
  <2>1. k = Len(table) + 1
    BY <1>2, <1>4
  <2>. QED
    BY <1>2, <1>4, <2>1
<1>11. ASSUME NEW i \in Len(code) + 1 .. Len(code')
       PROVE  \E k \in DOMAIN open' : open'[k].branch = i
  <2>1. IsSeq(Front(open))
    <3>1. open \in Seq(Blocks(line))
      BY DEF Types
    <3>2. Front(open) \in Seq(Blocks(line))
      BY <1>1, <3>1 DEF Front
    <3>. QED
      BY <3>2 DEF IsSeq
  <2>. DEFINE o == Front(open)
  <2>2. IsSeq(o) /\ open' = Append(o, p)
    BY <1>1, <2>1
  <2>. HIDE DEF o
  <2>3. Extends(o, open') /\ Len(open') = Len(o) + 1 /\ open'[Len(o) + 1] = p
    BY <2>2, AppendExtends
  <2>4. Len(o) + 1 \in DOMAIN open'
    BY <2>2, <2>3 DEF Extends, IsSeq
  <2>5. i = n
    BY <1>2, <1>7
  <2>. QED
    BY <1>6, <2>3, <2>4, <2>5
<1>12. /\ Len(source') > 0 /\ Last(source') # "def"
       /\ \A t \in DOMAIN source : source'[t] = source[t]
  <2>1. "else" \in Kinds
    BY DEF Kinds
  <2>. QED
    BY <1>1, <2>1, AddPart
<1>13. code'[p.branch].state = current
  BY <1>2, <1>6, <1>7
<1>14. \E q : open' = Append(Front(open), q) /\ q.kind = "else" /\ code'[q.branch].state = current
  BY <1>1, <1>6, <1>13
<1>15. NamesInv /\ BlocksInv /\ AimInv /\ Len(code') >= Len(code)
       /\ open # <<>> /\ Last(open).kind # "def" /\ b = Last(open).branch
  BY <1>1, <1>2, <1>3, <1>7 DEF NamesAll, top
<1>. QED
  BY <1>1, <1>4, <1>7, <1>8, <1>9, <1>10, <1>11, <1>12, <1>14, <1>15, PopStep

LEMMA NamesEndIf ==
  ASSUME IInv, Types, NamesAll, EndIf
  PROVE  NamesAll'
<1>. SUFFICES NamesInv' /\ BlocksInv' /\ AimInv'
  BY DEF NamesAll
<1>. DEFINE top == Last(open)
            out == AddLabel(table, line)
            label == LabelAddress(out)
            c == WithLabel(code, top.branch, label)
<1>1. /\ open # <<>> /\ top.kind = "else"
      /\ code' = c /\ tables' = [tables EXCEPT ![current] = out]
      /\ open' = Front(open) /\ source' = Append(source, "endif")
      /\ UNCHANGED <<funcs, current, phase>>
  BY DEF EndIf, WithLabel
<1>. HIDE DEF top
<1>2. /\ top.branch \in DOMAIN code /\ code[top.branch].state = current
      /\ current \in Made /\ current \in States /\ Entry(current) \in 0..line
      /\ table \in Seq(TableEntries(line)) /\ Len(table) \in Nat /\ table = tables[current]
      /\ line = Len(code) /\ line \in Nat /\ DOMAIN code = 1 .. Len(code)
      /\ IsSeq(code) /\ Extends(code, code)
      /\ tables = [s \in States |-> tables[s]]
  BY <1>1, TopBlock DEF top
<1>3. PICK b : b = top.branch
  OBVIOUS
<1>4. /\ out \in Seq(TableEntries(line)) /\ Len(out) = Len(table) + 1
      /\ \A k \in 1 .. Len(table) : out[k] = table[k]
      /\ IsLabel(out, Len(table) + 1) /\ out[Len(table) + 1].address = line
      /\ label = Len(table)
  <2>1. line \in 0..line
    BY <1>2
  <2>. QED
    BY <1>2, <2>1, OneLabel
<1>. HIDE DEF out, label
<1>5. /\ IsSeq(c) /\ Len(c) = Len(code) /\ c[b].label = label
      /\ \A i \in DOMAIN code : /\ i \in DOMAIN c /\ c[i].op = code[i].op
                                /\ c[i].state = code[i].state /\ c[i].src = code[i].src
                                /\ i = b \/ c[i].label = code[i].label
  BY <1>2, <1>3, PatchKeep
<1>. HIDE DEF c
<1>6. KeepCode(b) /\ code'[b].label = label /\ IsSeq(code') /\ Len(code') = Len(code)
  BY <1>1, <1>5 DEF KeepCode
<1>7. DOMAIN out = 1 .. Len(out) /\ Len(out) \in Nat /\ Len(out) >= Len(table)
      /\ label + 1 \in 1 .. Len(out)
  BY <1>2, <1>4
<1>8. ASSUME NEW k \in Len(table) + 1 .. Len(out)
      PROVE  IsLabel(out, k) /\ out[k].address >= Entry(current)
  <2>1. k = Len(table) + 1
    BY <1>2, <1>4
  <2>. QED
    BY <1>2, <1>4, <2>1
<1>9. \A i \in Len(code) + 1 .. Len(code') : FALSE
  BY <1>2, <1>6
<1>10. /\ Len(source') > 0 /\ Last(source') # "def"
       /\ \A t \in DOMAIN source : source'[t] = source[t]
  <2>1. "endif" \in Kinds
    BY DEF Kinds, Closer
  <2>. QED
    BY <1>1, <2>1, AddPart
<1>11. NamesInv /\ BlocksInv /\ AimInv /\ Len(code') >= Len(code)
       /\ open # <<>> /\ Last(open).kind # "def" /\ b = Last(open).branch
  BY <1>1, <1>2, <1>3, <1>6 DEF NamesAll, top
<1>. QED
  BY <1>1, <1>4, <1>6, <1>7, <1>8, <1>9, <1>10, <1>11, PopStep

LEMMA NamesInit == Init => NamesAll
<1>. SUFFICES ASSUME Init PROVE NamesAll
  OBVIOUS
<1>1. /\ tables = [s \in States |-> <<>>] /\ funcs = <<>> /\ current = 0 /\ open = <<>>
      /\ phase = "functions" /\ source = <<"start">> /\ Len(funcs) = 0 /\ 0 \in States
  BY ControlFlowAssumption DEF Init, States
<1>2. tables[0] = <<>> /\ Len(tables[0]) = 0
  BY <1>1
<1>3. \A j \in DOMAIN open : FALSE
  BY <1>1
<1>4. Made = {}
  BY <1>1 DEF Made
<1>5. NamesInv
  BY <1>1, <1>2, <1>4
  DEF NamesInv, FunctionNames, FunctionEntries, OwnEntries, OwnLabels, MainEntry
<1>6. BlocksInv
  <2>1. Len(source) > 0 /\ Last(source) = "start"
    BY <1>1 DEF Last
  <2>. QED
    BY <1>1, <1>3, <2>1 DEF BlocksInv
<1>7. AimInv
  <2>1. DOMAIN code = {1} /\ code[1].state = 0
    <3>. DEFINE b == [op |-> "b", label |-> 0, state |-> 0, src |-> 1]
    <3>1. code = <<b>> /\ b.state = 0
      BY DEF Init
    <3>. HIDE DEF b
    <3>. QED
      BY <3>1
  <2>. QED
    BY <1>1, <1>3, <2>1 DEF AimInv, Branches
<1>. QED
  BY <1>5, <1>6, <1>7 DEF NamesAll

LEMMA NamesStutter ==
  ASSUME NamesAll, UNCHANGED vars
  PROVE  NamesAll'
<1>1. UNCHANGED <<tables, funcs>> /\ (phase' = "functions" <=> phase = "functions")
  BY DEF vars
<1>2. NamesInv' /\ \A s : Entry(s)' = Entry(s)
  <2>1. NamesInv
    BY DEF NamesAll
  <2>. QED
    BY <1>1, <2>1, NamesSame
<1>3. BlocksInv'
  <2>1. Entry(current)' = Entry(current)
    BY DEF vars, Entry, Begin
  <2>. QED
    BY <2>1 DEF vars, NamesAll, BlocksInv, line
<1>4. AimInv'
  BY DEF vars, NamesAll, AimInv, Branches, Aimed
<1>. QED
  BY <1>2, <1>3, <1>4 DEF NamesAll

LEMMA NamesNext == IInv /\ Types /\ NamesAll /\ [Next]_vars => NamesAll'
<1>. SUFFICES ASSUME IInv, Types, NamesAll, [Next]_vars PROVE NamesAll'
  OBVIOUS
<1>0. NamesInv /\ BlocksInv /\ AimInv
  BY DEF NamesAll
<1>1. ASSUME NEW name \in Functions, FunctionDef(name) PROVE NamesAll'
  BY <1>0, <1>1, NamesDefine DEF NamesAll
<1>2. ASSUME StartMain PROVE NamesAll'
  BY <1>0, <1>2, NamesStart DEF NamesAll
<1>3. ASSUME NEW n \in EvalLines, For(n) \/ While(n) \/ If(n) PROVE NamesAll'
  <2>1. <<>> \in Seq(Kinds) /\ <<"assign">> \in Seq(Kinds)
    BY DEF Kinds
  <2>2. {"for", "while", "if"} \subseteq Opener \ {"def"}
    BY DEF Opener
  <2>3. CASE For(n)
    BY <2>1, <2>2, <2>3, NamesOpen DEF For
  <2>4. CASE While(n)
    BY <2>1, <2>2, <2>4, NamesOpen DEF While
  <2>5. CASE If(n)
    BY <2>1, <2>2, <2>5, NamesOpen DEF If
  <2>. QED
    BY <1>3, <2>3, <2>4, <2>5
<1>. QED
  BY <1>1, <1>2, <1>3, NamesClose, NamesFinish, NamesStatement, NamesEndLoop, NamesElse,
     NamesEndIf, NamesStutter DEF Next

\* A name is in a table once.
LEMMA NamesOnce ==
  ASSUME "main" \notin Functions, IInv, Types, NamesInv, NEW s \in Made,
         NEW j \in 1 .. Len(tables[s]), NEW k \in 1 .. Len(tables[s]),
         tables[s][j].name = tables[s][k].name
  PROVE  j = k
<1>0. /\ s \in 0 .. Len(funcs) /\ Begin(s) \in 1 .. Len(tables[s]) /\ Len(tables[s]) \in Nat
      /\ Len(funcs) \in Nat
      /\ s # 0 => Begin(s) = s
      /\ s = 0 => Begin(s) = Len(funcs) + 1
  BY Begins, Shapes
\* The entries that are no labels.
<1>1. ASSUME NEW i \in 1 .. Begin(s)
      PROVE  \/ i \in 1 .. Len(funcs) /\ tables[s][i] = funcs[i]
             \/ s = 0 /\ i = Begin(s) /\ tables[s][i].name = MAIN
  <2>1. CASE s # 0
    <3>1. s \in 1 .. Len(funcs) /\ i \in 1..s
      BY <1>0, <2>1
    <3>2. tables[s][i] = funcs[i]
      BY <3>1 DEF NamesInv, FunctionEntries
    <3>3. i \in 1 .. Len(funcs)
      BY <1>0, <3>1
    <3>. QED
      BY <3>2, <3>3
  <2>2. CASE s = 0 /\ i # Begin(s)
    <3>1. i \in 1 .. Len(funcs)
      BY <1>0, <2>2
    <3>. QED
      BY <2>2, <3>1 DEF NamesInv, FunctionEntries
  <2>3. CASE s = 0 /\ i = Begin(s)
    <3>1. phase # "functions"
      BY <2>3 DEF Made
    <3>. QED
      BY <1>0, <2>3, <3>1 DEF NamesInv, MainEntry
  <2>. QED
    BY <2>1, <2>2, <2>3
<1>2. ASSUME NEW i \in 1 .. Len(funcs)
      PROVE  \E x \in Functions : funcs[i].name = <<x, 0>>
  BY DEF NamesInv, FunctionNames
<1>3. ASSUME NEW i \in 1 .. Begin(s) PROVE \E x : tables[s][i].name = <<x, 0>>
  BY <1>1, <1>2 DEF MAIN
<1>4. ASSUME NEW i \in Begin(s) + 1 .. Len(tables[s])
      PROVE  tables[s][i].name = <<"label", i - 1>> /\ i - 1 # 0
  <2>1. tables[s][i].name = <<"label", i - 1>>
    BY DEF NamesInv, OwnLabels, IsLabel
  <2>. QED
    BY <1>0, <2>1
<1>5. \A i \in 1 .. Len(tables[s]) : i \in 1 .. Begin(s) \/ i \in Begin(s) + 1 .. Len(tables[s])
  BY <1>0
<1>6. CASE j \in Begin(s) + 1 .. Len(tables[s]) /\ k \in Begin(s) + 1 .. Len(tables[s])
  <2>1. j - 1 = k - 1
    BY <1>4, <1>6
  <2>. QED
    BY <1>0, <2>1
<1>7. CASE j \in 1 .. Begin(s) /\ k \in Begin(s) + 1 .. Len(tables[s])
  <2>1. PICK x : tables[s][j].name = <<x, 0>>
    BY <1>3, <1>7
  <2>2. tables[s][k].name = <<"label", k - 1>> /\ k - 1 # 0
    BY <1>4, <1>7
  <2>3. <<x, 0>> = <<"label", k - 1>>
    BY <2>1, <2>2
  <2>. QED
    BY <2>2, <2>3
<1>8. CASE k \in 1 .. Begin(s) /\ j \in Begin(s) + 1 .. Len(tables[s])
  <2>1. PICK x : tables[s][k].name = <<x, 0>>
    BY <1>3, <1>8
  <2>2. tables[s][j].name = <<"label", j - 1>> /\ j - 1 # 0
    BY <1>4, <1>8
  <2>3. <<x, 0>> = <<"label", j - 1>>
    BY <2>1, <2>2
  <2>. QED
    BY <2>2, <2>3
<1>9. CASE j \in 1 .. Begin(s) /\ k \in 1 .. Begin(s)
  <2>1. ASSUME NEW i \in 1 .. Len(funcs), funcs[i].name = MAIN PROVE FALSE
    <3>1. PICK x \in Functions : funcs[i].name = <<x, 0>>
      BY <1>2
    <3>2. x = "main"
      BY <2>1, <3>1 DEF MAIN
    <3>. QED
      BY <3>2
  <2>2. ASSUME NEW p \in 1 .. Len(funcs), NEW q \in 1 .. Len(funcs), funcs[p].name = funcs[q].name
        PROVE  p = q
    <3>1. ~(p < q) /\ ~(q < p)
      BY <2>2 DEF NamesInv, FunctionNames
    <3>. QED
      BY <1>0, <3>1
  <2>3. CASE j \in 1 .. Len(funcs) /\ tables[s][j] = funcs[j]
             /\ k \in 1 .. Len(funcs) /\ tables[s][k] = funcs[k]
    BY <2>2, <2>3
  <2>4. CASE j \in 1 .. Len(funcs) /\ tables[s][j] = funcs[j] /\ tables[s][k].name = MAIN
    BY <2>1, <2>4
  <2>5. CASE k \in 1 .. Len(funcs) /\ tables[s][k] = funcs[k] /\ tables[s][j].name = MAIN
    BY <2>1, <2>5
  <2>6. CASE s = 0 /\ j = Begin(s) /\ k = Begin(s)
    BY <2>6
  <2>. QED
    BY <1>1, <1>9, <2>3, <2>4, <2>5, <2>6
<1>. QED
  BY <1>5, <1>6, <1>7, <1>8, <1>9

\* Where print_ir_program has a State begin and end.
LEMMA Parts ==
  ASSUME "main" \notin Functions, IInv, Types, NamesAll, phase = "done"
  PROVE  /\ Made = 0 .. Len(funcs)
         /\ \A s \in Made : StartOf(s) = Entry(s) /\ StartOf(s) \in Nat
         /\ \A s \in Made : s # 0 => StartOf(s) < StopOf(s)
         /\ StopOf(0) = line
<1>0. NamesInv /\ BlocksInv /\ Len(funcs) \in Nat
  BY Shapes DEF NamesAll
<1>1. Made = 0 .. Len(funcs)
  BY DEF Made
<1>2. \A s \in Made : Begin(s) \in 1 .. Len(tables[s]) /\ s \in 0 .. Len(funcs)
  BY <1>0, Begins
<1>3. StartOf(0) = Entry(0)
  <2>1. 0 \in Made /\ Begin(0) = Len(funcs) + 1 /\ tables[0][Len(funcs) + 1].name = MAIN
        /\ Len(funcs) + 1 \in 1 .. Len(tables[0])
    BY <1>0, <1>1, <1>2 DEF Begin, NamesInv, MainEntry
  <2>2. tables[0] \in Seq(TableEntries(line)) /\ DOMAIN tables[0] = 1 .. Len(tables[0])
        /\ Len(tables[0]) \in Nat
    BY <1>1, <2>1, Shapes
  <2>. DEFINE l == FunAddress(tables[0], MAIN)
  <2>3. l \in 0 .. Len(tables[0]) - 1 /\ tables[0][l + 1].name = MAIN
    BY <2>1, <2>2, FunFound
  <2>. HIDE DEF l
  <2>4. l + 1 \in 1 .. Len(tables[0])
    BY <2>2, <2>3
  <2>5. l + 1 = Len(funcs) + 1
    BY <1>0, <2>1, <2>3, <2>4, NamesOnce
  <2>. QED
    BY <2>1, <2>5 DEF StartOf, Entry, l
<1>4. ASSUME NEW s \in Made, s # 0 PROVE StartOf(s) = Entry(s) /\ StartOf(s) = funcs[s].address
  BY <1>0, <1>4, Begins DEF StartOf
<1>5. ASSUME NEW s \in Made PROVE StartOf(s) = Entry(s) /\ StartOf(s) \in Nat
  <2>1. Entry(s) \in Nat
    BY <1>0, EntryIn
  <2>. QED
    BY <1>3, <1>4, <2>1
<1>6. ASSUME NEW s \in Made, s # 0 PROVE StartOf(s) < StopOf(s)
  <2>1. s \in 1 .. Len(funcs) /\ StartOf(s) = funcs[s].address
    BY <1>0, <1>2, <1>4, <1>6
  <2>2. CASE s = Len(funcs)
    <3>1. Entry(0) = tables[0][Len(funcs) + 1].address
      BY DEF Entry, Begin
    <3>2. funcs[s].address < tables[0][Len(funcs) + 1].address
      BY <1>0, <2>1 DEF NamesInv, MainEntry
    <3>. QED
      BY <1>3, <1>6, <2>1, <2>2, <3>1, <3>2 DEF StopOf
  <2>3. CASE s # Len(funcs)
    <3>1. s + 1 \in 1 .. Len(funcs) /\ s < s + 1
      BY <1>0, <2>1, <2>3
    <3>2. funcs[s].address < funcs[s + 1].address
      BY <1>0, <2>1, <3>1 DEF NamesInv, FunctionNames
    <3>. QED
      BY <1>6, <2>1, <2>3, <3>2 DEF StopOf
  <2>. QED
    BY <2>2, <2>3
<1>. QED
  BY <1>1, <1>5, <1>6 DEF StopOf

LEMMA ResolveState ==
  ASSUME "main" \notin Functions, IInv, Types, NamesAll
  PROVE  NamesResolve
<1>. SUFFICES ASSUME phase = "done", NEW i \in Branches,
                     \A s \in 0 .. Len(funcs) : s # code[i].state =>
                       PrintedAt(s, NameOfLabel(i)) \subseteq {AddressOfLabel(i)},
                     code[i].state # 0 => AddressOfLabel(i) < StopOf(code[i].state)
              PROVE  Printed(NameOfLabel(i)) = {AddressOfLabel(i)}
  BY DEF NamesResolve
<1>0. /\ NamesInv /\ BlocksInv /\ AimInv
  BY DEF NamesAll
<1>. DEFINE o == code[i].state
            L == code[i].label + 1
            name == NameOfLabel(i)
            address == AddressOfLabel(i)
<1>1. /\ Made = 0 .. Len(funcs) /\ o \in Made /\ Len(funcs) \in Nat
      /\ \A s \in Made : StartOf(s) = Entry(s) /\ StartOf(s) \in Nat
      /\ \A s \in Made : s # 0 => StartOf(s) < StopOf(s)
      /\ StopOf(0) = line
  <2>1. i \in DOMAIN code
    BY DEF Branches
  <2>. QED
    BY <2>1, Parts, Shapes
<1>2. L \in DOMAIN tables[o]
  <2>1. open = <<>>
    BY <1>0 DEF BlocksInv
  <2>2. \A j : j \in DOMAIN open => FALSE
    BY <2>1
  <2>. QED
    BY <1>0, <2>2 DEF AimInv, Aimed
<1>3. name = tables[o][L].name /\ address = tables[o][L].address
  BY DEF NameOfLabel, AddressOfLabel
<1>4. \A s \in Made : /\ DOMAIN tables[s] = 1 .. Len(tables[s]) /\ Len(tables[s]) \in Nat
                      /\ \A k \in 1 .. Len(tables[s]) : tables[s][k].address \in 0..line
  BY <1>1, Shapes
<1>. HIDE DEF o, L, name, address
\* No State prints it elsewhere.
<1>5. ASSUME NEW s \in 0 .. Len(funcs) PROVE PrintedAt(s, name) \subseteq {address}
  <2>1. CASE s # o
    BY <2>1 DEF o, name, address
  <2>2. CASE s = o
    <3>1. ASSUME NEW k \in PrintedOf(s), tables[s][k].name = name PROVE tables[s][k].address = address
      <4>1. k \in 1 .. Len(tables[o]) /\ L \in 1 .. Len(tables[o])
        BY <1>1, <1>2, <1>4, <2>2, <3>1 DEF PrintedOf
      <4>2. k = L
        BY <1>0, <1>1, <1>3, <2>2, <3>1, <4>1, NamesOnce
      <4>. QED
        BY <1>3, <2>2, <4>2
    <3>. QED
      BY <3>1 DEF PrintedAt
  <2>. QED
    BY <2>1, <2>2
\* Some State prints it.
<1>6. \E s \in 0 .. Len(funcs) : \E k \in PrintedOf(s) :
        tables[s][k].name = name /\ tables[s][k].address = address
  <2>0. /\ L \in 1 .. Len(tables[o]) /\ Begin(o) \in 1 .. Len(tables[o]) /\ Len(tables[o]) \in Nat
        /\ o # 0 => Begin(o) = o
        /\ o = 0 => Begin(o) = Len(funcs) + 1
    BY <1>0, <1>1, <1>2, <1>4, Begins
  <2>1. CASE L > Begin(o) \/ (o = 0 /\ L = Begin(o))
    <3>1. address \in 0..line /\ address >= StartOf(o) /\ line \in Nat
      <4>1. CASE L > Begin(o)
        <5>1. L \in Begin(o) + 1 .. Len(tables[o])
          BY <2>0, <4>1
        <5>2. address >= Entry(o)
          BY <1>0, <1>1, <1>3, <5>1 DEF NamesInv, OwnLabels
        <5>. QED
          BY <1>1, <1>3, <1>4, <2>0, <5>2, Shapes
      <4>2. CASE L = Begin(o)
        BY <1>1, <1>3, <1>4, <2>0, <4>2, Shapes DEF Entry
      <4>. QED
        BY <2>1, <4>1, <4>2
    <3>2. address < StopOf(o)
      <4>1. CASE o = 0
        <5>1. tables[0][L].address < line
          BY <1>0, <1>2, <4>1 DEF BlocksInv
        <5>. QED
          BY <1>1, <1>3, <4>1, <5>1
      <4>2. CASE o # 0
        BY <4>2 DEF o, address
      <4>. QED
        BY <4>1, <4>2
    <3>3. StopOf(o) \in Int /\ StartOf(o) \in Nat
      <4>1. CASE o = 0
        BY <1>1, <3>1, <4>1
      <4>2. CASE o = Len(funcs) /\ o # 0
        BY <1>1, <4>2 DEF StopOf
      <4>3. CASE o # Len(funcs) /\ o # 0
        <5>1. o + 1 \in 1 .. Len(funcs)
          BY <1>1, <4>3
        <5>2. funcs[o + 1].address \in Nat
          BY <5>1, Shapes
        <5>. QED
          BY <1>1, <4>3, <5>2 DEF StopOf
      <4>. QED
        BY <4>1, <4>2, <4>3
    <3>4. address \in StartOf(o) .. StopOf(o) - 1
      BY <3>1, <3>2, <3>3
    <3>5. L \in PrintedOf(o)
      BY <1>2, <1>3, <3>4 DEF PrintedOf
    <3>. QED
      BY <1>1, <1>3, <3>5
  <2>2. CASE ~(L > Begin(o) \/ (o = 0 /\ L = Begin(o)))
    <3>1. L \in 1 .. Len(funcs) /\ L <= Begin(o)
      BY <1>1, <2>0, <2>2
    <3>2. tables[o][L] = funcs[L]
      <4>1. CASE o = 0
        BY <1>0, <3>1, <4>1 DEF NamesInv, FunctionEntries
      <4>2. CASE o # 0
        <5>1. o \in 1 .. Len(funcs) /\ L \in 1..o
          BY <1>1, <2>0, <3>1, <4>2
        <5>. QED
          BY <1>0, <5>1 DEF NamesInv, FunctionEntries
      <4>. QED
        BY <4>1, <4>2
    <3>3. L \in Made /\ L # 0 /\ L \in 1..L
      BY <1>1, <3>1
    <3>4. tables[L][L] = funcs[L] /\ L \in DOMAIN tables[L]
      <4>1. tables[L][L] = funcs[L]
        BY <1>0, <3>1, <3>3 DEF NamesInv, FunctionEntries
      <4>2. Begin(L) = L /\ Begin(L) \in 1 .. Len(tables[L])
        BY <1>0, <3>3, Begins
      <4>. QED
        BY <1>4, <3>3, <4>1, <4>2
    <3>5. funcs[L].address = StartOf(L) /\ StartOf(L) < StopOf(L)
      BY <1>1, <3>3 DEF StartOf
    <3>6. StopOf(L) \in Int
      <4>1. CASE L = Len(funcs)
        BY <1>1, <3>3, <4>1 DEF StopOf
      <4>2. CASE L # Len(funcs)
        <5>1. L + 1 \in 1 .. Len(funcs)
          BY <1>1, <3>1, <4>2
        <5>2. funcs[L + 1].address \in Nat
          BY <5>1, Shapes
        <5>. QED
          BY <3>3, <4>2, <5>2 DEF StopOf
      <4>. QED
        BY <4>1, <4>2
    <3>7. funcs[L].address \in StartOf(L) .. StopOf(L) - 1
      BY <1>1, <3>3, <3>5, <3>6
    <3>8. L \in PrintedOf(L)
      BY <3>4, <3>7 DEF PrintedOf
    <3>. QED
      BY <1>1, <1>3, <3>2, <3>3, <3>4, <3>8
  <2>. QED
    BY <2>1, <2>2
<1>7. Printed(name) = {address}
  <2>1. address \in Printed(name)
    BY <1>6 DEF Printed, PrintedAt
  <2>2. Printed(name) \subseteq {address}
    BY <1>5 DEF Printed
  <2>. QED
    BY <2>1, <2>2
<1>. QED
  BY <1>7 DEF name, address

\* Whatever the program, if no function of it is called main: the name of a
\* label that a branch has leads the assembler to the label's line and nowhere
\* else, but where another State prints that name for another line, or the line
\* is the end of a function.
THEOREM NamesFound ==
  ASSUME "main" \notin Functions
  PROVE  Spec => []NamesResolve
<1>1. Spec => []IInv
  BY InitInvariant, NextInvariant, PTL DEF Spec
<1>2. Spec => []Types
  BY <1>1, TypesInit, TypesNext, PTL DEF Spec
<1>3. Spec => []NamesAll
  BY <1>1, <1>2, NamesInit, NamesNext, PTL DEF Spec
<1>4. IInv /\ Types /\ NamesAll => NamesResolve
  BY ResolveState
<1>. QED
  BY <1>1, <1>2, <1>3, <1>4, PTL

-----------------------------------------------------------------------------
(* How the code follows the source. *)

\* The parts of some kinds from one part to another.
Many(K, t, e) == Cardinality({k \in t..e : source[k] \in K})

\* How deep the parts up to one are, and how many functions have begun.
Level(e) == Depth(1, e)
Defs(e) == Cardinality({j \in 1..e : source[j] = "def"})

\* An opener and what closes it; an if and its else.
Ends(o, e) ==
  /\ o \in DOMAIN source /\ e \in DOMAIN source /\ o < e /\ source[o] \in Opener
  /\ Level(e) = Level(o - 1)
  /\ \A k \in o .. e - 1 : Level(k) > Level(o - 1)
Elses(o, e) ==
  /\ o \in DOMAIN source /\ e \in DOMAIN source /\ o < e
  /\ source[o] = "if" /\ source[e] = "else" /\ Level(e) = Level(o)
  /\ \A k \in o .. e - 1 : Level(k) >= Level(o) /\ (source[k] = "else" => Level(k) # Level(o))

\* The code of a part and of those behind it begins behind a line.
Starts(t, a) == /\ a \in 0..line
                /\ \A i \in DOMAIN code : code[i].src < t <=> i <= a

LevelInv == /\ \A k \in DOMAIN source : Level(k) >= 0
            /\ Level(Len(source)) = Len(open)

Bare == {"endif", "enddef", "def"}
CodedInv ==
  /\ code[1].src = 1 /\ source[1] = "start"
  /\ \A i, j \in DOMAIN code : i < j => code[i].src <= code[j].src
  /\ \A i \in DOMAIN code : /\ source[code[i].src] \notin Bare
                            /\ source[code[i].src] = "start" => code[i].op = "b"
  /\ \A t \in DOMAIN source : source[t] \notin Bare => \E i \in DOMAIN code : code[i].src = t

\* What comes before and behind a function, and where the functions begin.
OrderInv ==
  /\ phase = "functions" /\ open = <<>> => Last(source) \in {"start", "enddef"}
  /\ Last(source) = "enddef" => phase = "functions" /\ open = <<>>
  /\ \A k \in DOMAIN source : source[k] = "def" =>
       k - 1 \in DOMAIN source /\ source[k - 1] \in {"start", "enddef"}
  /\ \A k \in DOMAIN source : source[k] = "enddef" /\ k < Len(source) =>
       source[k + 1] \in {"def", "main"}
  /\ phase = "done" => Last(source) = "halt" /\ code[line].op = "halt"
DefsInv ==
  /\ Defs(Len(source)) = Len(funcs)
  /\ \A p \in DOMAIN source : source[p] = "def" =>
       Defs(p) \in 1 .. Len(funcs) /\ Starts(p + 1, funcs[Defs(p)].address)
  /\ \A j \in DOMAIN open : open[j].kind = "def" => Len(funcs) > 0 /\ phase = "functions"
  /\ \A k \in DOMAIN source : source[k] = "enddef" => Defs(k) \in 1 .. Len(funcs)
IsMain(m) ==
  /\ m \in DOMAIN source /\ source[m] = "main"
  /\ Starts(m, Entry(0))
  /\ Defs(m) = Len(funcs)
  /\ \A k \in DOMAIN source : source[k] = "main" => k = m
MainInv ==
  /\ phase = "functions" => \A k \in DOMAIN source : source[k] # "main"
  /\ phase # "functions" => \E m : IsMain(m)

\* The blocks that are open.
Opened(o, j) == /\ o \in DOMAIN source /\ source[o] \in Opener /\ Level(o - 1) = j - 1
                /\ \A k \in o .. Len(source) : Level(k) >= j
At(j) == code[open[j].branch].src

OpenIf(j) == /\ Opened(At(j), j) /\ source[At(j)] = "if"
             /\ \A k \in At(j) + 1 .. Len(source) : source[k] = "else" => Level(k) # j
OpenLoop(j) == /\ Opened(At(j), j) /\ source[At(j)] \in {"while", "for"}
               /\ Starts(At(j), open[j].ret)
OpenElse(j) == \E o : Opened(o, j) /\ Elses(o, At(j))

OpenInv == \A j \in DOMAIN open :
  /\ open[j].kind = "if" => OpenIf(j)
  /\ open[j].kind \in {"while", "for"} => OpenLoop(j)
  /\ open[j].kind = "else" => OpenElse(j)

\* Where the branches lead.
Lands(i, t) == Aimed(i) /\ Starts(t, AddressOfLabel(i))
LandsStart(i) == \E m : IsMain(m) /\ Lands(i, m)
LandsIf(i) == \E e : Elses(code[i].src, e) /\ Lands(i, e + 1)
LandsLoop(i) == \E e : Ends(code[i].src, e) /\ source[e] = "endloop" /\ Lands(i, e + 1)
LandsElse(i) == \E o, e : /\ Elses(o, code[i].src) /\ Ends(o, e) /\ source[e] = "endif"
                          /\ Lands(i, e + 1)
LandsBack(i) == \E o : Ends(o, code[i].src) /\ source[o] \in {"while", "for"} /\ Lands(i, o)
LandsCall(i) == Aimed(i) /\ NameOfLabel(i) = <<LOOP, 0>>

Settled(i) ==
  LET kind == source[code[i].src]
  IN  \/ kind = "start" /\ LandsStart(i)
      \/ kind = "if" /\ LandsIf(i)
      \/ kind \in {"while", "for"} /\ LandsLoop(i)
      \/ kind = "else" /\ LandsElse(i)
      \/ kind = "endloop" /\ LandsBack(i)
      \/ kind = "loop" /\ LandsCall(i)
BranchInv == \A i \in Branches : \/ i = 1 /\ phase = "functions" /\ source[code[1].src] = "start"
                                 \/ \E j \in DOMAIN open : open[j].branch = i
                                 \/ Settled(i)
\* Every if has its else.
IfsInv == \A t \in DOMAIN source : source[t] = "if" =>
            (\E e : Elses(t, e)) \/ (\E j \in DOMAIN open : open[j].kind = "if" /\ At(j) = t)

FollowInv == LevelInv /\ CodedInv /\ OrderInv /\ DefsInv /\ MainInv /\ OpenInv /\ BranchInv /\ IfsInv

-----------------------------------------------------------------------------
(* Counting the parts of the source. *)

LEMMA CountNext ==
  ASSUME NEW K, NEW t \in Nat \ {0}, NEW e \in Nat, e + 1 >= t
  PROVE  /\ Many(K, t, t - 1) = 0 /\ Many(K, t, e) \in Nat
         /\ source[e + 1] \in K => Many(K, t, e + 1) = Many(K, t, e) + 1
         /\ source[e + 1] \notin K => Many(K, t, e + 1) = Many(K, t, e)
<1>. DEFINE S == {k \in t..e : source[k] \in K}
<1>1. IsFiniteSet(t..e)
  BY FS_Interval
<1>2. IsFiniteSet(S)
  <2>1. S \in SUBSET (t..e)
    OBVIOUS
  <2>. QED
    BY <1>1, <2>1, FS_Subset
<1>3. Cardinality(S) \in Nat
  BY <1>2, FS_CardinalityType
<1>4. Cardinality(S \cup {e + 1}) = Cardinality(S) + 1
  <2>1. e + 1 \notin S
    OBVIOUS
  <2>. QED
    BY <1>2, <2>1, FS_AddElement
<1>5. ASSUME source[e + 1] \in K PROVE {k \in t .. e + 1 : source[k] \in K} = S \cup {e + 1}
  BY <1>5
<1>6. ASSUME source[e + 1] \notin K PROVE {k \in t .. e + 1 : source[k] \in K} = S
  BY <1>6
<1>7. {k \in t .. t - 1 : source[k] \in K} = {}
  OBVIOUS
<1>. HIDE DEF S
<1>8. Many(K, t, e) = Cardinality(S)
  BY DEF Many, S
<1>9. Many(K, t, t - 1) = 0
  BY <1>7, FS_EmptySet DEF Many
<1>10. ASSUME source[e + 1] \in K PROVE Many(K, t, e + 1) = Many(K, t, e) + 1
  BY <1>4, <1>5, <1>8, <1>10 DEF Many
<1>11. ASSUME source[e + 1] \notin K PROVE Many(K, t, e + 1) = Many(K, t, e)
  BY <1>6, <1>8, <1>11 DEF Many
<1>. QED
  BY <1>3, <1>8, <1>9, <1>10, <1>11

LEMMA CountSplit ==
  ASSUME NEW K, NEW t \in Nat \ {0}, NEW e \in Nat, e + 1 >= t
  PROVE  Many(K, 1, e) = Many(K, 1, t - 1) + Many(K, t, e)
<1>. DEFINE S == {k \in 1 .. t - 1 : source[k] \in K}
            T == {k \in t..e : source[k] \in K}
<1>1. IsFiniteSet(1 .. t - 1) /\ IsFiniteSet(t..e)
  BY FS_Interval
<1>2. IsFiniteSet(S) /\ IsFiniteSet(T)
  <2>1. S \in SUBSET (1 .. t - 1) /\ T \in SUBSET (t..e)
    OBVIOUS
  <2>. QED
    BY <1>1, <2>1, FS_Subset
<1>3. {k \in 1..e : source[k] \in K} = S \cup T
  OBVIOUS
<1>4. S \cap T = {}
  OBVIOUS
<1>5. Many(K, 1, e) = Cardinality(S \cup T)
  BY <1>3 DEF Many
<1>6. Many(K, 1, t - 1) = Cardinality(S) /\ Many(K, t, e) = Cardinality(T)
  BY DEF Many
<1>. HIDE DEF S, T
<1>7. Cardinality(S) \in Nat /\ Cardinality(T) \in Nat /\ Cardinality(S \cap T) = 0
  BY <1>2, <1>4, FS_CardinalityType, FS_EmptySet
<1>8. Cardinality(S \cup T) = Cardinality(S) + Cardinality(T) - Cardinality(S \cap T)
  BY <1>2, FS_Union
<1>. QED
  BY <1>5, <1>6, <1>7, <1>8

\* What is counted does not change when the source grows.
LEMMA CountKeep ==
  ASSUME NEW K, NEW t \in Nat \ {0}, NEW e \in Nat,
         \A k \in t..e : source'[k] = source[k]
  PROVE  Many(K, t, e)' = Many(K, t, e)
<1>1. {k \in t..e : source'[k] \in K} = {k \in t..e : source[k] \in K}
  OBVIOUS
<1>. QED
  BY <1>1 DEF Many

LEMMA LevelNext ==
  ASSUME NEW e \in Nat
  PROVE  /\ Level(0) = 0 /\ Level(e) \in Int
         /\ source[e + 1] \in Opener => Level(e + 1) = Level(e) + 1
         /\ source[e + 1] \in Closer => Level(e + 1) = Level(e) - 1
         /\ source[e + 1] \notin Opener \cup Closer => Level(e + 1) = Level(e)
         /\ Defs(0) = 0 /\ Defs(e) \in Nat
         /\ source[e + 1] = "def" => Defs(e + 1) = Defs(e) + 1
         /\ source[e + 1] # "def" => Defs(e + 1) = Defs(e)
<1>1. \A k : Level(k) = Many(Opener, 1, k) - Many(Closer, 1, k)
  BY DEF Level, Depth, Many
<1>2. \A k : Defs(k) = Many({"def"}, 1, k)
  <2>1. ASSUME NEW k
        PROVE  {j \in 1..k : source[j] = "def"} = {j \in 1..k : source[j] \in {"def"}}
    OBVIOUS
  <2>. QED
    BY <2>1 DEF Defs, Many
<1>3. \A x : ~(x \in Opener /\ x \in Closer)
  BY DEF Opener, Closer
<1>4. \A K : /\ Many(K, 1, 0) = 0 /\ Many(K, 1, e) \in Nat
             /\ source[e + 1] \in K => Many(K, 1, e + 1) = Many(K, 1, e) + 1
             /\ source[e + 1] \notin K => Many(K, 1, e + 1) = Many(K, 1, e)
  <2>. SUFFICES ASSUME NEW K
                PROVE  /\ Many(K, 1, 0) = 0 /\ Many(K, 1, e) \in Nat
                       /\ source[e + 1] \in K => Many(K, 1, e + 1) = Many(K, 1, e) + 1
                       /\ source[e + 1] \notin K => Many(K, 1, e + 1) = Many(K, 1, e)
    OBVIOUS
  <2>1. 1 \in Nat \ {0} /\ e + 1 >= 1 /\ 1 - 1 = 0
    OBVIOUS
  <2>2. Many(K, 1, 1 - 1) = 0 /\ Many(K, 1, e) \in Nat
    BY <2>1, CountNext
  <2>3. /\ source[e + 1] \in K => Many(K, 1, e + 1) = Many(K, 1, e) + 1
        /\ source[e + 1] \notin K => Many(K, 1, e + 1) = Many(K, 1, e)
    BY <2>1, CountNext
  <2>. QED
    BY <2>1, <2>2, <2>3
<1>5. \A x : x \in {"def"} <=> x = "def"
  OBVIOUS
<1>. QED
  BY <1>1, <1>2, <1>3, <1>4, <1>5

LEMMA DepthIs ==
  ASSUME NEW t \in Nat \ {0}, NEW e \in Nat, e + 1 >= t
  PROVE  Depth(t, e) = Level(e) - Level(t - 1)
<1>1. \A k, l : Depth(k, l) = Many(Opener, k, l) - Many(Closer, k, l)
  BY DEF Depth, Many
<1>2. \A K : Many(K, 1, e) = Many(K, 1, t - 1) + Many(K, t, e)
  BY CountSplit
<1>3. \A K : Many(K, 1, t - 1) \in Nat /\ Many(K, t, e) \in Nat
  <2>1. 1 \in Nat \ {0} /\ t - 1 \in Nat /\ (t - 1) + 1 >= 1
    OBVIOUS
  <2>. QED
    BY <2>1, CountNext
<1>. QED
  BY <1>1, <1>2, <1>3 DEF Level

-----------------------------------------------------------------------------
(* What ends where. *)

LEMMA SourceIs ==
  ASSUME Types
  PROVE  /\ Len(source) \in Nat /\ DOMAIN source = 1 .. Len(source)
         /\ Last(source) = source[Len(source)]
         /\ \A k \in DOMAIN source : source[k] \in Kinds
  BY DEF Types, Last

LEMMA LeastOf ==
  ASSUME NEW Q, Q \subseteq Nat, NEW x \in Q
  PROVE  \E l \in Q : \A j \in Q : l <= j
<1>. DEFINE R == OpToRel(<, Nat)
<1>1. IsWellFoundedOn(R, Nat)
  BY NatLessThanWellFounded
<1>2. \A p, q \in Nat : p < q => <<p, q>> \in R
  BY DEF OpToRel
<1>. HIDE DEF R
<1>3. PICK l \in Q : \A j \in Q : ~(<<j, l>> \in R)
  BY <1>1, WFMin
<1>4. ASSUME NEW j \in Q PROVE l <= j
  <2>1. l \in Nat /\ j \in Nat /\ ~(j < l)
    BY <1>2, <1>3
  <2>. QED
    BY <2>1
<1>. QED
  BY <1>4

LEMMA FirstIs ==
  ASSUME NEW a \in Int, NEW S, S \subseteq Int, NEW e \in S, e > a,
         \A j \in S : j > a => e <= j
  PROVE  First(a, S) = e
<1>. DEFINE P(k) == k > a /\ \A j \in S : j > a => k <= j
            f == CHOOSE k \in S : P(k)
<1>1. P(e)
  OBVIOUS
<1>2. f \in S /\ P(f)
  BY <1>1
<1>3. First(a, S) = f
  BY DEF First
<1>4. f <= e /\ e <= f /\ f \in Int /\ e \in Int
  BY <1>1, <1>2
<1>. HIDE DEF f
<1>. QED
  BY <1>3, <1>4

LEMMA EndIs ==
  ASSUME Types, NEW o, NEW e, Ends(o, e)
  PROVE  EndOf(o) = e
<1>. DEFINE S == {k \in o .. Len(source) : Depth(o, k) = 0}
<1>1. o \in 1 .. Len(source) /\ e \in 1 .. Len(source) /\ o < e /\ Len(source) \in Nat
  BY SourceIs DEF Ends
<1>2. \A k \in o .. Len(source) : Depth(o, k) = Level(k) - Level(o - 1)
                                  /\ Level(k) \in Int /\ Level(o - 1) \in Int
  BY <1>1, DepthIs, LevelNext
<1>3. Level(e) = Level(o - 1) /\ \A k \in o .. e - 1 : Level(k) > Level(o - 1)
  BY DEF Ends
<1>4. e \in S /\ S \subseteq Int
  BY <1>1, <1>2, <1>3
<1>5. ASSUME NEW j \in S PROVE e <= j
  <2>1. Level(j) = Level(o - 1) /\ Level(j) \in Int /\ j \in o .. Len(source)
    BY <1>2
  <2>2. j \notin o .. e - 1
    BY <1>2, <1>3, <2>1
  <2>. QED
    BY <1>1, <2>1, <2>2
<1>. HIDE DEF S
<1>6. First(o, S) = e
  <2>1. o \in Int /\ e > o /\ \A j \in S : j > o => e <= j
    BY <1>1, <1>4, <1>5
  <2>. QED
    BY <1>4, <2>1, FirstIs
<1>. QED
  BY <1>6 DEF EndOf, S

LEMMA ElseIs ==
  ASSUME Types, NEW o, NEW e, Elses(o, e)
  PROVE  ElseOf(o) = e
<1>. DEFINE S == {k \in o .. Len(source) : Depth(o, k) = 1 /\ source[k] = "else"}
<1>1. o \in 1 .. Len(source) /\ e \in 1 .. Len(source) /\ o < e /\ Len(source) \in Nat
  BY SourceIs DEF Elses
<1>2. \A k \in o .. Len(source) : Depth(o, k) = Level(k) - Level(o - 1)
                                  /\ Level(k) \in Int /\ Level(o - 1) \in Int
  BY <1>1, DepthIs, LevelNext
<1>3. source[o] = "if" /\ source[e] = "else" /\ Level(e) = Level(o)
      /\ \A k \in o .. e - 1 : source[k] = "else" => Level(k) # Level(o)
  BY DEF Elses
<1>4. Level(o) = Level(o - 1) + 1
  <2>1. (o - 1) + 1 = o /\ o - 1 \in Nat /\ source[o] \in Opener
    BY <1>1, <1>3 DEF Opener
  <2>. QED
    BY <2>1, LevelNext
<1>5. e \in S /\ S \subseteq Int
  <2>1. e \in o .. Len(source)
    BY <1>1
  <2>2. Depth(o, e) = 1
    BY <1>2, <1>3, <1>4, <2>1
  <2>. QED
    BY <1>1, <1>3, <2>1, <2>2
<1>6. ASSUME NEW j \in S PROVE e <= j
  <2>1. Level(j) = Level(o) /\ source[j] = "else" /\ j \in o .. Len(source)
    BY <1>2, <1>4
  <2>2. j \notin o .. e - 1
    BY <1>3, <2>1
  <2>. QED
    BY <1>1, <2>1, <2>2
<1>. HIDE DEF S
<1>7. First(o, S) = e
  <2>1. o \in Int /\ e > o /\ \A j \in S : j > o => e <= j
    BY <1>1, <1>5, <1>6
  <2>. QED
    BY <1>5, <2>1, FirstIs
<1>. QED
  BY <1>7 DEF ElseOf, S

\* An end ends one block only, and an else is that of one if.
LEMMA EndsOnce ==
  ASSUME Types, NEW o, NEW p, NEW e, Ends(o, e), Ends(p, e)
  PROVE  o = p
<1>1. ASSUME NEW q, NEW r, Ends(q, e), Ends(r, e), q < r PROVE FALSE
  <2>1. q \in Nat \ {0} /\ r \in Nat \ {0} /\ e \in Nat /\ q < e /\ r < e
    BY <1>1, SourceIs DEF Ends
  <2>2. r - 1 \in q .. e - 1
    BY <1>1, <2>1
  <2>3. Level(r - 1) > Level(q - 1) /\ Level(r - 1) = Level(e) /\ Level(e) = Level(q - 1)
    BY <1>1, <2>2 DEF Ends
  <2>4. Level(q - 1) \in Int /\ Level(r - 1) \in Int
    BY <2>1, LevelNext
  <2>. QED
    BY <2>3, <2>4
<1>2. o \in Nat /\ p \in Nat
  BY SourceIs DEF Ends
<1>. QED
  BY <1>1, <1>2

LEMMA ElsesOnce ==
  ASSUME Types, NEW o, NEW p, NEW e, Elses(o, e), Elses(p, e)
  PROVE  o = p
<1>1. ASSUME NEW q, NEW r, Elses(q, e), Elses(r, e), q < r PROVE FALSE
  <2>1. q \in Nat \ {0} /\ r \in Nat \ {0} /\ e \in Nat /\ q < e /\ r < e
    BY <1>1, SourceIs DEF Elses
  <2>2. r - 1 \in q .. e - 1 /\ r - 1 \in Nat /\ (r - 1) + 1 = r
    BY <1>1, <2>1
  <2>3. Level(r - 1) >= Level(q) /\ Level(r) = Level(e) /\ Level(e) = Level(q) /\ source[r] = "if"
    BY <1>1, <2>2 DEF Elses
  <2>4. Level(q) \in Int /\ Level(r - 1) \in Int
    BY <2>1, <2>2, LevelNext
  <2>5. Level(r) = Level(r - 1) + 1
    BY <2>2, <2>3, LevelNext DEF Opener
  <2>. QED
    BY <2>3, <2>4, <2>5
<1>2. o \in Nat /\ p \in Nat
  BY SourceIs DEF Elses
<1>. QED
  BY <1>1, <1>2

\* What ends a block closes it.
LEMMA EndsCloser ==
  ASSUME Types, NEW o, NEW e, Ends(o, e)
  PROVE  source[e] \in Closer
<1>1. o \in Nat \ {0} /\ e \in Nat /\ o < e /\ Level(e) = Level(o - 1)
  BY SourceIs DEF Ends
<1>2. e - 1 \in o .. e - 1 /\ e - 1 \in Nat /\ (e - 1) + 1 = e
  BY <1>1
<1>3. Level(e - 1) > Level(o - 1)
  BY <1>2 DEF Ends
<1>4. Level(e - 1) \in Int /\ Level(o - 1) \in Int
  BY <1>1, <1>2, LevelNext
<1>5. source[e] \notin Closer => Level(e) = Level(e - 1) + 1 \/ Level(e) = Level(e - 1)
  BY <1>2, LevelNext
<1>. QED
  BY <1>1, <1>3, <1>4, <1>5

\* When no block is open, every block has its end.
LEMMA EndsExist ==
  ASSUME Types, \A k \in DOMAIN source : Level(k) >= 0, Level(Len(source)) = 0,
         NEW o \in DOMAIN source, source[o] \in Opener
  PROVE  \E e : Ends(o, e)
<1>. DEFINE S == {k \in o + 1 .. Len(source) : Level(k) <= Level(o - 1)}
<1>1. o \in 1 .. Len(source) /\ Len(source) \in Nat /\ o - 1 \in Nat /\ (o - 1) + 1 = o
  BY SourceIs
<1>2. Level(o - 1) \in Int /\ Level(o) = Level(o - 1) + 1
  BY <1>1, LevelNext
<1>3. Level(o - 1) >= 0
  <2>1. CASE o = 1
    <3>1. o - 1 = 0 /\ Level(0) = 0
      BY <2>1, LevelNext
    <3>. QED
      BY <3>1
  <2>2. CASE o # 1
    <3>1. o - 1 \in DOMAIN source
      BY <1>1, <2>2, SourceIs
    <3>. QED
      BY <3>1
  <2>. QED
    BY <2>1, <2>2
<1>4. o # Len(source)
  BY <1>2, <1>3
<1>5. Len(source) \in S /\ S \subseteq Nat
  <2>1. Len(source) \in o + 1 .. Len(source)
    BY <1>1, <1>4
  <2>. QED
    BY <1>1, <1>2, <1>3, <2>1
<1>6. PICK e \in S : \A j \in S : e <= j
  <2>. HIDE DEF S
  <2>. QED
    BY <1>5, LeastOf
<1>7. e \in o + 1 .. Len(source) /\ e \in Nat /\ e - 1 \in Nat /\ (e - 1) + 1 = e
      /\ Level(e) <= Level(o - 1)
  BY <1>1, <1>6
<1>8. ASSUME NEW k \in o .. e - 1 PROVE Level(k) > Level(o - 1)
  <2>1. CASE k = o
    BY <1>2, <2>1
  <2>2. CASE k # o
    <3>1. k \in o + 1 .. Len(source) /\ ~(e <= k)
      BY <1>1, <1>7, <2>2
    <3>2. ~(Level(k) <= Level(o - 1))
      BY <1>6, <3>1
    <3>3. Level(k) \in Int
      BY <1>1, <3>1, LevelNext
    <3>. QED
      BY <1>2, <3>2, <3>3
  <2>. QED
    BY <2>1, <2>2
<1>9. Level(e) = Level(o - 1)
  <2>1. Level(e - 1) > Level(o - 1)
    <3>1. e - 1 \in o .. e - 1
      BY <1>1, <1>7
    <3>. QED
      BY <1>8, <3>1
  <2>2. Level(e) >= Level(e - 1) - 1 /\ Level(e - 1) \in Int /\ Level(e) \in Int
    <3>1. Level(e - 1) \in Int
      BY <1>7, LevelNext
    <3>2. \/ Level(e) = Level(e - 1) + 1 \/ Level(e) = Level(e - 1) - 1
          \/ Level(e) = Level(e - 1)
      BY <1>7, LevelNext
    <3>. QED
      BY <3>1, <3>2
  <2>. QED
    BY <1>2, <1>7, <2>1, <2>2
<1>. HIDE DEF S
<1>10. o \in DOMAIN source /\ e \in DOMAIN source /\ o < e
  BY <1>1, <1>7, SourceIs
<1>. QED
  BY <1>8, <1>9, <1>10 DEF Ends

-----------------------------------------------------------------------------
(* The lines of parts. *)

LEMMA StartsOnce ==
  ASSUME IInv, Types, NEW t, NEW a, NEW b, Starts(t, a), Starts(t, b)
  PROVE  a = b
<1>1. a \in 0 .. Len(code) /\ b \in 0 .. Len(code) /\ Len(code) \in Nat
      /\ DOMAIN code = 1 .. Len(code)
  BY Shapes DEF Starts, line
<1>2. \A i \in 1 .. Len(code) : i <= a <=> i <= b
  BY <1>1 DEF Starts
<1>3. ASSUME a < b PROVE FALSE
  <2>1. a + 1 \in 1 .. Len(code) /\ a + 1 <= b /\ ~(a + 1 <= a)
    BY <1>1, <1>3
  <2>. QED
    BY <1>2, <2>1
<1>4. ASSUME b < a PROVE FALSE
  <2>1. b + 1 \in 1 .. Len(code) /\ b + 1 <= a /\ ~(b + 1 <= b)
    BY <1>1, <1>4
  <2>. QED
    BY <1>2, <2>1
<1>. QED
  BY <1>1, <1>3, <1>4

\* Parts that have no code do not matter.
LEMMA StartsSkip ==
  ASSUME IInv, Types, CodedInv, NEW t \in Nat, NEW v \in Nat, t <= v,
         \A k \in t .. v - 1 : source[k] \in Bare, NEW a
  PROVE  Starts(t, a) <=> Starts(v, a)
<1>1. ASSUME NEW i \in DOMAIN code PROVE code[i].src < t <=> code[i].src < v
  <2>1. code[i].src \in Nat /\ source[code[i].src] \notin Bare
    BY Shapes DEF CodedInv
  <2>2. code[i].src \notin t .. v - 1
    BY <2>1
  <2>. QED
    BY <2>1, <2>2
<1>. QED
  BY <1>1 DEF Starts

LEMMA FirstLine ==
  ASSUME IInv, Types, CodedInv, NEW v \in DOMAIN source, source[v] \notin Bare,
         NEW a, Starts(v, a)
  PROVE  First(0, {i \in DOMAIN code : code[i].src = v}) = a + 1
<1>. DEFINE S == {i \in DOMAIN code : code[i].src = v}
<1>1. a \in 0 .. Len(code) /\ Len(code) \in Nat /\ DOMAIN code = 1 .. Len(code)
      /\ Len(source) \in Nat /\ v \in 1 .. Len(source)
  BY Shapes DEF Starts, line
<1>2. \A i \in 1 .. Len(code) : code[i].src \in Nat /\ (code[i].src < v <=> i <= a)
  BY <1>1, Shapes DEF Starts
<1>3. PICK i \in DOMAIN code : code[i].src = v
  BY DEF CodedInv
<1>4. ~(i <= a)
  BY <1>1, <1>2, <1>3
<1>5. a + 1 \in DOMAIN code /\ a + 1 <= i
  BY <1>1, <1>3, <1>4
<1>6. code[a + 1].src = v
  <2>1. a + 1 = i \/ a + 1 < i
    BY <1>1, <1>5
  <2>2. code[a + 1].src <= v
    <3>1. a + 1 < i => code[a + 1].src <= code[i].src
      BY <1>5, <1>3 DEF CodedInv
    <3>. QED
      BY <1>1, <1>2, <1>3, <1>5, <2>1, <3>1
  <2>3. ~(code[a + 1].src < v) /\ code[a + 1].src \in Nat
    BY <1>1, <1>2, <1>5
  <2>. QED
    BY <1>1, <2>2, <2>3
<1>7. ASSUME NEW j \in S PROVE a + 1 <= j
  <2>1. j \in 1 .. Len(code) /\ ~(code[j].src < v)
    BY <1>1
  <2>2. ~(j <= a)
    BY <1>2, <2>1
  <2>. QED
    BY <1>1, <2>1, <2>2
<1>8. a + 1 \in S /\ S \subseteq Int /\ 0 \in Int /\ a + 1 > 0
  BY <1>1, <1>5, <1>6
<1>9. \A j \in S : j > 0 => a + 1 <= j
  BY <1>7
<1>. HIDE DEF S
<1>10. First(0, S) = a + 1
  BY <1>8, <1>9, FirstIs
<1>. QED
  BY <1>10 DEF S

\* The end of a function is where the next begins, or main.
LEMMA EnddefIs ==
  ASSUME "main" \notin Functions, IInv, Types, NamesAll, FollowInv, phase = "done",
         NEW v \in DOMAIN source, source[v] = "enddef", NEW a, Starts(v, a)
  PROVE  StopOf(Defs(v)) = a
<1>. DEFINE s == Defs(v)
<1>0. LevelInv /\ CodedInv /\ OrderInv /\ DefsInv /\ MainInv
  BY DEF FollowInv
<1>1. Len(source) \in Nat /\ DOMAIN source = 1 .. Len(source) /\ Len(funcs) \in Nat
      /\ Last(source) = source[Len(source)]
  BY SourceIs, Shapes
<1>2. v < Len(source)
  <2>1. source[Len(source)] = "halt"
    BY <1>0, <1>1 DEF OrderInv
  <2>2. v # Len(source)
    BY <2>1
  <2>. QED
    BY <1>1, <2>2
<1>3. source[v + 1] \in {"def", "main"} /\ s \in 1 .. Len(funcs) /\ v + 1 \in DOMAIN source
      /\ v \in Nat /\ v + 1 \in Nat /\ v + 2 \in Nat /\ (v + 1) + 1 = v + 2
  <2>1. source[v + 1] \in {"def", "main"} /\ s \in 1 .. Len(funcs)
    BY <1>0, <1>2 DEF OrderInv, DefsInv
  <2>. QED
    BY <1>1, <1>2, <2>1
<1>. HIDE DEF s
<1>4. CASE source[v + 1] = "def"
  <2>1. Defs(v + 1) = s + 1
    BY <1>3, <1>4, LevelNext DEF s
  <2>2. Defs(v + 1) \in 1 .. Len(funcs) /\ Starts((v + 1) + 1, funcs[Defs(v + 1)].address)
    BY <1>0, <1>3, <1>4 DEF DefsInv
  <2>3. s # Len(funcs) /\ s # 0
    BY <1>1, <1>3, <2>1, <2>2
  <2>4. Starts(v + 2, funcs[s + 1].address)
    BY <1>3, <2>1, <2>2
  <2>5. Starts(v + 2, a)
    <3>1. \A k \in v .. v + 2 - 1 : source[k] \in Bare
      <4>1. \A k \in v .. v + 2 - 1 : k = v \/ k = v + 1
        BY <1>3
      <4>. QED
        BY <1>4, <4>1 DEF Bare
    <3>2. v <= v + 2
      BY <1>3
    <3>. QED
      BY <1>0, <1>3, <3>1, <3>2, StartsSkip
  <2>6. a = funcs[s + 1].address
    BY <2>4, <2>5, StartsOnce
  <2>. QED
    BY <2>3, <2>6 DEF StopOf, s
<1>5. CASE source[v + 1] = "main"
  <2>1. PICK m : IsMain(m)
    BY <1>0 DEF MainInv
  <2>2. m = v + 1
    BY <1>3, <1>5, <2>1 DEF IsMain
  <2>3. s = Len(funcs) /\ s # 0
    <3>1. Defs(v + 1) = s
      BY <1>3, <1>5, LevelNext DEF s
    <3>. QED
      BY <1>3, <2>1, <2>2, <3>1 DEF IsMain
  <2>4. StopOf(s) = Entry(0)
    <3>1. 0 \in Made /\ StartOf(0) = Entry(0)
      BY <1>1, Parts
    <3>. QED
      BY <2>3, <3>1 DEF StopOf
  <2>5. Starts(v + 1, a)
    <3>1. \A k \in v .. v + 1 - 1 : source[k] \in Bare
      <4>1. \A k \in v .. v + 1 - 1 : k = v
        BY <1>3
      <4>. QED
        BY <4>1 DEF Bare
    <3>2. v <= v + 1
      BY <1>3
    <3>. QED
      BY <1>0, <1>3, <3>1, <3>2, StartsSkip
  <2>6. a = Entry(0)
    BY <2>1, <2>2, <2>5, StartsOnce DEF IsMain
  <2>. QED
    BY <2>4, <2>6 DEF s
<1>. QED
  BY <1>3, <1>4, <1>5

LEMMA LineIs ==
  ASSUME "main" \notin Functions, IInv, Types, NamesAll, FollowInv, phase = "done",
         NEW v \in DOMAIN source, source[v] # "def", source[v] # "endif", NEW a, Starts(v, a)
  PROVE  LineOf(v) = a
<1>0. CodedInv
  BY DEF FollowInv
<1>1. CASE source[v] = "enddef"
  <2>1. StopOf(Defs(v)) = a
    BY <1>1, EnddefIs
  <2>. QED
    BY <1>1, <2>1 DEF LineOf, Defs
<1>2. CASE source[v] # "enddef"
  <2>1. First(0, {i \in DOMAIN code : code[i].src = v}) = a + 1
    BY <1>0, <1>2, FirstLine DEF Bare
  <2>2. a \in Nat
    BY Shapes DEF Starts
  <2>. QED
    BY <1>2, <2>1, <2>2 DEF LineOf
<1>. QED
  BY <1>1, <1>2

\* What follows a part is where the parts behind it begin.
LEMMA FollowsIs ==
  ASSUME "main" \notin Functions, IInv, Types, NamesAll, FollowInv, phase = "done",
         NEW t \in DOMAIN source, source[t] \notin {"start", "enddef"}, t # Len(source),
         NEW a, Starts(t + 1, a)
  PROVE  LineOf(Following(t)) = a
<1>. DEFINE S == {k \in t + 1 .. Len(source) : source[k] # "endif"}
<1>0. CodedInv /\ OrderInv
  BY DEF FollowInv
<1>1. /\ Len(source) \in Nat /\ DOMAIN source = 1 .. Len(source)
      /\ source[Len(source)] = "halt" /\ t \in 1 .. Len(source)
  BY <1>0, SourceIs DEF OrderInv
<1>3. Len(source) \in S /\ S \subseteq Nat
  BY <1>1
<1>4. PICK v \in S : \A j \in S : v <= j
  <2>. HIDE DEF S
  <2>. QED
    BY <1>3, LeastOf
<1>5. v \in t + 1 .. Len(source) /\ source[v] # "endif" /\ v \in DOMAIN source
  BY <1>1
<1>6. Following(t) = v
  <2>1. S \subseteq Int /\ v > t /\ \A j \in S : j > t => v <= j
    BY <1>1, <1>4, <1>5
  <2>2. t \in Int /\ (t + 1) - 1 = t
    BY <1>1
  <2>. HIDE DEF S
  <2>3. First(t, S) = v
    BY <1>4, <2>1, <2>2, FirstIs
  <2>. QED
    BY <2>2, <2>3 DEF Following, Visible, S
<1>7. \A k \in t + 1 .. v - 1 : source[k] = "endif"
  <2>1. ASSUME NEW k \in t + 1 .. v - 1 PROVE k \in t + 1 .. Len(source) /\ ~(v <= k)
    BY <1>1, <1>5
  <2>. QED
    BY <1>4, <2>1
<1>8. Starts(v, a)
  <2>1. \A k \in t + 1 .. v - 1 : source[k] \in Bare
    BY <1>7 DEF Bare
  <2>2. t + 1 \in Nat /\ v \in Nat /\ t + 1 <= v
    BY <1>1, <1>5
  <2>. QED
    BY <1>0, <2>1, <2>2, StartsSkip
<1>9. source[v] # "def"
  <2>. SUFFICES ASSUME source[v] = "def" PROVE FALSE
    OBVIOUS
  <2>1. source[v - 1] \in {"start", "enddef"}
    BY <1>0, <1>5 DEF OrderInv
  <2>2. v - 1 = t \/ v - 1 \in t + 1 .. v - 1
    BY <1>1, <1>5
  <2>. QED
    BY <1>7, <2>1, <2>2
<1>. QED
  BY <1>5, <1>6, <1>8, <1>9, LineIs

-----------------------------------------------------------------------------
(* Where the branches of a program that is done lead. *)

\* A function begins once.
LEMMA DefExists ==
  ASSUME Types, DefsInv, NEW n \in 1 .. Len(funcs), Len(funcs) \in Nat
  PROVE  \E p \in DOMAIN source : source[p] = "def" /\ Defs(p) = n
<1>. DEFINE S == {k \in 1 .. Len(source) : Defs(k) >= n}
<1>1. Len(source) \in Nat /\ DOMAIN source = 1 .. Len(source) /\ Defs(Len(source)) = Len(funcs)
  BY SourceIs DEF DefsInv
<1>2. Len(source) # 0
  <2>1. Defs(0) = 0 /\ 0 \in Nat
    BY LevelNext
  <2>2. Len(funcs) # 0
    OBVIOUS
  <2>. QED
    BY <1>1, <2>1, <2>2
<1>3. Len(source) \in S /\ S \subseteq Nat
  BY <1>1, <1>2
<1>4. PICK p \in S : \A j \in S : p <= j
  <2>. HIDE DEF S
  <2>. QED
    BY <1>3, LeastOf
<1>5. p \in 1 .. Len(source) /\ Defs(p) >= n /\ p - 1 \in Nat /\ (p - 1) + 1 = p /\ p \in Nat
  BY <1>1
<1>6. Defs(p - 1) \in Nat /\ Defs(p) \in Nat
      /\ (source[p] = "def" => Defs(p) = Defs(p - 1) + 1)
      /\ (source[p] # "def" => Defs(p) = Defs(p - 1))
  BY <1>5, LevelNext
<1>7. Defs(p - 1) < n
  <2>1. CASE p = 1
    <3>1. p - 1 = 0 /\ Defs(0) = 0
      BY <2>1, LevelNext
    <3>. QED
      BY <3>1
  <2>2. CASE p # 1
    <3>1. p - 1 \in 1 .. Len(source) /\ ~(p <= p - 1)
      BY <1>1, <1>5, <2>2
    <3>2. p - 1 \notin S
      BY <1>4, <3>1
    <3>3. ~(Defs(p - 1) >= n)
      BY <3>1, <3>2
    <3>. QED
      BY <1>6, <3>3
  <2>. QED
    BY <2>1, <2>2
<1>8. source[p] = "def" /\ Defs(p) = n
  BY <1>5, <1>6, <1>7
<1>. QED
  BY <1>1, <1>5, <1>8

\* A label that is called LOOP is that of LOOP.
LEMMA CallLands ==
  ASSUME "main" \notin Functions, IInv, Types, NamesAll, NEW i \in DOMAIN code, LandsCall(i),
         phase = "done"
  PROVE  \E n \in 1 .. Len(funcs) : funcs[n].name = <<LOOP, 0>>
                                    /\ AddressOfLabel(i) = funcs[n].address
<1>. DEFINE s == code[i].state
            k == code[i].label + 1
<1>0. NamesInv
  BY DEF NamesAll
<1>1. /\ s \in Made /\ k \in 1 .. Len(tables[s]) /\ Len(tables[s]) \in Nat
      /\ tables[s][k].name = <<LOOP, 0>> /\ AddressOfLabel(i) = tables[s][k].address
  <2>1. s \in 0 .. Len(funcs) /\ Made = 0 .. Len(funcs)
    BY Shapes, Parts
  <2>2. Len(tables[s]) \in Nat /\ DOMAIN tables[s] = 1 .. Len(tables[s])
    BY <2>1, Shapes
  <2>3. k \in DOMAIN tables[s] /\ tables[s][k].name = <<LOOP, 0>>
        /\ AddressOfLabel(i) = tables[s][k].address
    BY DEF LandsCall, Aimed, NameOfLabel, AddressOfLabel
  <2>. QED
    BY <2>1, <2>2, <2>3
<1>2. /\ s \in 0 .. Len(funcs) /\ Begin(s) \in 1 .. Len(tables[s]) /\ Len(funcs) \in Nat
      /\ s # 0 => Begin(s) = s
      /\ s = 0 => Begin(s) = Len(funcs) + 1
  BY <1>0, <1>1, Begins, Shapes
<1>. HIDE DEF s, k
<1>3. k <= Begin(s)
  <2>. SUFFICES ASSUME ~(k <= Begin(s)) PROVE FALSE
    OBVIOUS
  <2>1. k \in Begin(s) + 1 .. Len(tables[s])
    BY <1>1, <1>2
  <2>2. tables[s][k].name = <<"label", k - 1>>
    BY <1>0, <1>1, <2>1 DEF NamesInv, OwnLabels, IsLabel
  <2>3. k - 1 = 0
    BY <1>1, <2>2
  <2>. QED
    BY <1>2, <2>1, <2>3
<1>4. ~(s = 0 /\ k = Begin(s))
  <2>. SUFFICES ASSUME s = 0, k = Begin(s) PROVE FALSE
    OBVIOUS
  <2>1. tables[0][Len(funcs) + 1].name = MAIN
    BY <1>0 DEF NamesInv, MainEntry
  <2>2. LOOP = "main"
    BY <1>1, <1>2, <2>1 DEF MAIN
  <2>. QED
    BY <2>2, ControlFlowAssumption
<1>5. k \in 1 .. Len(funcs) /\ tables[s][k] = funcs[k]
  <2>1. CASE s = 0
    <3>1. k \in 1 .. Len(funcs)
      BY <1>1, <1>2, <1>3, <1>4, <2>1
    <3>. QED
      BY <1>0, <2>1, <3>1 DEF NamesInv, FunctionEntries
  <2>2. CASE s # 0
    <3>1. s \in 1 .. Len(funcs) /\ k \in 1..s /\ k \in 1 .. Len(funcs)
      BY <1>1, <1>2, <1>3, <2>2
    <3>. QED
      BY <1>0, <3>1 DEF NamesInv, FunctionEntries
  <2>. QED
    BY <2>1, <2>2
<1>. QED
  BY <1>1, <1>5

\* The function called LOOP begins at LoopDef.
LEMMA LoopDefIs ==
  ASSUME IInv, Types, NamesAll, DefsInv, NEW n \in 1 .. Len(funcs), funcs[n].name = <<LOOP, 0>>
  PROVE  /\ LoopDef \in DOMAIN source /\ source[LoopDef] = "def"
         /\ Starts(LoopDef + 1, funcs[n].address)
<1>. DEFINE S == {k \in DOMAIN source : source[k] = "def" /\ funcs[Defs(k)].name = <<LOOP, 0>>}
<1>1. Len(funcs) \in Nat /\ DOMAIN source = 1 .. Len(source) /\ Len(source) \in Nat
  BY Shapes
<1>2. PICK p \in DOMAIN source : source[p] = "def" /\ Defs(p) = n
  BY <1>1, DefExists
<1>3. p \in S /\ S \subseteq Nat
  BY <1>1, <1>2
<1>4. LoopDef = First(0, S)
  BY DEF LoopDef, Defs
<1>5. \A k \in S : k \in DOMAIN source /\ source[k] = "def" /\ funcs[Defs(k)].name = <<LOOP, 0>>
  OBVIOUS
<1>. HIDE DEF S
<1>6. PICK q \in S : \A j \in S : q <= j
  BY <1>3, LeastOf
<1>7. LoopDef = q
  <2>1. S \subseteq Int /\ 0 \in Int /\ q > 0 /\ \A j \in S : j > 0 => q <= j
    BY <1>1, <1>3, <1>5, <1>6
  <2>. QED
    BY <1>4, <1>6, <2>1, FirstIs
<1>8. q \in DOMAIN source /\ source[q] = "def" /\ funcs[Defs(q)].name = <<LOOP, 0>>
  BY <1>5
<1>9. Defs(q) \in 1 .. Len(funcs) /\ Starts(q + 1, funcs[Defs(q)].address)
  BY <1>8 DEF DefsInv
<1>10. Defs(q) = n
  <2>1. \A j, k \in 1 .. Len(funcs) : j < k => funcs[j].name # funcs[k].name
    BY DEF NamesAll, NamesInv, FunctionNames
  <2>2. ~(Defs(q) < n) /\ ~(n < Defs(q))
    BY <1>8, <1>9, <2>1
  <2>. QED
    BY <1>1, <1>9, <2>2
<1>. QED
  BY <1>7, <1>8, <1>9, <1>10

\* What an end, or an else, belongs to, when no block is open.
LEMMA OpenerIs ==
  ASSUME Types, LevelInv, IfsInv, open = <<>>, NEW o, NEW e,
         Ends(o, e) \/ Elses(o, e)
  PROVE  OpenerOf(e) = o
<1>. DEFINE P(x) == source[x] \in Opener /\ (EndOf(x) = e \/
                      (source[x] = "if" /\ source[e] = "else" /\ ElseOf(x) = e))
            f == CHOOSE x \in 1..e : P(x)
<1>1. o \in 1..e /\ e \in 1 .. Len(source) /\ Len(source) \in Nat
      /\ DOMAIN source = 1 .. Len(source)
  BY SourceIs DEF Ends, Elses
<1>2. P(o)
  <2>1. CASE Ends(o, e)
    <3>1. EndOf(o) = e
      BY <2>1, EndIs
    <3>. QED
      BY <2>1, <3>1 DEF Ends
  <2>2. CASE Elses(o, e)
    <3>1. ElseOf(o) = e
      BY <2>2, ElseIs
    <3>. QED
      BY <2>2, <3>1 DEF Elses, Opener
  <2>. QED
    BY <2>1, <2>2
<1>3. f \in 1..e /\ P(f)
  BY <1>1, <1>2
<1>4. OpenerOf(e) = f
  BY DEF OpenerOf
<1>. HIDE DEF f
<1>5. f \in DOMAIN source
  BY <1>1, <1>3
<1>6. PICK d : Ends(f, d)
  <2>1. Level(Len(source)) = 0 /\ \A k \in DOMAIN source : Level(k) >= 0
    BY DEF LevelInv
  <2>. QED
    BY <1>3, <1>5, <2>1, EndsExist
<1>7. CASE EndOf(f) = e
  <2>1. d = e
    BY <1>6, <1>7, EndIs
  <2>2. source[e] \in Closer
    BY <1>6, <2>1, EndsCloser
  <2>3. Ends(o, e)
    BY <2>2 DEF Elses, Closer
  <2>4. f = o
    BY <1>6, <2>1, <2>3, EndsOnce
  <2>. QED
    BY <1>4, <2>4
<1>8. CASE source[f] = "if" /\ source[e] = "else" /\ ElseOf(f) = e
  <2>1. PICK g : Elses(f, g)
    <3>1. \A j : j \in DOMAIN open => FALSE
      OBVIOUS
    <3>. QED
      BY <1>5, <1>8, <3>1 DEF IfsInv
  <2>2. g = e
    BY <1>8, <2>1, ElseIs
  <2>3. Elses(o, e)
    <3>1. Ends(o, e) => source[e] \in Closer
      BY EndsCloser
    <3>. QED
      BY <1>8, <3>1 DEF Closer
  <2>4. f = o
    BY <2>1, <2>2, <2>3, ElsesOnce
  <2>. QED
    BY <1>4, <2>4
<1>. QED
  BY <1>3, <1>7, <1>8

LEMMA TargetIs ==
  ASSUME "main" \notin Functions, IInv, Types, NamesAll, FollowInv, phase = "done",
         NEW i \in DOMAIN code, Settled(i)
  PROVE  AddressOfLabel(i) = LineOf(TargetOf(code[i].src))
<1>. DEFINE t == code[i].src
            address == AddressOfLabel(i)
<1>0. /\ LevelInv /\ CodedInv /\ OrderInv /\ DefsInv /\ MainInv /\ IfsInv
      /\ t \in DOMAIN source /\ open = <<>>
  BY Shapes DEF FollowInv, NamesAll, BlocksInv
<1>1. CASE source[t] = "start" /\ LandsStart(i)
  <2>1. PICK m : IsMain(m) /\ Lands(i, m)
    BY <1>1 DEF LandsStart
  <2>2. m \in DOMAIN source /\ source[m] = "main" /\ \A k \in DOMAIN source : source[k] = "main" => k = m
    BY <2>1 DEF IsMain
  <2>3. {k \in DOMAIN source : source[k] = "main"} = {m}
    BY <2>2
  <2>4. First(0, {m}) = m
    <3>1. m \in Nat \ {0}
      BY <2>2, SourceIs
    <3>2. {m} \subseteq Int /\ m \in {m} /\ 0 \in Int /\ m > 0 /\ \A j \in {m} : j > 0 => m <= j
      BY <3>1
    <3>. QED
      BY <3>2, FirstIs
  <2>5. TargetOf(t) = m
    BY <1>1, <2>3, <2>4 DEF TargetOf, Place
  <2>6. Starts(m, address)
    BY <2>1 DEF Lands
  <2>. QED
    BY <2>2, <2>5, <2>6, LineIs
<1>l. source[Len(source)] = "halt"
  BY <1>0, SourceIs DEF OrderInv
\* The branches that go behind the end of something.
<1>b. ASSUME NEW e \in DOMAIN source, source[e] \in {"else", "endloop", "endif"},
             Lands(i, e + 1), TargetOf(t) = Following(e)
      PROVE  address = LineOf(TargetOf(t))
  <2>1. Starts(e + 1, address)
    BY <1>b DEF Lands
  <2>2. source[e] \notin {"start", "enddef"} /\ e # Len(source)
    BY <1>b, <1>l
  <2>. QED
    BY <1>b, <2>1, <2>2, FollowsIs
<1>2. CASE source[t] = "if" /\ LandsIf(i)
  <2>1. PICK e : Elses(t, e) /\ Lands(i, e + 1)
    BY <1>2 DEF LandsIf
  <2>2. ElseOf(t) = e
    BY <2>1, ElseIs
  <2>3. TargetOf(t) = Following(e)
    BY <1>2, <2>2 DEF TargetOf
  <2>4. e \in DOMAIN source /\ source[e] = "else"
    BY <2>1 DEF Elses
  <2>. QED
    BY <1>b, <2>1, <2>3, <2>4
<1>3. CASE source[t] \in {"while", "for"} /\ LandsLoop(i)
  <2>1. PICK e : Ends(t, e) /\ source[e] = "endloop" /\ Lands(i, e + 1)
    BY <1>3 DEF LandsLoop
  <2>2. EndOf(t) = e
    BY <2>1, EndIs
  <2>3. TargetOf(t) = Following(e)
    BY <1>3, <2>2 DEF TargetOf
  <2>4. e \in DOMAIN source
    BY <2>1 DEF Ends
  <2>. QED
    BY <1>b, <2>1, <2>3, <2>4
<1>4. CASE source[t] = "else" /\ LandsElse(i)
  <2>1. PICK o, e : Elses(o, t) /\ Ends(o, e) /\ source[e] = "endif" /\ Lands(i, e + 1)
    BY <1>4 DEF LandsElse
  <2>2. OpenerOf(t) = o /\ EndOf(o) = e
    BY <1>0, <2>1, OpenerIs, EndIs
  <2>3. TargetOf(t) = Following(e)
    BY <1>4, <2>2 DEF TargetOf
  <2>4. e \in DOMAIN source
    BY <2>1 DEF Ends
  <2>. QED
    BY <1>b, <2>1, <2>3, <2>4
<1>5. CASE source[t] = "endloop" /\ LandsBack(i)
  <2>1. PICK o : Ends(o, t) /\ source[o] \in {"while", "for"} /\ Lands(i, o)
    BY <1>5 DEF LandsBack
  <2>2. OpenerOf(t) = o
    BY <1>0, <2>1, OpenerIs
  <2>3. TargetOf(t) = o
    BY <1>5, <2>2 DEF TargetOf
  <2>4. o \in DOMAIN source /\ source[o] # "def" /\ source[o] # "endif" /\ Starts(o, address)
    BY <2>1 DEF Ends, Lands
  <2>. QED
    BY <2>3, <2>4, LineIs
<1>6. CASE source[t] = "loop" /\ LandsCall(i)
  <2>1. PICK n \in 1 .. Len(funcs) : funcs[n].name = <<LOOP, 0>> /\ address = funcs[n].address
    BY <1>6, CallLands
  <2>2. LoopDef \in DOMAIN source /\ source[LoopDef] = "def" /\ Starts(LoopDef + 1, address)
    BY <1>0, <2>1, LoopDefIs
  <2>3. TargetOf(t) = Following(LoopDef)
    BY <1>6 DEF TargetOf
  <2>4. LineOf(Following(LoopDef)) = address
    BY <1>l, <2>2, FollowsIs
  <2>. QED
    BY <2>3, <2>4
<1>. QED
  BY <1>1, <1>2, <1>3, <1>4, <1>5, <1>6 DEF Settled

LEMMA FollowState ==
  ASSUME "main" \notin Functions, IInv, Types, NamesAll, FollowInv
  PROVE  CodeFollowsSource
<1>. SUFFICES ASSUME phase = "done" PROVE CodeFollowsSource
  BY DEF CodeFollowsSource
<1>0. CodedInv /\ OrderInv /\ BranchInv /\ open = <<>>
  BY DEF FollowInv, NamesAll, BlocksInv
<1>1. ASSUME NEW i \in Branches PROVE AddressOfLabel(i) = LineOf(TargetOf(code[i].src))
  <2>1. i \in DOMAIN code
    BY DEF Branches
  <2>2. \A j : j \in DOMAIN open => FALSE
    BY <1>0
  <2>3. Settled(i)
    BY <1>0, <2>2 DEF BranchInv
  <2>. QED
    BY <2>1, <2>3, TargetIs
<1>2. ASSUME NEW i \in DOMAIN code, code[i].op \in {"plain", "bcond"},
             code[i + 1].src # code[i].src
      PROVE  LineOf(Following(code[i].src)) = i
  <2>. DEFINE t == code[i].src
  <2>1. /\ DOMAIN code = 1 .. Len(code) /\ Len(code) \in Nat /\ line = Len(code)
        /\ \A j \in DOMAIN code : code[j].src \in 1 .. Len(source)
        /\ DOMAIN source = 1 .. Len(source) /\ Len(source) \in Nat
    BY Shapes
  <2>2. i # Len(code)
    BY <1>0, <1>2, <2>1 DEF OrderInv
  <2>3. i + 1 \in DOMAIN code /\ i \in 1 .. Len(code) /\ i < i + 1
    BY <2>1, <2>2
  <2>4. code[i + 1].src > t
    <3>1. t <= code[i + 1].src
      BY <1>0, <2>3 DEF CodedInv
    <3>. QED
      BY <1>2, <2>1, <2>3, <3>1
  <2>5. Starts(t + 1, i)
    <3>1. ASSUME NEW j \in DOMAIN code PROVE code[j].src < t + 1 <=> j <= i
      <4>1. CASE j <= i
        <5>1. j = i \/ j < i
          BY <2>1, <4>1
        <5>2. code[j].src <= t
          <6>1. j < i => code[j].src <= code[i].src
            BY <1>0 DEF CodedInv
          <6>. QED
            BY <2>1, <5>1, <6>1
        <5>. QED
          BY <2>1, <4>1, <5>2
      <4>2. CASE ~(j <= i)
        <5>1. j = i + 1 \/ i + 1 < j
          BY <2>1, <4>2
        <5>2. code[i + 1].src <= code[j].src
          <6>1. i + 1 < j => code[i + 1].src <= code[j].src
            BY <1>0, <2>3 DEF CodedInv
          <6>. QED
            BY <2>1, <2>3, <5>1, <6>1
        <5>. QED
          BY <2>1, <2>3, <2>4, <4>2, <5>2
      <4>. QED
        BY <4>1, <4>2
    <3>2. i \in 0..line
      BY <2>1, <2>3
    <3>. QED
      BY <3>1, <3>2 DEF Starts
  <2>6. t \in DOMAIN source /\ source[t] \notin {"start", "enddef"}
    BY <1>0, <1>2, <2>1 DEF CodedInv, Bare
  <2>7. t # Len(source)
    <3>1. code[i + 1].src \in 1 .. Len(source) /\ t \in 1 .. Len(source)
      BY <2>1, <2>3
    <3>. QED
      BY <2>1, <2>4, <3>1
  <2>. QED
    BY <2>5, <2>6, <2>7, FollowsIs
<1>. QED
  BY <1>1, <1>2 DEF CodeFollowsSource

-----------------------------------------------------------------------------
(* What a step does: it reads one part or two, with code for them. *)

LevelFacts ==
  \A e \in Nat : /\ Level(0) = 0 /\ Level(e) \in Int
                 /\ source[e + 1] \in Opener => Level(e + 1) = Level(e) + 1
                 /\ source[e + 1] \in Closer => Level(e + 1) = Level(e) - 1
                 /\ source[e + 1] \notin Opener \cup Closer => Level(e + 1) = Level(e)
                 /\ Defs(0) = 0 /\ Defs(e) \in Nat
                 /\ source[e + 1] = "def" => Defs(e + 1) = Defs(e) + 1
                 /\ source[e + 1] # "def" => Defs(e + 1) = Defs(e)
Sizes ==
  /\ Len(code) \in Nat /\ line = Len(code) /\ DOMAIN code = 1 .. Len(code)
  /\ Len(source) \in Nat /\ DOMAIN source = 1 .. Len(source)
  /\ Len(open) \in Nat /\ DOMAIN open = 1 .. Len(open)
  /\ Len(funcs) \in Nat /\ DOMAIN funcs = 1 .. Len(funcs)
  /\ \A i \in 1 .. Len(code) : code[i].src \in 1 .. Len(source) /\ code[i].state \in 0 .. Len(funcs)

LEMMA LevelLater == LevelFacts'
<1>1. LevelFacts
  BY LevelNext DEF LevelFacts
<1>. QED
  BY <1>1, PTL

LEMMA SizesNow == IInv /\ Types => Sizes
  BY Shapes DEF Sizes

LEMMA SizesLater == (IInv /\ Types => Sizes)'
  BY SizesNow, PTL

ReadsParts(n, kind) ==
  /\ n \in {0, 1}
  /\ Len(source') = Len(source) + n + 1
  /\ \A t \in DOMAIN source : source'[t] = source[t]
  /\ n = 1 => source'[Here] \in {"assign", "update", "loop"}
  /\ source'[Here + n] = kind
AddsCode(n, kind) ==
  /\ Len(code') >= Len(code) + n
  /\ kind \in Bare <=> Len(code') = Len(code) + n
  /\ \A i \in DOMAIN code : /\ code'[i].src = code[i].src /\ code'[i].op = code[i].op
                            /\ code'[i].state = code[i].state
  /\ \A i \in Len(code) + 1 .. Len(code) + n : code'[i].src = Here
  /\ \A i \in Len(code) + n + 1 .. Len(code') : code'[i].src = Here + n
AddsEntries ==
  /\ \A s \in 0 .. Len(funcs) : \A k \in DOMAIN tables[s] :
       k \in DOMAIN tables'[s] /\ tables'[s][k] = tables[s][k]
  /\ Len(funcs') >= Len(funcs) /\ \A k \in DOMAIN funcs : funcs'[k] = funcs[k]
Added(n, kind) == ReadsParts(n, kind) /\ AddsCode(n, kind) /\ AddsEntries

\* What is known before and after a step.
Around == /\ IInv /\ Types /\ NamesAll /\ FollowInv
          /\ IInv' /\ Types' /\ NamesAll'

LEMMA AddedShape ==
  ASSUME Around, NEW n, NEW kind, Added(n, kind)
  PROVE  /\ Sizes /\ Sizes' /\ n \in Nat /\ Here = Len(source) + 1
         /\ \A t \in 1 .. Len(source') : t \in 1 .. Len(source) \/ t = Here \/ t = Here + n
         /\ Here + n = Len(source') /\ Last(source') = kind
         /\ \A t \in 1 .. Len(source) : t \in 1 .. Len(source') /\ source'[t] = source[t]
         /\ \A i \in 1 .. Len(code') : \/ i \in 1 .. Len(code)
                                       \/ i \in Len(code) + 1 .. Len(code) + n
                                       \/ i \in Len(code) + n + 1 .. Len(code')
         /\ \A i \in 1 .. Len(code) : i \in 1 .. Len(code') /\ code'[i].src = code[i].src
         /\ \A i \in 1 .. Len(code') : i \in 1 .. Len(code) \/ code'[i].src > Len(source)
<1>1. Sizes /\ Sizes'
  BY SizesNow, SizesLater DEF Around
<1>2. n \in Nat /\ Here = Len(source) + 1 /\ Len(source') = Len(source) + n + 1
      /\ (n = 0 \/ n = 1) /\ Len(code') >= Len(code) + n
  BY DEF Added, ReadsParts, AddsCode, AddsEntries, Here
<1>3. \A t \in 1 .. Len(source') : t \in 1 .. Len(source) \/ t = Here \/ t = Here + n
  BY <1>1, <1>2 DEF Sizes
<1>4. Here + n = Len(source') /\ Last(source') = kind
  <2>1. Here + n = Len(source')
    BY <1>1, <1>2 DEF Sizes
  <2>2. source' \in Seq(Kinds)
    BY DEF Around, Types
  <2>. QED
    BY <2>1, <2>2 DEF Added, ReadsParts, AddsCode, AddsEntries, Last
<1>5. \A t \in 1 .. Len(source) : t \in 1 .. Len(source') /\ source'[t] = source[t]
  <2>1. \A t \in 1 .. Len(source) : source'[t] = source[t]
    <3>1. DOMAIN source = 1 .. Len(source)
      BY <1>1 DEF Sizes
    <3>. QED
      BY <3>1 DEF Added, ReadsParts
  <2>2. Len(source) \in Nat
    BY <1>1 DEF Sizes
  <2>. QED
    BY <1>2, <2>1, <2>2
<1>6. \A i \in 1 .. Len(code') : \/ i \in 1 .. Len(code)
                                 \/ i \in Len(code) + 1 .. Len(code) + n
                                 \/ i \in Len(code) + n + 1 .. Len(code')
  BY <1>1, <1>2 DEF Sizes
<1>7. \A i \in 1 .. Len(code) : i \in 1 .. Len(code') /\ code'[i].src = code[i].src
  BY <1>1, <1>2 DEF Sizes, Added, ReadsParts, AddsCode, AddsEntries
<1>8. ASSUME NEW i \in 1 .. Len(code') PROVE i \in 1 .. Len(code) \/ code'[i].src > Len(source)
  <2>1. CASE i \in Len(code) + 1 .. Len(code) + n
    <3>1. code'[i].src = Here
      BY <2>1 DEF Added, ReadsParts, AddsCode, AddsEntries
    <3>. QED
      BY <1>1, <1>2, <3>1 DEF Sizes
  <2>2. CASE i \in Len(code) + n + 1 .. Len(code')
    <3>1. code'[i].src = Here + n
      BY <2>2 DEF Added, ReadsParts, AddsCode, AddsEntries
    <3>. QED
      BY <1>1, <1>2, <3>1 DEF Sizes
  <2>. QED
    BY <1>6, <2>1, <2>2
<1>. QED
  BY <1>1, <1>2, <1>3, <1>4, <1>5, <1>6, <1>7, <1>8

LEMMA LevelKeep ==
  ASSUME Around, NEW n, NEW kind, Added(n, kind), NEW e \in 0 .. Len(source)
  PROVE  Level(e)' = Level(e) /\ Defs(e)' = Defs(e)
<1>1. Len(source) \in Nat /\ \A t \in 1 .. Len(source) : source'[t] = source[t]
  BY AddedShape DEF Sizes
<1>2. e \in Nat /\ \A k \in 1..e : source'[k] = source[k]
  BY <1>1
<1>3. \A K : {k \in 1..e : source'[k] \in K} = {k \in 1..e : source[k] \in K}
  BY <1>2
<1>4. {k \in 1..e : source'[k] = "def"} = {k \in 1..e : source[k] = "def"}
  BY <1>2
<1>. QED
  BY <1>3, <1>4 DEF Level, Depth, Defs

LEMMA LevelAdded ==
  ASSUME Around, NEW n, NEW kind, Added(n, kind), NEW m, m = Len(source)
  PROVE  /\ m \in Nat /\ n \in Nat /\ Level(m) \in Int /\ Len(source') = m + n + 1 /\ Here = m + 1
         /\ Level(m)' = Level(m) /\ Level(m + n)' = Level(m)
         /\ kind \in Opener => Level(m + n + 1)' = Level(m) + 1
         /\ kind \in Closer => Level(m + n + 1)' = Level(m) - 1
         /\ kind \notin Opener \cup Closer => Level(m + n + 1)' = Level(m)
         /\ Defs(m) \in Nat /\ Defs(m)' = Defs(m) /\ Defs(m + n)' = Defs(m)
         /\ kind = "def" => Defs(m + n + 1)' = Defs(m) + 1
         /\ kind # "def" => Defs(m + n + 1)' = Defs(m)
<1>1. /\ m \in Nat /\ n \in Nat /\ Here = m + 1 /\ Here + n = m + n + 1
      /\ Here + n = Len(source') /\ m \in 0 .. Len(source) /\ m + n \in Nat /\ (n = 0 \/ n = 1)
  <2>1. n = 0 \/ n = 1
    BY DEF Added, ReadsParts, AddsCode, AddsEntries
  <2>2. Here = Len(source) + 1 /\ Here + n = Len(source') /\ Len(source) \in Nat
    BY AddedShape DEF Sizes
  <2>. QED
    BY <2>1, <2>2
<1>2. Level(m)' = Level(m) /\ Defs(m)' = Defs(m)
  BY <1>1, LevelKeep
<1>3. Level(m) \in Int /\ Defs(m) \in Nat
  BY <1>1, LevelNext
<1>4. Level(m + n)' = Level(m) /\ Defs(m + n)' = Defs(m)
  <2>1. CASE n = 0
    <3>1. m + n = m
      BY <1>1, <2>1
    <3>. QED
      BY <1>2, <3>1
  <2>2. CASE n = 1
    <3>1. source'[m + 1] \in {"assign", "update", "loop"} /\ m + n = m + 1
      BY <1>1, <2>2 DEF Added, ReadsParts, AddsCode, AddsEntries
    <3>2. source'[m + 1] \notin Opener \cup Closer /\ source'[m + 1] # "def"
      BY <3>1 DEF Opener, Closer
    <3>3. Level(m + 1)' = Level(m)' /\ Defs(m + 1)' = Defs(m)'
      BY <1>1, <3>2, LevelLater DEF LevelFacts
    <3>. QED
      BY <1>2, <3>1, <3>3
  <2>. QED
    BY <1>1, <2>1, <2>2
<1>5. source'[(m + n) + 1] = kind
  BY <1>1 DEF Added, ReadsParts, AddsCode, AddsEntries
<1>6. /\ kind \in Opener => Level((m + n) + 1)' = Level(m + n)' + 1
      /\ kind \in Closer => Level((m + n) + 1)' = Level(m + n)' - 1
      /\ kind \notin Opener \cup Closer => Level((m + n) + 1)' = Level(m + n)'
      /\ kind = "def" => Defs((m + n) + 1)' = Defs(m + n)' + 1
      /\ kind # "def" => Defs((m + n) + 1)' = Defs(m + n)'
  BY <1>1, <1>5, LevelLater DEF LevelFacts
<1>. QED
  BY <1>1, <1>2, <1>3, <1>4, <1>6

-----------------------------------------------------------------------------
(* What stays as it is when more is read. *)

LEMMA EndsKeep ==
  ASSUME Around, NEW n, NEW kind, Added(n, kind), NEW o, NEW e, Ends(o, e)
  PROVE  Ends(o, e)'
<1>1. Sizes /\ Sizes' /\ \A t \in 1 .. Len(source) : t \in 1 .. Len(source') /\ source'[t] = source[t]
  BY AddedShape
<1>2. o \in 1 .. Len(source) /\ e \in 1 .. Len(source) /\ o < e /\ source[o] \in Opener
  BY <1>1 DEF Ends, Sizes
<1>3. \A k \in 0 .. Len(source) : Level(k)' = Level(k)
  BY LevelKeep
<1>4. o - 1 \in 0 .. Len(source) /\ e \in 0 .. Len(source)
      /\ \A k \in o .. e - 1 : k \in 0 .. Len(source)
  BY <1>1, <1>2 DEF Sizes
<1>5. Level(e)' = Level(o - 1)' /\ \A k \in o .. e - 1 : Level(k)' > Level(o - 1)'
  BY <1>3, <1>4 DEF Ends
<1>6. o \in DOMAIN source' /\ e \in DOMAIN source' /\ source'[o] \in Opener
  BY <1>1, <1>2 DEF Sizes
<1>. QED
  BY <1>2, <1>5, <1>6 DEF Ends

LEMMA ElsesKeep ==
  ASSUME Around, NEW n, NEW kind, Added(n, kind), NEW o, NEW e, Elses(o, e)
  PROVE  Elses(o, e)'
<1>1. Sizes /\ Sizes' /\ \A t \in 1 .. Len(source) : t \in 1 .. Len(source') /\ source'[t] = source[t]
  BY AddedShape
<1>2. o \in 1 .. Len(source) /\ e \in 1 .. Len(source) /\ o < e
      /\ source[o] = "if" /\ source[e] = "else"
  BY <1>1 DEF Elses, Sizes
<1>3. \A k \in 0 .. Len(source) : Level(k)' = Level(k)
  BY LevelKeep
<1>4. o \in 0 .. Len(source) /\ e \in 0 .. Len(source)
      /\ \A k \in o .. e - 1 : k \in 0 .. Len(source) /\ source'[k] = source[k]
  <2>1. \A k \in o .. e - 1 : k \in 1 .. Len(source) /\ k \in 0 .. Len(source)
    BY <1>1, <1>2 DEF Sizes
  <2>. QED
    BY <1>1, <1>2, <2>1 DEF Sizes
<1>5. Level(e)' = Level(o)'
      /\ \A k \in o .. e - 1 : Level(k)' >= Level(o)' /\ (source'[k] = "else" => Level(k)' # Level(o)')
  BY <1>3, <1>4 DEF Elses
<1>6. o \in DOMAIN source' /\ e \in DOMAIN source' /\ source'[o] = "if" /\ source'[e] = "else"
  BY <1>1, <1>2 DEF Sizes
<1>. QED
  BY <1>2, <1>5, <1>6 DEF Elses

LEMMA StartsKeep ==
  ASSUME Around, NEW n, NEW kind, Added(n, kind), NEW t \in 1 .. Len(source) + 1,
         NEW a, Starts(t, a)
  PROVE  Starts(t, a)'
<1>1. /\ Sizes /\ Sizes'
      /\ \A i \in 1 .. Len(code) : i \in 1 .. Len(code') /\ code'[i].src = code[i].src
      /\ \A i \in 1 .. Len(code') : i \in 1 .. Len(code) \/ code'[i].src > Len(source)
  BY AddedShape
<1>2. Len(code') >= Len(code) /\ Len(code) \in Nat /\ Len(code') \in Nat
  <2>1. n \in {0, 1} /\ Len(code') >= Len(code) + n
    BY DEF Added, ReadsParts, AddsCode, AddsEntries
  <2>. QED
    BY <1>1, <2>1 DEF Sizes
<1>3. a \in 0 .. Len(code) /\ \A i \in 1 .. Len(code) : code[i].src < t <=> i <= a
  BY <1>1 DEF Starts, line, Sizes
<1>4. ASSUME NEW i \in 1 .. Len(code') PROVE code'[i].src < t <=> i <= a
  <2>1. CASE i \in 1 .. Len(code)
    BY <1>1, <1>3, <2>1
  <2>2. CASE i \notin 1 .. Len(code)
    <3>1. code'[i].src > Len(source) /\ code'[i].src \in Nat
      BY <1>1, <2>2 DEF Sizes
    <3>2. ~(code'[i].src < t) /\ ~(i <= a)
      BY <1>1, <1>2, <1>3, <2>2, <3>1 DEF Sizes
    <3>. QED
      BY <3>2
  <2>. QED
    BY <2>1, <2>2
<1>5. a \in 0 .. Len(code')
  BY <1>2, <1>3
<1>. QED
  BY <1>1, <1>4, <1>5 DEF Starts, line, Sizes

\* What is read next is behind all the code.
LEMMA StartsNext ==
  ASSUME Around
  PROVE  /\ Starts(Len(source) + 1, line)
         /\ \A m, a : m = Len(source') + 1 /\ a = Len(code') => Starts(m, a)'
<1>1. Sizes /\ Sizes'
  BY SizesNow, SizesLater DEF Around
<1>2. Starts(Len(source) + 1, line)
  BY <1>1 DEF Starts, Sizes
<1>3. ASSUME NEW m, NEW a, m = Len(source') + 1, a = Len(code') PROVE Starts(m, a)'
  <2>1. a \in 0 .. Len(code') /\ \A i \in 1 .. Len(code') : code'[i].src < m <=> i <= a
    BY <1>1, <1>3 DEF Sizes
  <2>. QED
    BY <1>1, <2>1 DEF Starts, line, Sizes
<1>. QED
  BY <1>2, <1>3

LEMMA LandsKeep ==
  ASSUME Around, NEW n, NEW kind, Added(n, kind), NEW i \in DOMAIN code,
         code'[i].label = code[i].label, NEW t \in 1 .. Len(source) + 1, Lands(i, t)
  PROVE  Lands(i, t)'
<1>1. /\ code'[i].state = code[i].state /\ code[i].state \in 0 .. Len(funcs)
      /\ code[i].label + 1 \in DOMAIN tables[code[i].state]
  BY AddedShape DEF Added, ReadsParts, AddsCode, AddsEntries, Lands, Aimed, Sizes
<1>2. /\ code[i].label + 1 \in DOMAIN tables'[code[i].state]
      /\ tables'[code[i].state][code[i].label + 1] = tables[code[i].state][code[i].label + 1]
  BY <1>1 DEF Added, ReadsParts, AddsCode, AddsEntries
<1>3. Aimed(i)' /\ AddressOfLabel(i)' = AddressOfLabel(i)
  BY <1>1, <1>2 DEF Aimed, AddressOfLabel
<1>4. PICK a : a = AddressOfLabel(i)
  OBVIOUS
<1>5. Starts(t, a)'
  BY <1>4, StartsKeep DEF Lands
<1>. QED
  BY <1>3, <1>4, <1>5 DEF Lands, Starts

-----------------------------------------------------------------------------
(* The parts of the invariant, over a step. *)

LEMMA LevelStep ==
  ASSUME Around, NEW n, NEW kind, Added(n, kind),
         kind \in Opener => Len(open') = Len(open) + 1,
         kind \in Closer => Len(open') = Len(open) - 1,
         kind \notin Opener \cup Closer => Len(open') = Len(open)
  PROVE  LevelInv'
<1>1. PICK m : m = Len(source)
  OBVIOUS
<1>2. /\ m \in Nat /\ n \in Nat /\ Level(m) \in Int /\ Len(source') = m + n + 1 /\ Here = m + 1
      /\ Level(m)' = Level(m) /\ Level(m + n)' = Level(m)
      /\ kind \in Opener => Level(m + n + 1)' = Level(m) + 1
      /\ kind \in Closer => Level(m + n + 1)' = Level(m) - 1
      /\ kind \notin Opener \cup Closer => Level(m + n + 1)' = Level(m)
  BY <1>1, LevelAdded
<1>3. Level(m) = Len(open) /\ \A k \in 1..m : Level(k) >= 0
  BY <1>1, AddedShape DEF Around, FollowInv, LevelInv, Sizes
<1>4. /\ Len(open) \in Nat /\ Len(open') \in Nat /\ DOMAIN source' = 1 .. Len(source')
      /\ \A t \in 1 .. Len(source') : t \in 1..m \/ t = Here \/ t = Here + n
  BY <1>1, AddedShape DEF Sizes
<1>5. Level(m + n + 1)' = Len(open')
  BY <1>2, <1>3
<1>6. ASSUME NEW k \in 1 .. Len(source') PROVE Level(k)' >= 0
  <2>1. CASE k \in 1..m
    <3>1. Level(k)' = Level(k)
      <4>1. k \in 0 .. Len(source)
        BY <1>1, <2>1
      <4>. QED
        BY <4>1, LevelKeep
    <3>. QED
      BY <1>3, <2>1, <3>1
  <2>2. CASE k = m + n + 1
    BY <1>4, <1>5, <2>2
  <2>3. CASE k = m + n
    BY <1>2, <1>3, <1>4, <2>3
  <2>4. k = m + n + 1 \/ k = m + n \/ k \in 1..m
    <3>1. n = 0 \/ n = 1
      BY DEF Added, ReadsParts, AddsCode, AddsEntries
    <3>. QED
      BY <1>2, <1>4, <3>1
  <2>. QED
    BY <2>1, <2>2, <2>3, <2>4
<1>7. Level(Len(source))' = Len(open')
  BY <1>2, <1>5
<1>. QED
  BY <1>4, <1>6, <1>7 DEF LevelInv

LEMMA CodedStep ==
  ASSUME Around, NEW n, NEW kind, Added(n, kind), kind # "start"
  PROVE  CodedInv'
<1>0. CodedInv
  BY DEF Around, FollowInv
<1>1. /\ Sizes /\ Sizes' /\ n \in Nat /\ Here = Len(source) + 1 /\ Here + n = Len(source')
      /\ \A t \in 1 .. Len(source') : t \in 1 .. Len(source) \/ t = Here \/ t = Here + n
      /\ \A t \in 1 .. Len(source) : t \in 1 .. Len(source') /\ source'[t] = source[t]
      /\ \A i \in 1 .. Len(code') : \/ i \in 1 .. Len(code)
                                    \/ i \in Len(code) + 1 .. Len(code) + n
                                    \/ i \in Len(code) + n + 1 .. Len(code')
      /\ \A i \in 1 .. Len(code) : i \in 1 .. Len(code') /\ code'[i].src = code[i].src
      /\ \A i \in 1 .. Len(code') : i \in 1 .. Len(code) \/ code'[i].src > Len(source)
  BY AddedShape
<1>2. /\ \A i \in Len(code) + 1 .. Len(code) + n : code'[i].src = Here
      /\ \A i \in Len(code) + n + 1 .. Len(code') : code'[i].src = Here + n
      /\ n = 1 => source'[Here] \in {"assign", "update", "loop"}
      /\ source'[Here + n] = kind /\ n \in {0, 1} /\ Len(code') >= Len(code) + n
      /\ kind \in Bare <=> Len(code') = Len(code) + n
  BY DEF Added, ReadsParts, AddsCode, AddsEntries
<1>3. ASSUME NEW i \in 1 .. Len(code'), NEW j \in 1 .. Len(code'), i < j
      PROVE  code'[i].src <= code'[j].src
  <2>1. CASE j \in 1 .. Len(code)
    <3>1. i \in 1 .. Len(code)
      BY <1>1, <1>3, <2>1 DEF Sizes
    <3>2. code[i].src <= code[j].src
      BY <1>0, <1>1, <1>3, <2>1, <3>1 DEF CodedInv, Sizes
    <3>. QED
      BY <1>1, <2>1, <3>1, <3>2
  <2>2. CASE j \notin 1 .. Len(code) /\ i \in 1 .. Len(code)
    <3>1. code'[i].src = code[i].src /\ code[i].src \in 1 .. Len(source) /\ code'[j].src > Len(source)
          /\ code'[j].src \in Nat
      BY <1>1, <2>2 DEF Sizes
    <3>. QED
      BY <1>1, <3>1 DEF Sizes
  <2>3. CASE j \notin 1 .. Len(code) /\ i \notin 1 .. Len(code)
    <3>1. CASE i \in Len(code) + 1 .. Len(code) + n
      <4>1. code'[i].src = Here /\ (code'[j].src = Here \/ code'[j].src = Here + n)
        BY <1>1, <1>2, <2>3, <3>1
      <4>. QED
        BY <1>1, <4>1 DEF Sizes
    <3>2. CASE i \in Len(code) + n + 1 .. Len(code')
      <4>1. j \in Len(code) + n + 1 .. Len(code')
        BY <1>1, <1>3, <3>2 DEF Sizes
      <4>2. code'[i].src = Here + n /\ code'[j].src = Here + n
        BY <1>2, <3>2, <4>1
      <4>. QED
        BY <1>1, <4>2 DEF Sizes
    <3>. QED
      BY <1>1, <2>3, <3>1, <3>2
  <2>. QED
    BY <2>1, <2>2, <2>3
<1>4. ASSUME NEW i \in 1 .. Len(code')
      PROVE  /\ source'[code'[i].src] \notin Bare
             /\ source'[code'[i].src] = "start" => code'[i].op = "b"
  <2>1. CASE i \in 1 .. Len(code)
    <3>1. code'[i].src = code[i].src /\ code[i].src \in 1 .. Len(source) /\ i \in DOMAIN code
      BY <1>1, <2>1 DEF Sizes
    <3>2. source'[code'[i].src] = source[code[i].src] /\ code'[i].op = code[i].op
      BY <1>1, <3>1 DEF Added, ReadsParts, AddsCode, AddsEntries
    <3>. QED
      BY <1>0, <3>1, <3>2 DEF CodedInv
  <2>2. CASE i \in Len(code) + 1 .. Len(code) + n
    <3>1. n = 1 /\ code'[i].src = Here
      BY <1>1, <1>2, <2>2 DEF Sizes
    <3>2. source'[code'[i].src] \in {"assign", "update", "loop"}
      BY <1>2, <3>1
    <3>. QED
      BY <3>2 DEF Bare
  <2>3. CASE i \in Len(code) + n + 1 .. Len(code')
    <3>1. code'[i].src = Here + n /\ Len(code') # Len(code) + n
      BY <1>1, <1>2, <2>3 DEF Sizes
    <3>. QED
      BY <1>2, <3>1
  <2>. QED
    BY <1>1, <2>1, <2>2, <2>3
<1>5. ASSUME NEW t \in 1 .. Len(source'), source'[t] \notin Bare
      PROVE  \E i \in 1 .. Len(code') : code'[i].src = t
  <2>1. CASE t \in 1 .. Len(source)
    <3>1. PICK i \in DOMAIN code : code[i].src = t
      BY <1>0, <1>1, <1>5, <2>1 DEF CodedInv, Sizes
    <3>. QED
      BY <1>1, <3>1 DEF Sizes
  <2>2. CASE t = Here + n
    <3>1. Len(code') # Len(code) + n
      BY <1>2, <1>5, <2>2
    <3>2. Len(code') \in Len(code) + n + 1 .. Len(code') /\ Len(code') \in 1 .. Len(code')
      BY <1>1, <1>2, <3>1 DEF Sizes
    <3>. QED
      BY <1>2, <2>2, <3>2
  <2>3. CASE t = Here /\ n = 1
    <3>1. Len(code) + 1 \in Len(code) + 1 .. Len(code) + n /\ Len(code) + 1 \in 1 .. Len(code')
      BY <1>1, <1>2, <2>3 DEF Sizes
    <3>. QED
      BY <1>2, <2>3, <3>1
  <2>4. n = 0 => Here + n = Here
    BY <1>1 DEF Sizes
  <2>. QED
    BY <1>1, <1>2, <2>1, <2>2, <2>3, <2>4
<1>6. code'[1].src = 1 /\ source'[1] = "start"
  <2>1. 1 \in 1 .. Len(code) /\ 1 \in 1 .. Len(source)
    <3>1. Len(code) >= 1 /\ Len(source) > 0
      BY DEF Around, IInv, CodeInv, NamesAll, BlocksInv
    <3>. QED
      BY <1>1, <3>1 DEF Sizes
  <2>. QED
    BY <1>0, <1>1, <2>1 DEF CodedInv
<1>. QED
  BY <1>1, <1>3, <1>4, <1>5, <1>6 DEF CodedInv, Sizes

LEMMA OrderStep ==
  ASSUME Around, NEW n, NEW kind, Added(n, kind),
         kind = "def" => n = 0 /\ Last(source) \in {"start", "enddef"},
         Last(source) = "enddef" => source'[Here] \in {"def", "main"},
         kind = "enddef" => phase' = "functions" /\ open' = <<>>,
         phase' = "functions" /\ open' = <<>> => kind = "enddef",
         phase' = "done" => kind = "halt" /\ code'[Len(code')].op = "halt"
  PROVE  OrderInv'
<1>0. OrderInv
  BY DEF Around, FollowInv
<1>1. /\ Sizes /\ Sizes' /\ n \in Nat /\ Here = Len(source) + 1 /\ Here + n = Len(source')
      /\ Last(source') = kind
      /\ \A t \in 1 .. Len(source') : t \in 1 .. Len(source) \/ t = Here \/ t = Here + n
      /\ \A t \in 1 .. Len(source) : t \in 1 .. Len(source') /\ source'[t] = source[t]
  BY AddedShape
<1>2. n \in {0, 1} /\ source'[Here + n] = kind
      /\ (n = 1 => source'[Here] \in {"assign", "update", "loop"})
  BY DEF Added, ReadsParts, AddsCode, AddsEntries
<1>3. Last(source) = source[Len(source)]
  BY SourceIs DEF Around
<1>4. Len(source) > 0
  BY DEF Around, NamesAll, BlocksInv
<1>5. ASSUME NEW k \in 1 .. Len(source'), source'[k] = "def"
      PROVE  k - 1 \in 1 .. Len(source') /\ source'[k - 1] \in {"start", "enddef"}
  <2>1. CASE k \in 1 .. Len(source)
    <3>1. k - 1 \in 1 .. Len(source) /\ source[k - 1] \in {"start", "enddef"}
      BY <1>0, <1>1, <1>5, <2>1 DEF OrderInv, Sizes
    <3>. QED
      BY <1>1, <3>1
  <2>2. CASE k \notin 1 .. Len(source)
    <3>1. ~(k = Here /\ n = 1)
      BY <1>2, <1>5
    <3>2. k = Here + n /\ n = 0
      BY <1>1, <1>2, <1>5, <2>2, <3>1
    <3>3. k - 1 = Len(source) /\ Len(source) \in 1 .. Len(source) /\ kind = "def"
      BY <1>1, <1>2, <1>4, <1>5, <3>2 DEF Sizes
    <3>. QED
      BY <1>1, <1>3, <3>3
  <2>. QED
    BY <2>1, <2>2
<1>6. ASSUME NEW k \in 1 .. Len(source'), source'[k] = "enddef", k < Len(source')
      PROVE  source'[k + 1] \in {"def", "main"}
  <2>1. CASE k \in 1 .. Len(source) /\ k # Len(source)
    <3>1. k + 1 \in 1 .. Len(source) /\ k < Len(source)
      <4>1. Len(source) \in Nat
        BY <1>1 DEF Sizes
      <4>. QED
        BY <2>1, <4>1
    <3>2. source[k] = "enddef" /\ DOMAIN source = 1 .. Len(source)
      BY <1>1, <1>6, <2>1 DEF Sizes
    <3>3. source[k + 1] \in {"def", "main"}
      BY <1>0, <2>1, <3>1, <3>2 DEF OrderInv
    <3>. QED
      BY <1>1, <3>1, <3>3
  <2>2. CASE k = Len(source)
    <3>1. k \in 1 .. Len(source) /\ k + 1 = Here
      BY <1>1, <1>4, <2>2 DEF Sizes
    <3>2. Last(source) = "enddef"
      BY <1>1, <1>3, <1>6, <2>2, <3>1
    <3>. QED
      BY <3>1, <3>2
  <2>3. CASE k \notin 1 .. Len(source)
    <3>1. k = Here /\ n = 1
      BY <1>1, <1>2, <1>6, <2>3 DEF Sizes
    <3>. QED
      BY <1>2, <1>6, <3>1
  <2>. QED
    BY <2>1, <2>2, <2>3
<1>. QED
  BY <1>1, <1>5, <1>6 DEF OrderInv, Sizes, line

LEMMA DefsStep ==
  ASSUME Around, NEW n, NEW kind, Added(n, kind),
         kind # "def" => Len(funcs') = Len(funcs),
         kind = "def" => /\ Len(funcs') = Len(funcs) + 1
                         /\ funcs'[Len(funcs')].address = Len(code'),
         kind = "enddef" => Len(funcs) > 0,
         \A j \in DOMAIN open' : open'[j].kind = "def" => Len(funcs') > 0 /\ phase' = "functions"
  PROVE  DefsInv'
<1>0. DefsInv
  BY DEF Around, FollowInv
<1>1. PICK m : m = Len(source)
  OBVIOUS
<1>2. /\ m \in Nat /\ n \in Nat /\ Len(source') = m + n + 1 /\ Here = m + 1
      /\ Defs(m) \in Nat /\ Defs(m)' = Defs(m) /\ Defs(m + n)' = Defs(m)
      /\ kind = "def" => Defs(m + n + 1)' = Defs(m) + 1
      /\ kind # "def" => Defs(m + n + 1)' = Defs(m)
  BY <1>1, LevelAdded
<1>3. /\ Sizes /\ Sizes'
      /\ \A t \in 1 .. Len(source') : t \in 1 .. Len(source) \/ t = Here \/ t = Here + n
      /\ \A t \in 1 .. Len(source) : t \in 1 .. Len(source') /\ source'[t] = source[t]
  BY AddedShape
<1>4. /\ n = 0 \/ n = 1
      /\ n = 1 => source'[Here] \in {"assign", "update", "loop"}
      /\ source'[Here + n] = kind
      /\ \A k \in DOMAIN funcs : funcs'[k] = funcs[k]
  BY DEF Added, ReadsParts, AddsCode, AddsEntries
<1>5. Len(funcs) \in Nat /\ Len(funcs') \in Nat /\ DOMAIN funcs = 1 .. Len(funcs)
      /\ DOMAIN source' = 1 .. Len(source') /\ DOMAIN source = 1 .. Len(source)
      /\ Len(funcs') >= Len(funcs)
  <2>1. Len(funcs') >= Len(funcs)
    BY DEF Added, ReadsParts, AddsCode, AddsEntries
  <2>. QED
    BY <1>3, <2>1 DEF Sizes
<1>6. Defs(m) = Len(funcs)
  BY <1>0, <1>1 DEF DefsInv
<1>7. Defs(m + n + 1)' = Len(funcs')
  BY <1>2, <1>6
\* The parts there were.
<1>8. ASSUME NEW p \in 1..m
      PROVE  /\ source'[p] = source[p] /\ Defs(p)' = Defs(p) /\ p \in DOMAIN source
             /\ p + 1 \in 1 .. Len(source) + 1 /\ p \in 1 .. Len(source')
  <2>1. p \in 0 .. Len(source) /\ p \in 1 .. Len(source)
    BY <1>1, <1>2
  <2>2. Defs(p)' = Defs(p)
    BY <2>1, LevelKeep
  <2>. QED
    BY <1>1, <1>2, <1>3, <1>5, <2>1, <2>2
<1>9. ASSUME NEW p \in 1 .. Len(source'), source'[p] \in {"def", "enddef"}, p \notin 1..m
      PROVE  p = m + n + 1 /\ source'[p] = kind
  <2>1. p = Here \/ p = Here + n
    BY <1>1, <1>3, <1>9
  <2>2. ~(p = Here /\ n = 1)
    BY <1>4, <1>9
  <2>3. p = Here + n
    BY <1>2, <1>4, <2>1, <2>2
  <2>. QED
    BY <1>2, <1>4, <2>3
<1>10. ASSUME NEW p \in 1 .. Len(source'), source'[p] = "def"
       PROVE  \E k \in 1 .. Len(funcs') : Defs(p)' = k /\ Starts(p + 1, funcs[k].address)'
  <2>1. CASE p \in 1..m
    <3>1. Defs(p) \in 1 .. Len(funcs) /\ Starts(p + 1, funcs[Defs(p)].address)
      BY <1>0, <1>8, <1>10, <2>1 DEF DefsInv
    <3>2. PICK k : k = Defs(p)
      OBVIOUS
    <3>3. PICK a : a = funcs[k].address
      OBVIOUS
    <3>4. PICK q : q = p + 1
      OBVIOUS
    <3>5. Starts(q, a)'
      <4>1. q \in 1 .. Len(source) + 1 /\ Starts(q, a)
        BY <1>8, <2>1, <3>1, <3>2, <3>3, <3>4
      <4>. QED
        BY <4>1, StartsKeep
    <3>6. k \in 1 .. Len(funcs') /\ funcs'[k].address = a
      <4>1. k \in 1 .. Len(funcs)
        BY <3>1, <3>2
      <4>. QED
        BY <1>4, <1>5, <3>3, <4>1
    <3>7. Starts(p + 1, funcs[k].address)'
      BY <3>4, <3>5, <3>6
    <3>. QED
      BY <1>8, <2>1, <3>2, <3>6, <3>7
  <2>2. CASE p \notin 1..m
    <3>1. p = m + n + 1 /\ kind = "def"
      BY <1>9, <1>10, <2>2
    <3>2. PICK k : k = Len(funcs')
      OBVIOUS
    <3>3. PICK a : a = Len(code')
      OBVIOUS
    <3>4. PICK q : q = Len(source') + 1
      OBVIOUS
    <3>5. Starts(q, a)'
      BY <3>3, <3>4, StartsNext
    <3>6. k \in 1 .. Len(funcs') /\ funcs'[k].address = a /\ q = p + 1
      <4>1. Len(funcs') = Len(funcs) + 1 /\ funcs'[Len(funcs')].address = Len(code')
        BY <3>1
      <4>2. q = p + 1
        BY <1>2, <3>1, <3>4
      <4>3. k \in 1 .. Len(funcs')
        <5>1. Len(funcs') = Len(funcs) + 1
          BY <3>1
        <5>2. Len(funcs) \in Nat
          BY <1>5
        <5>. QED
          BY <3>2, <5>1, <5>2
      <4>. QED
        BY <3>2, <3>3, <4>1, <4>2, <4>3
    <3>7. Starts(p + 1, funcs[k].address)'
      BY <3>5, <3>6
    <3>8. Defs(p)' = k
      BY <1>7, <3>1, <3>2
    <3>. QED
      BY <3>6, <3>7, <3>8
  <2>. QED
    BY <2>1, <2>2
<1>11. ASSUME NEW p \in 1 .. Len(source'), source'[p] = "enddef"
       PROVE  Defs(p)' \in 1 .. Len(funcs')
  <2>1. CASE p \in 1..m
    <3>1. Defs(p) \in 1 .. Len(funcs)
      BY <1>0, <1>8, <1>11, <2>1 DEF DefsInv
    <3>. QED
      BY <1>5, <1>8, <2>1, <3>1
  <2>2. CASE p \notin 1..m
    <3>1. p = m + n + 1 /\ kind = "enddef"
      BY <1>9, <1>11, <2>2
    <3>2. Len(funcs) > 0
      BY <3>1
    <3>. QED
      BY <1>5, <1>7, <3>1, <3>2
  <2>. QED
    BY <2>1, <2>2
<1>12. Defs(Len(source))' = Len(funcs')
  BY <1>2, <1>7
<1>13. ASSUME NEW p \in DOMAIN source', source'[p] = "def"
       PROVE  Defs(p)' \in 1 .. Len(funcs') /\ Starts(p + 1, funcs[Defs(p)].address)'
  <2>1. PICK k \in 1 .. Len(funcs') : Defs(p)' = k /\ Starts(p + 1, funcs[k].address)'
    BY <1>5, <1>10, <1>13
  <2>. QED
    BY <2>1
<1>. QED
  BY <1>5, <1>11, <1>12, <1>13 DEF DefsInv

LEMMA MainKeep ==
  ASSUME Around, NEW n, NEW kind, Added(n, kind), kind # "main", funcs' = funcs,
         phase # "functions", NEW m, IsMain(m)
  PROVE  IsMain(m)'
<1>1. /\ Sizes /\ Sizes'
      /\ \A t \in 1 .. Len(source') : t \in 1 .. Len(source) \/ t = Here \/ t = Here + n
      /\ \A t \in 1 .. Len(source) : t \in 1 .. Len(source') /\ source'[t] = source[t]
  BY AddedShape
<1>2. /\ n = 1 => source'[Here] \in {"assign", "update", "loop"}
      /\ source'[Here + n] = kind /\ (n = 0 \/ n = 1)
  BY DEF Added, ReadsParts, AddsCode, AddsEntries
<1>3. m \in 1 .. Len(source) /\ m \in 0 .. Len(source) /\ m \in 1 .. Len(source) + 1
      /\ source[m] = "main" /\ Starts(m, Entry(0)) /\ Defs(m) = Len(funcs)
      /\ \A k \in 1 .. Len(source) : source[k] = "main" => k = m
  <2>1. m \in DOMAIN source /\ source[m] = "main" /\ Starts(m, Entry(0)) /\ Defs(m) = Len(funcs)
        /\ \A k \in DOMAIN source : source[k] = "main" => k = m
    BY DEF IsMain
  <2>2. DOMAIN source = 1 .. Len(source) /\ Len(source) \in Nat
    BY <1>1 DEF Sizes
  <2>3. m \in 1 .. Len(source) /\ m \in 0 .. Len(source) /\ m \in 1 .. Len(source) + 1
    BY <2>1, <2>2
  <2>. QED
    BY <2>1, <2>2, <2>3
<1>4. Entry(0)' = Entry(0)
  <2>1. 0 \in 0 .. Len(funcs) /\ 0 \in Made /\ NamesInv
    BY <1>1 DEF Made, Sizes, Around, NamesAll
  <2>2. Begin(0) \in DOMAIN tables[0]
    <3>1. Begin(0) \in 1 .. Len(tables[0])
      BY <2>1, Begins DEF Around
    <3>. QED
      BY <2>1, <3>1, Shapes DEF Around
  <2>3. tables'[0][Begin(0)] = tables[0][Begin(0)] /\ Begin(0)' = Begin(0)
    BY <2>1, <2>2 DEF Added, ReadsParts, AddsCode, AddsEntries, Begin
  <2>. QED
    BY <2>3 DEF Entry
<1>5. PICK a : a = Entry(0)
  OBVIOUS
<1>6. Starts(m, a)'
  BY <1>3, <1>5, StartsKeep
<1>7. Defs(m)' = Len(funcs')
  BY <1>3, LevelKeep
<1>8. ASSUME NEW k \in 1 .. Len(source'), source'[k] = "main" PROVE k = m
  <2>1. k \in 1 .. Len(source)
    <3>1. k # Here + n /\ ~(k = Here /\ n = 1)
      BY <1>2, <1>8
    <3>2. n = 0 => Here + n = Here
      BY <1>1 DEF Here, Sizes
    <3>. QED
      BY <1>1, <1>2, <3>1, <3>2
  <2>. QED
    BY <1>1, <1>3, <1>8, <2>1
<1>9. Starts(m, Entry(0))'
  BY <1>4, <1>5, <1>6
<1>10. m \in DOMAIN source' /\ source'[m] = "main"
  BY <1>1, <1>3 DEF Sizes
<1>. QED
  BY <1>1, <1>7, <1>8, <1>9, <1>10 DEF IsMain, Sizes

LEMMA MainStep ==
  ASSUME Around, NEW n, NEW kind, Added(n, kind), kind # "main",
         phase # "functions" => funcs' = funcs,
         phase' = "functions" <=> phase = "functions"
  PROVE  MainInv'
<1>0. MainInv
  BY DEF Around, FollowInv
<1>1. CASE phase = "functions"
  <2>1. /\ Sizes /\ Sizes'
        /\ \A t \in 1 .. Len(source') : t \in 1 .. Len(source) \/ t = Here \/ t = Here + n
        /\ \A t \in 1 .. Len(source) : t \in 1 .. Len(source') /\ source'[t] = source[t]
    BY AddedShape
  <2>2. /\ n = 1 => source'[Here] \in {"assign", "update", "loop"}
        /\ source'[Here + n] = kind /\ (n = 0 \/ n = 1)
    BY DEF Added, ReadsParts, AddsCode, AddsEntries
  <2>3. ASSUME NEW k \in 1 .. Len(source') PROVE source'[k] # "main"
    <3>1. CASE k \in 1 .. Len(source)
      <4>1. source[k] # "main"
        BY <1>0, <1>1, <2>1, <3>1 DEF MainInv, Sizes
      <4>. QED
        BY <2>1, <3>1, <4>1
    <3>2. CASE k = Here /\ n = 1
      BY <2>2, <3>2
    <3>3. CASE k = Here + n
      BY <2>2, <3>3
    <3>4. n = 0 => Here + n = Here
      BY <2>1 DEF Here, Sizes
    <3>. QED
      BY <2>1, <2>2, <3>1, <3>2, <3>3, <3>4
  <2>. QED
    BY <1>1, <2>1, <2>3 DEF MainInv, Sizes
<1>2. CASE phase # "functions"
  <2>1. PICK m : IsMain(m)
    BY <1>0, <1>2 DEF MainInv
  <2>2. IsMain(m)'
    BY <1>2, <2>1, MainKeep
  <2>. QED
    BY <1>2, <2>2 DEF MainInv
<1>. QED
  BY <1>1, <1>2

\* A branch that has its label.
LEMMA SettledKeep ==
  ASSUME Around, NEW n, NEW kind, Added(n, kind),
         phase # "functions" => kind # "main" /\ funcs' = funcs, NEW i \in DOMAIN code,
         code'[i].label = code[i].label, Settled(i)
  PROVE  Settled(i)'
<1>. DEFINE t == code[i].src
<1>1. t \in 1 .. Len(source) /\ code'[i].src = t /\ source'[t] = source[t]
      /\ DOMAIN source = 1 .. Len(source) /\ Len(source) \in Nat
  BY AddedShape DEF Sizes
<1>2. \A u \in 1 .. Len(source) + 1 : Lands(i, u) => Lands(i, u)'
  BY LandsKeep
<1>p. PICK u : u = t
  OBVIOUS
<1>3. ASSUME LandsStart(i) PROVE LandsStart(i)'
  <2>1. PICK m : IsMain(m) /\ Lands(i, m)
    BY <1>3 DEF LandsStart
  <2>2. phase # "functions" /\ m \in 1 .. Len(source) + 1
    BY <1>1, <2>1 DEF IsMain, Around, FollowInv, MainInv
  <2>3. IsMain(m)'
    BY <2>1, <2>2, MainKeep
  <2>4. Lands(i, m)'
    BY <1>2, <2>1, <2>2
  <2>. QED
    BY <2>3, <2>4 DEF LandsStart
<1>4. ASSUME LandsIf(i) PROVE LandsIf(i)'
  <2>1. PICK e : Elses(t, e) /\ Lands(i, e + 1)
    BY <1>4 DEF LandsIf
  <2>2. Elses(u, e)'
    BY <1>p, <2>1, ElsesKeep
  <2>3. PICK f : f = e + 1
    OBVIOUS
  <2>4. f \in 1 .. Len(source) + 1
    BY <1>1, <2>1, <2>3 DEF Elses
  <2>5. Lands(i, f)'
    BY <1>2, <2>1, <2>3, <2>4
  <2>. QED
    BY <1>1, <1>p, <2>2, <2>3, <2>5 DEF LandsIf
<1>5. ASSUME LandsLoop(i) PROVE LandsLoop(i)'
  <2>1. PICK e : Ends(t, e) /\ source[e] = "endloop" /\ Lands(i, e + 1)
    BY <1>5 DEF LandsLoop
  <2>2. Ends(u, e)'
    BY <1>p, <2>1, EndsKeep
  <2>3. PICK f : f = e + 1
    OBVIOUS
  <2>4. f \in 1 .. Len(source) + 1 /\ e \in 1 .. Len(source)
    BY <1>1, <2>1, <2>3 DEF Ends
  <2>5. Lands(i, f)' /\ source'[e] = "endloop"
    BY <1>2, <2>1, <2>3, <2>4, AddedShape
  <2>. QED
    BY <1>1, <1>p, <2>2, <2>3, <2>5 DEF LandsLoop
<1>6. ASSUME LandsElse(i) PROVE LandsElse(i)'
  <2>1. PICK o, e : Elses(o, t) /\ Ends(o, e) /\ source[e] = "endif" /\ Lands(i, e + 1)
    BY <1>6 DEF LandsElse
  <2>2. Elses(o, u)' /\ Ends(o, e)'
    BY <1>p, <2>1, ElsesKeep, EndsKeep
  <2>3. PICK f : f = e + 1
    OBVIOUS
  <2>4. f \in 1 .. Len(source) + 1 /\ e \in 1 .. Len(source)
    BY <1>1, <2>1, <2>3 DEF Ends
  <2>5. Lands(i, f)' /\ source'[e] = "endif"
    BY <1>2, <2>1, <2>3, <2>4, AddedShape
  <2>. QED
    BY <1>1, <1>p, <2>2, <2>3, <2>5 DEF LandsElse
<1>7. ASSUME LandsBack(i) PROVE LandsBack(i)'
  <2>1. PICK o : Ends(o, t) /\ source[o] \in {"while", "for"} /\ Lands(i, o)
    BY <1>7 DEF LandsBack
  <2>2. Ends(o, u)'
    BY <1>p, <2>1, EndsKeep
  <2>3. o \in 1 .. Len(source) /\ o \in 1 .. Len(source) + 1
    BY <1>1, <2>1 DEF Ends
  <2>4. Lands(i, o)' /\ source'[o] \in {"while", "for"}
    BY <1>2, <2>1, <2>3, AddedShape
  <2>. QED
    BY <1>1, <1>p, <2>2, <2>4 DEF LandsBack
<1>8. ASSUME LandsCall(i) PROVE LandsCall(i)'
  <2>1. /\ code'[i].state = code[i].state /\ code[i].state \in 0 .. Len(funcs)
        /\ code[i].label + 1 \in DOMAIN tables[code[i].state]
    BY <1>8, AddedShape DEF Added, ReadsParts, AddsCode, AddsEntries, LandsCall, Aimed, Sizes
  <2>2. /\ code[i].label + 1 \in DOMAIN tables'[code[i].state]
        /\ tables'[code[i].state][code[i].label + 1] = tables[code[i].state][code[i].label + 1]
    BY <2>1 DEF Added, ReadsParts, AddsCode, AddsEntries
  <2>. QED
    BY <1>8, <2>1, <2>2 DEF LandsCall, Aimed, NameOfLabel
<1>. QED
  BY <1>1, <1>3, <1>4, <1>5, <1>6, <1>7, <1>8 DEF Settled

\* Of the branches there were, one may get its label.
LEMMA BranchStep ==
  ASSUME Around, NEW n, NEW kind, Added(n, kind), NEW b,
         phase # "functions" => kind # "main" /\ funcs' = funcs,
         phase = "functions" => phase' = "functions" \/ b = 1,
         \A i \in DOMAIN code : i = b \/ code'[i].label = code[i].label,
         \A j \in DOMAIN open : \/ open[j].branch \in {0, b}
                                \/ \E k \in DOMAIN open' : open'[k].branch = open[j].branch,
         b \in DOMAIN code => Settled(b)',
         \A i \in Len(code) + 1 .. Len(code') :
           i \notin Branches' \/ Settled(i)' \/ \E k \in DOMAIN open' : open'[k].branch = i
  PROVE  BranchInv'
<1>0. BranchInv
  BY DEF Around, FollowInv
<1>1. /\ Sizes /\ Sizes' /\ 0 \notin 1 .. Len(code)
      /\ \A t \in 1 .. Len(source) : t \in 1 .. Len(source') /\ source'[t] = source[t]
      /\ \A i \in 1 .. Len(code) : i \in 1 .. Len(code') /\ code'[i].src = code[i].src
  BY AddedShape
<1>. SUFFICES ASSUME NEW i \in Branches'
              PROVE  \/ i = 1 /\ phase' = "functions" /\ source'[code'[1].src] = "start"
                     \/ \E j \in DOMAIN open' : open'[j].branch = i
                     \/ Settled(i)'
  BY DEF BranchInv
<1>2. i \in 1 .. Len(code')
  BY <1>1 DEF Branches, Sizes
<1>3. CASE i \notin 1 .. Len(code)
  <2>1. i \in Len(code) + 1 .. Len(code')
    BY <1>1, <1>2, <1>3 DEF Sizes
  <2>. QED
    BY <2>1
<1>4. CASE i \in 1 .. Len(code) /\ i = b
  BY <1>1, <1>4 DEF Sizes
<1>5. CASE i \in 1 .. Len(code) /\ i # b
  <2>1. i \in DOMAIN code /\ code[i].src \in 1 .. Len(source)
        /\ code'[i].src = code[i].src /\ code'[i].label = code[i].label
        /\ source'[code[i].src] = source[code[i].src]
    BY <1>1, <1>5 DEF Sizes
  <2>2. i \in Branches
    BY <2>1 DEF Branches, Added, ReadsParts, AddsCode, AddsEntries
  <2>3. CASE i = 1 /\ phase = "functions" /\ source[code[1].src] = "start"
    BY <2>1, <2>3
  <2>4. CASE \E j \in DOMAIN open : open[j].branch = i
    <3>1. PICK j \in DOMAIN open : open[j].branch = i
      BY <2>4
    <3>2. open[j].branch \notin {0, b}
      BY <1>1, <1>5, <3>1
    <3>. QED
      BY <3>1, <3>2
  <2>5. CASE Settled(i)
    BY <2>1, <2>5, SettledKeep
  <2>. QED
    BY <1>0, <2>2, <2>3, <2>4, <2>5 DEF BranchInv
<1>. QED
  BY <1>2, <1>3, <1>4, <1>5

\* Where the blocks that are open begin.
LEMMA AtIn ==
  ASSUME Around, NEW j \in DOMAIN open, open[j].kind # "def"
  PROVE  /\ open[j].branch \in 1 .. Len(code) /\ open[j].branch \in DOMAIN code
         /\ At(j) \in 1 .. Len(source)
<1>1. open[j].branch \in DOMAIN code
  BY OpenIn DEF Around, NamesAll
<1>. QED
  BY <1>1, SizesNow DEF At, Sizes, Around

LEMMA IfsStep ==
  ASSUME Around, NEW n, NEW kind, Added(n, kind),
         \A j \in DOMAIN open : open[j].kind = "if" =>
           \/ \E k \in DOMAIN open' : open'[k].kind = "if" /\ open'[k].branch = open[j].branch
           \/ \E t, e : t = At(j) /\ Elses(t, e)',
         kind = "if" => \E k \in DOMAIN open' : open'[k].kind = "if" /\ At(k)' = Here + n
  PROVE  IfsInv'
<1>0. IfsInv
  BY DEF Around, FollowInv
<1>1. /\ Sizes /\ Sizes'
      /\ \A t \in 1 .. Len(source') : t \in 1 .. Len(source) \/ t = Here \/ t = Here + n
      /\ \A t \in 1 .. Len(source) : t \in 1 .. Len(source') /\ source'[t] = source[t]
      /\ \A i \in 1 .. Len(code) : i \in 1 .. Len(code') /\ code'[i].src = code[i].src
  BY AddedShape
<1>2. /\ n = 1 => source'[Here] \in {"assign", "update", "loop"}
      /\ source'[Here + n] = kind /\ (n = 0 \/ n = 1)
  BY DEF Added, ReadsParts, AddsCode, AddsEntries
<1>. SUFFICES ASSUME NEW t \in 1 .. Len(source'), source'[t] = "if"
              PROVE  (\E e : Elses(t, e)') \/ (\E j \in DOMAIN open' : open'[j].kind = "if" /\ At(j)' = t)
  BY <1>1 DEF IfsInv, Sizes
<1>3. CASE t \in 1 .. Len(source)
  <2>1. t \in DOMAIN source /\ source[t] = "if"
    BY <1>1, <1>3 DEF Sizes
  <2>2. CASE \E e : Elses(t, e)
    <3>1. PICK e : Elses(t, e)
      BY <2>2
    <3>2. Elses(t, e)'
      BY <3>1, ElsesKeep
    <3>. QED
      BY <3>2
  <2>3. CASE \E j \in DOMAIN open : open[j].kind = "if" /\ At(j) = t
    <3>1. PICK j \in DOMAIN open : open[j].kind = "if" /\ At(j) = t
      BY <2>3
    <3>2. open[j].branch \in 1 .. Len(code)
      BY <3>1, AtIn
    <3>3. code'[open[j].branch].src = t
      BY <1>1, <3>1, <3>2 DEF At
    <3>4. CASE \E k \in DOMAIN open' : open'[k].kind = "if" /\ open'[k].branch = open[j].branch
      BY <3>3, <3>4 DEF At
    <3>5. CASE \E u, e : u = At(j) /\ Elses(u, e)'
      BY <3>1, <3>5
    <3>. QED
      BY <3>1, <3>4, <3>5
  <2>. QED
    BY <1>0, <2>1, <2>2, <2>3 DEF IfsInv
<1>4. CASE t \notin 1 .. Len(source)
  <2>1. ~(t = Here /\ n = 1)
    BY <1>2
  <2>2. t = Here + n
    <3>1. n = 0 => Here + n = Here
      BY <1>1 DEF Here, Sizes
    <3>. QED
      BY <1>1, <1>2, <1>4, <2>1, <3>1
  <2>. QED
    BY <1>2, <2>2
<1>. QED
  BY <1>3, <1>4

\* A block that stays open.
LEMMA OpenedKeep ==
  ASSUME Around, NEW n, NEW kind, Added(n, kind), LevelInv',
         NEW j \in Nat, j <= Len(open), j <= Len(open'), NEW o, Opened(o, j)
  PROVE  Opened(o, j)'
<1>0. LevelInv
  BY DEF Around, FollowInv
<1>1. Sizes /\ Sizes' /\ \A t \in 1 .. Len(source) : t \in 1 .. Len(source') /\ source'[t] = source[t]
  BY AddedShape
<1>2. PICK m : m = Len(source)
  OBVIOUS
<1>3. /\ m \in Nat /\ n \in Nat /\ Len(source') = m + n + 1
      /\ Level(m) \in Int /\ Level(m)' = Level(m) /\ Level(m + n)' = Level(m)
  BY <1>2, LevelAdded
<1>4. Level(m) = Len(open) /\ Level(m + n + 1)' = Len(open')
  <2>1. Level(m) = Len(open)
    BY <1>0, <1>2 DEF LevelInv
  <2>2. PICK l : l = m + n + 1
    OBVIOUS
  <2>3. l = Len(source')
    BY <1>3, <2>2
  <2>4. Level(l)' = Len(open')
    BY <2>3 DEF LevelInv
  <2>. QED
    BY <2>1, <2>2, <2>4
<1>5. n = 0 \/ n = 1
  BY DEF Added, ReadsParts
<1>6. Len(open) \in Nat /\ Len(open') \in Nat
  BY <1>1 DEF Sizes
\* The parts that are new are within it.
<1>7. ASSUME NEW k \in 1 .. Len(source'), k \notin 1..m PROVE Level(k)' >= j
  <2>1. CASE k = m + n + 1
    BY <1>4, <1>6, <2>1
  <2>2. CASE k = m + n
    BY <1>3, <1>4, <1>6, <2>2
  <2>3. k = m + n + 1 \/ k = m + n
    BY <1>3, <1>5, <1>7
  <2>. QED
    BY <2>1, <2>2, <2>3
<1>8. o \in 1..m /\ source[o] \in Opener /\ Level(o - 1) = j - 1 /\ \A k \in o..m : Level(k) >= j
  BY <1>1, <1>2 DEF Opened, Sizes
<1>9. o - 1 \in 0 .. Len(source) /\ m \in Nat /\ o \in 1 .. Len(source)
  BY <1>2, <1>3, <1>8
<1>10. Level(o - 1)' = j - 1
  BY <1>8, <1>9, LevelKeep
<1>11. ASSUME NEW k \in o .. Len(source') PROVE Level(k)' >= j
  <2>1. CASE k \in 1..m
    <3>1. k \in 0 .. Len(source) /\ k \in o..m
      BY <1>2, <1>8, <2>1
    <3>2. Level(k)' = Level(k)
      BY <3>1, LevelKeep
    <3>. QED
      BY <1>8, <3>1, <3>2
  <2>2. CASE k \notin 1..m
    <3>1. k \in 1 .. Len(source')
      BY <1>3, <1>8
    <3>. QED
      BY <1>7, <2>2, <3>1
  <2>. QED
    BY <2>1, <2>2
<1>12. o \in DOMAIN source' /\ source'[o] \in Opener
  BY <1>1, <1>8, <1>9 DEF Sizes
<1>. QED
  BY <1>10, <1>11, <1>12 DEF Opened

LEMMA OpenKeep ==
  ASSUME Around, NEW n, NEW kind, Added(n, kind), LevelInv',
         NEW j \in DOMAIN open, j \in DOMAIN open', open'[j] = open[j],
         kind = "else" => j # Len(open')
  PROVE  /\ open[j].kind = "if" => OpenIf(j)'
         /\ open[j].kind \in {"while", "for"} => OpenLoop(j)'
         /\ open[j].kind = "else" => OpenElse(j)'
<1>0. OpenInv
  BY DEF Around, FollowInv
<1>1. /\ Sizes /\ Sizes'
      /\ \A t \in 1 .. Len(source') : t \in 1 .. Len(source) \/ t = Here \/ t = Here + n
      /\ \A t \in 1 .. Len(source) : t \in 1 .. Len(source') /\ source'[t] = source[t]
      /\ \A i \in 1 .. Len(code) : i \in 1 .. Len(code') /\ code'[i].src = code[i].src
  BY AddedShape
<1>2. PICK m : m = Len(source)
  OBVIOUS
<1>3. m \in Nat /\ n \in Nat /\ Len(source') = m + n + 1 /\ Here = m + 1
  BY <1>2, LevelAdded
<1>4. Level(m + n + 1)' = Len(open')
  <2>1. PICK l : l = m + n + 1
    OBVIOUS
  <2>2. l = Len(source')
    BY <1>3, <2>1
  <2>3. Level(l)' = Len(open')
    BY <2>2 DEF LevelInv
  <2>. QED
    BY <2>1, <2>3
<1>5. n = 0 \/ n = 1
  BY DEF Added, ReadsParts
<1>6. j \in Nat /\ j <= Len(open) /\ j <= Len(open')
  BY <1>1 DEF Sizes
<1>8. ASSUME NEW o, Opened(o, j) PROVE Opened(o, j)'
  BY <1>6, <1>8, OpenedKeep
<1>9. ASSUME open[j].kind # "def"
      PROVE  At(j)' = At(j) /\ At(j) \in 1 .. Len(source)
  <2>1. open[j].branch \in 1 .. Len(code) /\ At(j) \in 1 .. Len(source)
    BY <1>9, AtIn
  <2>. QED
    BY <1>1, <2>1 DEF At
<1>10. PICK p : p = At(j)
  OBVIOUS
<1>11. CASE open[j].kind = "if"
  <2>1. Opened(p, j) /\ source[p] = "if" /\ p \in 1..m /\ At(j)' = p
        /\ \A k \in p + 1 .. m : source[k] = "else" => Level(k) # j
    BY <1>0, <1>2, <1>9, <1>10, <1>11 DEF OpenInv, OpenIf
  <2>2. Opened(p, j)' /\ source'[p] = "if"
    BY <1>1, <1>2, <1>8, <2>1
  <2>3. ASSUME NEW k \in p + 1 .. Len(source'), source'[k] = "else" PROVE Level(k)' # j
    <3>1. CASE k \in 1..m
      <4>1. k \in 0 .. Len(source) /\ k \in p + 1 .. m /\ k \in 1 .. Len(source)
        BY <1>2, <2>1, <3>1
      <4>2. Level(k)' = Level(k) /\ source'[k] = source[k]
        BY <1>1, <4>1, LevelKeep
      <4>. QED
        BY <2>1, <2>3, <4>1, <4>2
    <3>2. CASE k \notin 1..m
      <4>1. k \in 1 .. Len(source')
        BY <1>3, <2>1
      <4>2. ~(k = Here /\ n = 1)
        BY <2>3 DEF Added, ReadsParts, AddsCode, AddsEntries
      <4>3. k = m + n + 1
        BY <1>3, <1>5, <3>2, <4>1, <4>2
      <4>4. kind = "else"
        <5>1. k = Here + n
          BY <1>3, <4>3
        <5>. QED
          BY <2>3, <5>1 DEF Added, ReadsParts, AddsCode, AddsEntries
      <4>. QED
        BY <1>4, <4>3, <4>4
    <3>. QED
      BY <3>1, <3>2
  <2>. QED
    BY <1>11, <2>1, <2>2, <2>3 DEF OpenIf
<1>12. CASE open[j].kind \in {"while", "for"}
  <2>1. Opened(p, j) /\ source[p] \in {"while", "for"} /\ p \in 1 .. Len(source) /\ At(j)' = p
        /\ Starts(p, open[j].ret)
    BY <1>0, <1>9, <1>10, <1>12 DEF OpenInv, OpenLoop
  <2>2. Opened(p, j)' /\ source'[p] \in {"while", "for"}
    BY <1>1, <1>8, <2>1
  <2>3. PICK a : a = open[j].ret
    OBVIOUS
  <2>4. Starts(p, a)'
    <3>1. p \in 1 .. Len(source) + 1
      BY <1>2, <1>3, <2>1
    <3>. QED
      BY <2>1, <2>3, <3>1, StartsKeep
  <2>5. open'[j].ret = a
    BY <2>3
  <2>6. OpenLoop(j)'
    BY <2>1, <2>2, <2>4, <2>5 DEF OpenLoop
  <2>. QED
    BY <1>12, <2>6
<1>13. CASE open[j].kind = "else"
  <2>1. PICK o : Opened(o, j) /\ Elses(o, p)
    BY <1>0, <1>10, <1>13 DEF OpenInv, OpenElse
  <2>2. Opened(o, j)' /\ Elses(o, p)' /\ At(j)' = p
    BY <1>8, <1>9, <1>10, <1>13, <2>1, ElsesKeep
  <2>3. OpenElse(j)'
    BY <2>2 DEF OpenElse
  <2>. QED
    BY <1>13, <2>3
<1>. QED
  BY <1>11, <1>12, <1>13

LEMMA OpenStep ==
  ASSUME Around, NEW n, NEW kind, Added(n, kind), LevelInv',
         \A j \in DOMAIN open' :
           \/ j \in DOMAIN open /\ open'[j] = open[j] /\ (kind = "else" => j # Len(open'))
           \/ open'[j].kind = "def"
           \/ open'[j].kind = "if" /\ OpenIf(j)'
           \/ open'[j].kind \in {"while", "for"} /\ OpenLoop(j)'
           \/ open'[j].kind = "else" /\ OpenElse(j)'
  PROVE  OpenInv'
<1>1. ASSUME NEW j \in DOMAIN open'
      PROVE  /\ open'[j].kind = "if" => OpenIf(j)'
             /\ open'[j].kind \in {"while", "for"} => OpenLoop(j)'
             /\ open'[j].kind = "else" => OpenElse(j)'
  <2>1. CASE j \in DOMAIN open /\ open'[j] = open[j] /\ (kind = "else" => j # Len(open'))
    BY <2>1, OpenKeep
  <2>2. CASE ~(j \in DOMAIN open /\ open'[j] = open[j] /\ (kind = "else" => j # Len(open')))
    BY <2>2
  <2>. QED
    BY <2>1, <2>2
<1>. QED
  BY <1>1 DEF OpenInv

-----------------------------------------------------------------------------
(* What the steps read and add. *)

LEMMA PartsRead ==
  ASSUME Types, NEW parts \in Seq(Kinds), NEW n \in {0, 1}, n = Len(parts),
         n = 1 => parts[1] \in {"assign", "update", "loop"},
         NEW kind \in Kinds, source' = Append(source \o parts, kind)
  PROVE  ReadsParts(n, kind)
<1>1. source \in Seq(Kinds) /\ source \o parts \in Seq(Kinds) /\ Len(source) \in Nat
      /\ Len(source \o parts) = Len(source) + n /\ n \in Nat
  BY DEF Types
<1>2. source' \in Seq(Kinds) /\ Len(source') = Len(source) + n + 1
      /\ source'[Len(source) + n + 1] = kind
  BY <1>1
<1>3. ASSUME NEW t \in DOMAIN source PROVE source'[t] = source[t]
  <2>1. t \in 1 .. Len(source)
    BY <1>1
  <2>2. (source \o parts)[t] = source[t]
    BY <1>1, <2>1
  <2>. QED
    BY <1>1, <1>2, <2>1, <2>2
<1>4. ASSUME n = 1 PROVE source'[Here] \in {"assign", "update", "loop"}
  <2>1. (source \o parts)[Len(source) + 1] = parts[1]
    BY <1>1, <1>4
  <2>2. source'[Len(source) + 1] = parts[1]
    BY <1>1, <1>4, <2>1
  <2>. QED
    BY <1>4, <2>2 DEF Here
<1>5. source'[Here + n] = kind
  <2>1. Here + n = Len(source) + n + 1
    BY <1>1 DEF Here
  <2>. QED
    BY <1>2, <2>1
<1>. QED
  BY <1>2, <1>3, <1>4, <1>5 DEF ReadsParts

LEMMA PartRead ==
  ASSUME Types, NEW kind \in Kinds, source' = Append(source, kind)
  PROVE  ReadsParts(0, kind)
<1>1. source \in Seq(Kinds) /\ Len(source) \in Nat
  BY DEF Types
<1>2. /\ Len(source') = Len(source) + 1 /\ source'[Len(source) + 1] = kind
      /\ \A t \in DOMAIN source : source'[t] = source[t]
  BY <1>1
<1>3. Here + 0 = Len(source) + 1 /\ Len(source) + 0 + 1 = Len(source) + 1
  BY <1>1 DEF Here
<1>. QED
  BY <1>2, <1>3 DEF ReadsParts

\* The code of a step is one instruction for a part before, and that of the last.
LEMMA CodeAdded ==
  ASSUME IInv, Types, NEW n \in {0, 1}, NEW kind, NEW c, NEW d,
         Extends(code, c), Len(c) = Len(code) + n,
         \A i \in Len(code) + 1 .. Len(c) : c[i].src = Here,
         Extends(c, d), \A i \in Len(c) + 1 .. Len(d) : d[i].src = Here + n,
         kind \in Bare <=> Len(d) = Len(c),
         Len(code') = Len(d),
         \A i \in DOMAIN d : code'[i].src = d[i].src /\ code'[i].op = d[i].op
                             /\ code'[i].state = d[i].state
  PROVE  AddsCode(n, kind)
<1>1. /\ Len(code) \in Nat /\ DOMAIN code = 1 .. Len(code) /\ n \in Nat
      /\ Len(c) \in Nat /\ DOMAIN c = 1 .. Len(c) /\ Len(d) \in Nat /\ DOMAIN d = 1 .. Len(d)
      /\ Len(c) <= Len(d)
  BY Shapes DEF Extends, IsSeq
<1>2. ASSUME NEW i \in DOMAIN code PROVE i \in DOMAIN d /\ d[i] = code[i]
  BY <1>2 DEF Extends
<1>3. ASSUME NEW i \in Len(code) + 1 .. Len(code) + n PROVE code'[i].src = Here
  <2>1. i \in DOMAIN c /\ i \in Len(code) + 1 .. Len(c)
    BY <1>1
  <2>2. i \in DOMAIN d /\ d[i] = c[i]
    BY <2>1 DEF Extends
  <2>. QED
    BY <2>1, <2>2
<1>4. ASSUME NEW i \in Len(code) + n + 1 .. Len(code') PROVE code'[i].src = Here + n
  <2>1. i \in DOMAIN d /\ i \in Len(c) + 1 .. Len(d)
    BY <1>1
  <2>. QED
    BY <2>1
<1>5. \A i \in DOMAIN code : code'[i].src = code[i].src /\ code'[i].op = code[i].op
                             /\ code'[i].state = code[i].state
  BY <1>2
<1>6. Len(code') >= Len(code) + n /\ (kind \in Bare <=> Len(code') = Len(code) + n)
  BY <1>1
<1>. QED
  BY <1>3, <1>4, <1>5, <1>6 DEF AddsCode

\* No part before, and one instruction or none.
LEMMA InstrAdded ==
  ASSUME IInv, Types, NEW kind, kind \notin Bare, NEW op, NEW label,
         code' = Append(code, Instr(op, label, Here))
  PROVE  /\ AddsCode(0, kind) /\ Extends(code, code') /\ Len(code') = Len(code) + 1
         /\ code'[Len(code) + 1].op = op /\ code'[Len(code) + 1].label = label
         /\ code'[Len(code) + 1].state = current /\ code'[Len(code) + 1].src = Here
<1>1. IsSeq(code) /\ Len(code) \in Nat
  BY Shapes DEF IInv, CodeInv
<1>2. /\ IsSeq(code') /\ Extends(code, code') /\ Len(code') = Len(code) + 1
      /\ code'[Len(code) + 1].op = op /\ code'[Len(code) + 1].label = label
      /\ code'[Len(code) + 1].state = current /\ code'[Len(code) + 1].src = Here
  BY <1>1, AddInstr
<1>3. Extends(code, code) /\ Len(code) = Len(code) + 0 /\ Here + 0 = Here
  BY <1>1, Shapes DEF Extends, Here
<1>4. \A i \in Len(code) + 1 .. Len(code) : code[i].src = Here
  BY <1>1
<1>5. \A i \in Len(code) + 1 .. Len(code') : code'[i].src = Here + 0
  <2>1. \A i \in Len(code) + 1 .. Len(code') : i = Len(code) + 1
    BY <1>1, <1>2
  <2>. QED
    BY <1>2, <1>3, <2>1
<1>6. kind \in Bare <=> Len(code') = Len(code)
  BY <1>1, <1>2
<1>7. AddsCode(0, kind)
  <2>. DEFINE d == code'
  <2>1. Extends(code, d) /\ (\A i \in Len(code) + 1 .. Len(d) : d[i].src = Here + 0)
        /\ (kind \in Bare <=> Len(d) = Len(code)) /\ code' = d
    BY <1>2, <1>5, <1>6
  <2>. HIDE DEF d
  <2>. QED
    BY <1>3, <1>4, <2>1, CodeAdded
<1>. QED
  BY <1>2, <1>7

LEMMA NothingAdded ==
  ASSUME IInv, Types, NEW kind \in Bare, Len(code') = Len(code),
         \A i \in DOMAIN code : code'[i].src = code[i].src /\ code'[i].op = code[i].op
                                /\ code'[i].state = code[i].state
  PROVE  AddsCode(0, kind)
<1>1. IsSeq(code) /\ Len(code) \in Nat
  BY Shapes DEF IInv, CodeInv
<1>2. Extends(code, code) /\ Len(code) = Len(code) + 0
  BY <1>1, Shapes DEF Extends
<1>3. \A i \in Len(code) + 1 .. Len(code) : code[i].src = Here /\ code[i].src = Here + 0
  BY <1>1
<1>. QED
  BY <1>2, <1>3, CodeAdded

LEMMA EntriesSame ==
  ASSUME UNCHANGED <<tables, funcs>>, Len(funcs) \in Nat
  PROVE  AddsEntries
  BY DEF AddsEntries

LEMMA EntriesGrow ==
  ASSUME IInv, Types, NEW t, tables' = [tables EXCEPT ![current] = t], funcs' = funcs,
         DOMAIN t = 1 .. Len(t), Len(t) \in Nat, Len(t) >= Len(table),
         \A k \in 1 .. Len(table) : t[k] = table[k]
  PROVE  AddsEntries /\ tables'[current] = t
<1>1. /\ tables = [s \in States |-> tables[s]] /\ current \in States /\ Len(funcs) \in Nat
      /\ 0 .. Len(funcs) \subseteq States
      /\ DOMAIN table = 1 .. Len(table) /\ Len(table) \in Nat
  BY Shapes DEF IInv, TablesInv, table
<1>2. tables'[current] = t /\ \A s \in States : s # current => tables'[s] = tables[s]
  BY <1>1
<1>3. ASSUME NEW s \in 0 .. Len(funcs), NEW k \in DOMAIN tables[s]
      PROVE  k \in DOMAIN tables'[s] /\ tables'[s][k] = tables[s][k]
  <2>1. CASE s = current
    <3>1. k \in 1 .. Len(table) /\ k \in 1 .. Len(t)
      BY <1>1, <2>1 DEF table
    <3>. QED
      BY <1>2, <2>1, <3>1 DEF table
  <2>2. CASE s # current
    BY <1>1, <1>2, <2>2
  <2>. QED
    BY <2>1, <2>2
<1>. QED
  BY <1>1, <1>2, <1>3 DEF AddsEntries

-----------------------------------------------------------------------------
(* What each action does. *)

\* The parts of the invariant that need to know no more of a step in a function
\* or in main than what it reads and how many blocks it leaves open.
LEMMA FollowGrow ==
  ASSUME Around, NEW n, NEW kind, Added(n, kind),
         kind \notin {"start", "main", "halt", "def", "enddef"},
         UNCHANGED <<funcs, phase>>, phase # "done",
         phase = "functions" => open # <<>> /\ open' # <<>>,
         kind \in Opener => Len(open') = Len(open) + 1,
         kind \in Closer => Len(open') = Len(open) - 1,
         kind \notin Opener \cup Closer => Len(open') = Len(open),
         \A j \in DOMAIN open' : open'[j].kind = "def" => j \in DOMAIN open /\ open[j].kind = "def"
  PROVE  LevelInv' /\ CodedInv' /\ OrderInv' /\ DefsInv' /\ MainInv'
<1>1. LevelInv'
  BY LevelStep
<1>2. CodedInv'
  BY CodedStep
<1>3. OrderInv'
  <2>1. Last(source) # "enddef"
    BY DEF Around, FollowInv, OrderInv
  <2>. QED
    BY <2>1, OrderStep
<1>4. DefsInv'
  <2>1. \A j \in DOMAIN open' : open'[j].kind = "def" => Len(funcs') > 0 /\ phase' = "functions"
    BY DEF Around, FollowInv, DefsInv
  <2>. QED
    BY <2>1, DefsStep
<1>5. MainInv'
  BY MainStep
<1>. QED
  BY <1>1, <1>2, <1>3, <1>4, <1>5

\* A statement: the blocks stay as they are.
LEMMA FollowCode ==
  ASSUME Around, Compiling, NEW n, NEW kind, Added(n, kind),
         kind \in {"assign", "loop", "return", "break", "continue"},
         UNCHANGED <<tables, funcs, current, open, phase>>,
         \A i \in DOMAIN code : code'[i].label = code[i].label,
         \A i \in Len(code) + 1 .. Len(code') : i \notin Branches' \/ Settled(i)'
  PROVE  FollowInv'
<1>1. kind \notin Opener \cup Closer /\ kind \notin {"start", "main", "halt", "def", "enddef", "if", "else"}
  BY DEF Opener, Closer
<1>2. phase # "done" /\ (phase = "functions" => open # <<>>)
  BY CompilingMade DEF Around, NamesAll, Compiling
<1>3. LevelInv' /\ CodedInv' /\ OrderInv' /\ DefsInv' /\ MainInv'
  BY <1>1, <1>2, FollowGrow
<1>4. OpenInv'
  BY <1>1, <1>3, OpenStep
<1>5. BranchInv'
  <2>1. PICK b : b = 0
    OBVIOUS
  <2>2. b \notin DOMAIN code
    BY <2>1, SizesNow DEF Sizes, Around
  <2>. QED
    BY <1>1, <2>2, BranchStep
<1>6. IfsInv'
  BY <1>1, IfsStep
<1>. QED
  BY <1>3, <1>4, <1>5, <1>6 DEF FollowInv

LEMMA PlainAdded ==
  ASSUME NEW c, IsSeq(c), NEW n \in Nat, NEW src
  PROVE  \A i \in Len(c) + 1 .. Len(c \o Plain(n, src)) :
           /\ (c \o Plain(n, src))[i].src = src /\ (c \o Plain(n, src))[i].op = "plain"
<1>. DEFINE p == Plain(n, src)
            d == c \o p
<1>1. IsSeq(p) /\ Len(p) = n /\ \A k \in 1..n : p[k].src = src /\ p[k].op = "plain"
  BY PlainSeq DEF Plain, Instr
<1>2. d = c \o p
  OBVIOUS
<1>. HIDE DEF p, d
<1>3. Len(d) = Len(c) + n /\ \A k \in 1..n : d[Len(c) + k] = p[k]
  BY <1>1, <1>2, ConcatExtends
<1>4. ASSUME NEW i \in Len(c) + 1 .. Len(d) PROVE d[i].src = src /\ d[i].op = "plain"
  <2>1. Len(c) \in Nat
    BY DEF IsSeq
  <2>2. i - Len(c) \in 1..n /\ Len(c) + (i - Len(c)) = i
    BY <1>3, <2>1
  <2>. QED
    BY <1>1, <1>3, <2>2
<1>. QED
  BY <1>4 DEF p, d

\* A branch to LOOP.
LEMMA CallFound ==
  ASSUME IInv, Types, \E i \in DOMAIN table : table[i].name = <<LOOP, 0>>,
         NEW label, label = FunAddress(table, <<LOOP, 0>>)
  PROVE  label + 1 \in DOMAIN tables[current] /\ tables[current][label + 1].name = <<LOOP, 0>>
<1>1. table \in Seq(TableEntries(line)) /\ table = tables[current] /\ Len(table) \in Nat
      /\ DOMAIN table = 1 .. Len(table)
  BY Shapes DEF table
<1>2. PICK i \in DOMAIN table : table[i].name = <<LOOP, 0>>
  OBVIOUS
<1>3. label \in 0 .. Len(table) - 1 /\ table[label + 1].name = <<LOOP, 0>>
  BY <1>1, <1>2, FunFound
<1>. QED
  BY <1>1, <1>3

LEMMA FollowAssign ==
  ASSUME Around, Assign
  PROVE  FollowInv'
<1>1. /\ Compiling /\ code' = code \o Plain(1, Here) /\ source' = Append(source, "assign")
      /\ UNCHANGED <<tables, funcs, current, open, phase>>
  BY DEF Assign
<1>2. IInv /\ Types /\ IsSeq(code) /\ Sizes /\ "assign" \in Kinds /\ "assign" \notin Bare
  BY SizesNow DEF Around, IInv, CodeInv, Kinds, Bare
<1>3. /\ IsSeq(code') /\ Extends(code, code') /\ Len(code') = Len(code) + 1
      /\ \A i \in Len(code) + 1 .. Len(code') : code'[i].src = Here /\ code'[i].op = "plain"
  BY <1>1, <1>2, AddPlain, PlainAdded
<1>4. AddsCode(0, "assign")
  <2>. DEFINE d == code'
  <2>1. d = code' /\ Extends(code, d) /\ \A i \in Len(code) + 1 .. Len(d) : d[i].src = Here
    BY <1>3
  <2>2. Len(code) \in Nat /\ Extends(code, code) /\ Here + 0 = Here /\ DOMAIN code = 1 .. Len(code)
    BY <1>2 DEF Extends, Sizes, Here
  <2>3. Len(code) = Len(code) + 0 /\ Len(d) # Len(code)
    <3>1. Len(code) \in Nat /\ Len(d) = Len(code) + 1
      BY <1>3, <2>2
    <3>. HIDE DEF d
    <3>. QED
      BY <3>1
  <2>4. \A i \in Len(code) + 1 .. Len(code) : code[i].src = Here
    BY <2>2
  <2>. HIDE DEF d
  <2>. QED
    BY <1>2, <2>1, <2>2, <2>3, <2>4, CodeAdded
<1>5. Added(0, "assign")
  BY <1>1, <1>2, <1>4, PartRead, EntriesSame DEF Added, Sizes
<1>6. \A i \in DOMAIN code : code'[i].label = code[i].label
  BY <1>3 DEF Extends
<1>7. \A i \in Len(code) + 1 .. Len(code') : i \notin Branches'
  BY <1>3 DEF Branches
<1>. QED
  BY <1>1, <1>5, <1>6, <1>7, FollowCode

LEMMA FollowReturnLoop ==
  ASSUME Around, ReturnLoop
  PROVE  FollowInv'
<1>. DEFINE label == FunAddress(table, <<LOOP, 0>>)
<1>1. /\ Compiling /\ \E i \in DOMAIN table : table[i].name = <<LOOP, 0>>
      /\ code' = Append(code, Instr("b", label, Here)) /\ source' = Append(source, "loop")
      /\ UNCHANGED <<tables, funcs, current, open, phase>>
  BY DEF ReturnLoop
<1>2. IInv /\ Types /\ Sizes /\ "loop" \in Kinds /\ "loop" \notin Bare
  BY SizesNow DEF Around, Kinds, Bare
<1>3. label + 1 \in DOMAIN tables[current] /\ tables[current][label + 1].name = <<LOOP, 0>>
  BY <1>1, <1>2, CallFound
<1>. HIDE DEF label
<1>4. /\ AddsCode(0, "loop") /\ Extends(code, code') /\ Len(code') = Len(code) + 1
      /\ code'[Len(code) + 1].label = label
      /\ code'[Len(code) + 1].state = current /\ code'[Len(code) + 1].src = Here
  BY <1>1, <1>2, InstrAdded
<1>5. ReadsParts(0, "loop")
  BY <1>1, <1>2, PartRead
<1>6. Added(0, "loop")
  BY <1>1, <1>2, <1>4, <1>5, EntriesSame DEF Added, Sizes
<1>7. \A i \in DOMAIN code : code'[i].label = code[i].label
  BY <1>4 DEF Extends
<1>8. ASSUME NEW i \in Len(code) + 1 .. Len(code') PROVE Settled(i)'
  <2>1. i = Len(code) + 1
    BY <1>2, <1>4 DEF Sizes
  <2>2. Here + 0 = Here
    BY <1>2 DEF Here, Sizes
  <2>3. source'[code'[i].src] = "loop"
    BY <1>4, <1>5, <2>1, <2>2 DEF ReadsParts
  <2>4. LandsCall(i)'
    BY <1>1, <1>3, <1>4, <2>1 DEF LandsCall, Aimed, NameOfLabel
  <2>. QED
    BY <2>3, <2>4 DEF Settled
<1>. QED
  BY <1>1, <1>6, <1>7, <1>8, FollowCode

LEMMA FollowFlow ==
  ASSUME Around, NEW kind \in {"break", "continue"}, Flow(kind)
  PROVE  FollowInv'
<1>1. /\ Compiling /\ code' = Append(code, Instr("b", 0, Here)) /\ source' = Append(source, kind)
      /\ UNCHANGED <<tables, funcs, current, open, phase>>
  BY DEF Flow
<1>2. IInv /\ Types /\ Sizes /\ kind \in Kinds /\ kind \notin Bare
  BY SizesNow DEF Around, Kinds, Bare
<1>3. /\ AddsCode(0, kind) /\ Extends(code, code') /\ Len(code') = Len(code) + 1
      /\ code'[Len(code) + 1].src = Here
  BY <1>1, <1>2, InstrAdded
<1>4. ReadsParts(0, kind)
  BY <1>1, <1>2, PartRead
<1>5. Added(0, kind)
  BY <1>1, <1>2, <1>3, <1>4, EntriesSame DEF Added, Sizes
<1>6. \A i \in DOMAIN code : code'[i].label = code[i].label
  BY <1>3 DEF Extends
<1>7. ASSUME NEW i \in Len(code) + 1 .. Len(code') PROVE i \notin Branches'
  <2>1. i = Len(code) + 1
    BY <1>2, <1>3 DEF Sizes
  <2>2. Here + 0 = Here
    BY <1>2 DEF Here, Sizes
  <2>3. source'[code'[i].src] = kind
    BY <1>3, <1>4, <2>1, <2>2 DEF ReadsParts
  <2>. QED
    BY <2>3 DEF Branches
<1>. QED
  BY <1>1, <1>5, <1>6, <1>7, FollowCode

LEMMA FollowReturn ==
  ASSUME Around, Return
  PROVE  FollowInv'
<1>. DEFINE c == code \o Plain(1, Here)
            e == Instr("br", 0, Here)
<1>1. /\ Compiling /\ code' = Append(c, e) /\ source' = Append(source, "return")
      /\ UNCHANGED <<tables, funcs, current, open, phase>>
  BY DEF Return
<1>2. IInv /\ Types /\ Sizes /\ IsSeq(code) /\ "return" \in Kinds /\ "return" \notin Bare
  BY SizesNow DEF Around, IInv, CodeInv, Kinds, Bare
<1>3. e.op = "br" /\ e.src = Here
  BY DEF Instr
<1>4. /\ IsSeq(c) /\ Extends(code, c) /\ Len(c) = Len(code) + 1
      /\ \A i \in Len(code) + 1 .. Len(c) : c[i].src = Here /\ c[i].op = "plain"
  BY <1>2, AddPlain, PlainAdded
<1>. HIDE DEF c, e
<1>5. Extends(c, code') /\ Len(code') = Len(c) + 1 /\ code'[Len(c) + 1] = e
  BY <1>1, <1>4, AppendExtends
<1>6. Extends(code, code')
  BY <1>2, <1>4, <1>5, ExtendsTransitive
<1>7. Len(code) \in Nat /\ Len(c) \in Nat /\ DOMAIN c = 1 .. Len(c) /\ Here + 0 = Here
  BY <1>2, <1>4 DEF Sizes, IsSeq, Here
<1>8. ASSUME NEW i \in Len(code) + 1 .. Len(code')
      PROVE  code'[i].src = Here /\ code'[i].op \in {"plain", "br"}
  <2>1. CASE i \in Len(code) + 1 .. Len(c)
    <3>1. i \in DOMAIN c
      BY <1>7, <2>1
    <3>. QED
      BY <1>4, <1>5, <2>1, <3>1 DEF Extends
  <2>2. CASE i \notin Len(code) + 1 .. Len(c)
    <3>1. i = Len(c) + 1
      BY <1>5, <1>7, <2>2
    <3>. QED
      BY <1>3, <1>5, <3>1
  <2>. QED
    BY <2>1, <2>2
<1>9. AddsCode(0, "return")
  <2>. DEFINE d == code'
  <2>1. d = code' /\ Extends(code, d) /\ \A i \in Len(code) + 1 .. Len(d) : d[i].src = Here
    BY <1>6, <1>8
  <2>2. Extends(code, code)
    BY <1>2 DEF Extends, Sizes
  <2>3. Len(code) = Len(code) + 0 /\ Len(d) # Len(code)
    BY <1>4, <1>5, <1>7
  <2>4. \A i \in Len(code) + 1 .. Len(code) : code[i].src = Here
    BY <1>7
  <2>. HIDE DEF d
  <2>. QED
    BY <1>2, <1>7, <2>1, <2>2, <2>3, <2>4, CodeAdded
<1>10. ReadsParts(0, "return")
  BY <1>1, <1>2, PartRead
<1>11. Added(0, "return")
  BY <1>1, <1>2, <1>9, <1>10, EntriesSame DEF Added, Sizes
<1>12. \A i \in DOMAIN code : code'[i].label = code[i].label
  BY <1>6 DEF Extends
<1>13. \A i \in Len(code) + 1 .. Len(code') : i \notin Branches'
  BY <1>8 DEF Branches
<1>. QED
  BY <1>1, <1>11, <1>12, <1>13, FollowCode

LEMMA FollowCallLoop ==
  ASSUME Around, CallLoop
  PROVE  FollowInv'
<1>. DEFINE label == FunAddress(table, <<LOOP, 0>>)
            c == Append(code, Instr("b", label, Here))
            d == c \o Plain(1, Here + 1)
<1>1. /\ Compiling /\ \E i \in DOMAIN table : table[i].name = <<LOOP, 0>>
      /\ code' = d /\ source' = source \o <<"loop", "assign">>
      /\ UNCHANGED <<tables, funcs, current, open, phase>>
  BY DEF CallLoop
<1>2. IInv /\ Types /\ Sizes /\ IsSeq(code) /\ "assign" \in Kinds /\ "loop" \in Kinds
      /\ "assign" \notin Bare
  BY SizesNow DEF Around, IInv, CodeInv, Kinds, Bare
<1>3. label + 1 \in DOMAIN tables[current] /\ tables[current][label + 1].name = <<LOOP, 0>>
  BY <1>1, <1>2, CallFound
<1>. HIDE DEF label
<1>4. /\ IsSeq(c) /\ Extends(code, c) /\ Len(c) = Len(code) + 1
      /\ c[Len(code) + 1].label = label
      /\ c[Len(code) + 1].state = current /\ c[Len(code) + 1].src = Here
  BY <1>2, AddInstr
<1>. HIDE DEF c
<1>5. /\ IsSeq(d) /\ Extends(c, d) /\ Len(d) = Len(c) + 1
      /\ \A i \in Len(c) + 1 .. Len(d) : d[i].src = Here + 1 /\ d[i].op = "plain"
  BY <1>4, AddPlain, PlainAdded
<1>. HIDE DEF d
<1>6. Len(code) \in Nat /\ Len(c) \in Nat /\ DOMAIN c = 1 .. Len(c) /\ DOMAIN code = 1 .. Len(code)
  BY <1>2, <1>4 DEF Sizes, IsSeq
<1>7. Extends(code, d) /\ d[Len(code) + 1] = c[Len(code) + 1]
  <2>1. Len(code) + 1 \in DOMAIN c
    BY <1>4, <1>6
  <2>. QED
    BY <1>2, <1>4, <1>5, <2>1, ExtendsTransitive DEF Extends
<1>8. AddsCode(1, "assign")
  <2>1. \A i \in Len(code) + 1 .. Len(c) : c[i].src = Here
    <3>1. \A i \in Len(code) + 1 .. Len(c) : i = Len(code) + 1
      BY <1>4, <1>6
    <3>. QED
      BY <1>4, <3>1
  <2>2. 1 \in {0, 1} /\ Len(d) # Len(c)
    <3>1. Len(d) = Len(c) + 1 /\ Len(c) \in Nat
      BY <1>5, <1>6
    <3>. QED
      BY <3>1
  <2>. QED
    BY <1>1, <1>2, <1>4, <1>5, <2>1, <2>2, CodeAdded
<1>9. ReadsParts(1, "assign")
  <2>. DEFINE parts == <<"loop">>
  <2>1. parts \in Seq(Kinds) /\ Len(parts) = 1 /\ parts[1] = "loop"
    BY <1>2
  <2>2. source' = Append(source \o parts, "assign")
    BY <1>1, <1>2 DEF Types
  <2>. HIDE DEF parts
  <2>3. 1 \in {0, 1} /\ parts[1] \in {"assign", "update", "loop"}
    BY <2>1
  <2>. QED
    BY <1>2, <2>1, <2>2, <2>3, PartsRead
<1>10. Added(1, "assign")
  BY <1>1, <1>2, <1>8, <1>9, EntriesSame DEF Added, Sizes
<1>11. \A i \in DOMAIN code : code'[i].label = code[i].label
  BY <1>1, <1>7 DEF Extends
<1>12. ASSUME NEW i \in Len(code) + 1 .. Len(code') PROVE i \notin Branches' \/ Settled(i)'
  <2>1. CASE i = Len(code) + 1
    <3>1. code'[i].src = Here /\ code'[i].label = label /\ code'[i].state = current
      BY <1>1, <1>4, <1>7, <2>1
    <3>2. source'[Here] = "loop"
      <4>1. source \in Seq(Kinds) /\ <<"loop", "assign">> \in Seq(Kinds)
        BY <1>2 DEF Types
      <4>. QED
        BY <1>1, <4>1 DEF Here
    <3>3. LandsCall(i)'
      BY <1>1, <1>3, <3>1 DEF LandsCall, Aimed, NameOfLabel
    <3>. QED
      BY <3>1, <3>2, <3>3 DEF Settled
  <2>2. CASE i # Len(code) + 1
    <3>1. i \in Len(c) + 1 .. Len(d)
      BY <1>1, <1>4, <1>5, <1>6, <2>2
    <3>. QED
      BY <1>1, <1>5, <3>1 DEF Branches
  <2>. QED
    BY <2>1, <2>2
<1>. QED
  BY <1>1, <1>10, <1>11, <1>12, FollowCode

\* The code of the last part a step reads begins behind that of the part before.
LEMMA StartsAdded ==
  ASSUME Around, NEW n, NEW kind, Added(n, kind), NEW o, o = Here + n,
         NEW a, a = Len(code) + n
  PROVE  Starts(o, a)'
<1>1. /\ Sizes /\ Sizes' /\ n \in Nat /\ Here = Len(source) + 1
      /\ \A i \in 1 .. Len(code') : \/ i \in 1 .. Len(code)
                                    \/ i \in Len(code) + 1 .. Len(code) + n
                                    \/ i \in Len(code) + n + 1 .. Len(code')
      /\ \A i \in 1 .. Len(code) : i \in 1 .. Len(code') /\ code'[i].src = code[i].src
  BY AddedShape
<1>2. /\ n \in {0, 1} /\ Len(code') >= Len(code) + n
      /\ \A i \in Len(code) + 1 .. Len(code) + n : code'[i].src = Here
      /\ \A i \in Len(code) + n + 1 .. Len(code') : code'[i].src = Here + n
  BY DEF Added, ReadsParts, AddsCode
<1>3. Len(code) \in Nat /\ Len(source) \in Nat /\ Len(code') \in Nat
      /\ DOMAIN code' = 1 .. Len(code') /\ line' = Len(code')
      /\ \A i \in 1 .. Len(code) : code[i].src \in 1 .. Len(source)
  BY <1>1 DEF Sizes
<1>4. o = Len(source) + 1 + n /\ a \in 0 .. Len(code')
  BY <1>1, <1>2, <1>3
<1>5. ASSUME NEW i \in 1 .. Len(code') PROVE code'[i].src < o <=> i <= a
  <2>1. CASE i \in 1 .. Len(code)
    <3>1. code'[i].src \in 1 .. Len(source)
      BY <1>1, <1>3, <2>1
    <3>. QED
      BY <1>1, <1>3, <1>4, <2>1, <3>1
  <2>2. CASE i \in Len(code) + 1 .. Len(code) + n
    <3>1. code'[i].src = Len(source) + 1 /\ n = 1
      BY <1>1, <1>2, <1>3, <2>2
    <3>. QED
      BY <1>3, <1>4, <2>2, <3>1
  <2>3. CASE i \in Len(code) + n + 1 .. Len(code')
    <3>1. code'[i].src = o
      BY <1>2, <2>3
    <3>. QED
      BY <1>1, <1>3, <1>4, <2>3, <3>1
  <2>. QED
    BY <1>1, <2>1, <2>2, <2>3
<1>. QED
  BY <1>3, <1>4, <1>5 DEF Starts

LEMMA FollowOpen ==
  ASSUME Around, NEW kind \in {"if", "while", "for"}, NEW n \in EvalLines,
         NEW before \in Seq(Kinds), Len(before) \in {0, 1},
         Len(before) = 1 => before[1] = "assign", OpenBlock(kind, n, before)
  PROVE  FollowInv'
<1>. DEFINE src == Here + Len(before)
            c == code \o Plain(Len(before), Here)
            d == c \o Plain(n + 1, src)
            e == Instr("bcond", 0, src)
            p == [kind |-> kind, ret |-> line + Len(before), branch |-> Len(code')]
<1>0. /\ Compiling /\ UNCHANGED <<tables, funcs, current, phase>>
      /\ IInv /\ Types /\ Sizes /\ Sizes' /\ IsSeq(code) /\ Len(code) \in Nat /\ line = Len(code)
      /\ n \in Nat /\ n + 1 \in Nat
  <2>1. Compiling /\ UNCHANGED <<tables, funcs, current, phase>>
    BY DEF OpenBlock
  <2>2. IInv /\ Types /\ Sizes /\ Sizes' /\ IsSeq(code)
    BY SizesNow, SizesLater DEF Around, IInv, CodeInv
  <2>. QED
    BY <2>1, <2>2, ControlFlowAssumption DEF Sizes
<1>1. /\ code' = c \o Append(Plain(n + 1, src), e)
      /\ open' = Append(open, p) /\ source' = Append(source \o before, kind)
  BY DEF OpenBlock, Condition
<1>2. code' = Append(d, e)
  <2>. DEFINE q == Plain(n + 1, src)
  <2>1. IsSeq(q)
    BY <1>0, PlainSeq
  <2>2. IsSeq(c)
    BY <1>0, AddPlain
  <2>. HIDE DEF q, c, e
  <2>3. c \o Append(q, e) = Append(c \o q, e)
    BY <2>1, <2>2, AppendConcat
  <2>. QED
    BY <1>1, <2>3 DEF q
<1>3. e.op = "bcond" /\ e.src = src
  BY DEF Instr
<1>4. p.kind = kind /\ p.ret = line + Len(before) /\ p.branch = Len(code')
  OBVIOUS
<1>5. PICK k : k = Len(before)
  OBVIOUS
<1>6. k \in {0, 1} /\ k \in Nat /\ src = Here + k
  BY <1>5
<1>. HIDE DEF e, p, src
<1>7. /\ IsSeq(c) /\ Extends(code, c) /\ Len(c) = Len(code) + k
      /\ \A i \in Len(code) + 1 .. Len(c) : c[i].src = Here /\ c[i].op = "plain"
  <2>1. c = code \o Plain(k, Here)
    BY <1>5
  <2>. HIDE DEF c
  <2>. QED
    BY <1>0, <1>6, <2>1, AddPlain, PlainAdded
<1>. HIDE DEF c
<1>8. /\ IsSeq(d) /\ Extends(c, d) /\ Len(d) = Len(c) + (n + 1)
      /\ \A i \in Len(c) + 1 .. Len(d) : d[i].src = src /\ d[i].op = "plain"
  <2>. DEFINE m == n + 1
  <2>1. m \in Nat /\ d = c \o Plain(m, src)
    BY <1>0
  <2>. HIDE DEF d, m
  <2>2. IsSeq(c) /\ m \in Nat /\ d = c \o Plain(m, src)
    BY <1>7, <2>1
  <2>3. IsSeq(d) /\ Extends(c, d) /\ Len(d) = Len(c) + m
    BY <2>2, AddPlain
  <2>4. \A i \in Len(c) + 1 .. Len(d) : d[i].src = src /\ d[i].op = "plain"
    BY <2>2, PlainAdded
  <2>. QED
    BY <2>3, <2>4 DEF m
<1>. HIDE DEF d
<1>9. Extends(d, code') /\ IsSeq(code') /\ Len(code') = Len(d) + 1 /\ code'[Len(d) + 1] = e
  BY <1>2, <1>8, AppendExtends DEF Extends
<1>10. Extends(c, code') /\ Extends(code, code')
  <2>1. Extends(c, code')
    BY <1>7, <1>8, <1>9, ExtendsTransitive
  <2>. QED
    BY <1>0, <1>7, <2>1, ExtendsTransitive
<1>11. Len(c) \in Nat /\ Len(d) \in Nat /\ DOMAIN c = 1 .. Len(c) /\ DOMAIN d = 1 .. Len(d)
       /\ Len(code') = Len(d) + 1 /\ Len(d) > Len(c)
  <2>1. Len(c) \in Nat /\ Len(d) \in Nat /\ DOMAIN c = 1 .. Len(c) /\ DOMAIN d = 1 .. Len(d)
        /\ Len(d) = Len(c) + (n + 1) /\ Len(code') = Len(d) + 1
    BY <1>7, <1>8, <1>9 DEF IsSeq
  <2>. QED
    BY <1>0, <2>1
<1>12. \A i \in DOMAIN d : code'[i] = d[i]
  BY <1>9 DEF Extends
<1>13. ASSUME NEW i \in Len(c) + 1 .. Len(code')
       PROVE  code'[i].src = Here + k /\ (i # Len(code') => code'[i].op = "plain")
  <2>1. CASE i = Len(code')
    BY <1>3, <1>6, <1>9, <2>1
  <2>2. CASE i # Len(code')
    <3>1. i \in DOMAIN d /\ i \in Len(c) + 1 .. Len(d)
      BY <1>11, <2>2
    <3>. QED
      BY <1>6, <1>8, <1>12, <3>1
  <2>. QED
    BY <2>1, <2>2
<1>14. ASSUME NEW i \in Len(code) + 1 .. Len(code'), i # Len(code') PROVE code'[i].op = "plain"
  <2>1. CASE i \in Len(code) + 1 .. Len(c)
    <3>1. i \in DOMAIN c
      BY <1>0, <1>11, <2>1
    <3>. QED
      BY <1>7, <1>10, <2>1, <3>1 DEF Extends
  <2>2. CASE i \notin Len(code) + 1 .. Len(c)
    <3>1. i \in Len(c) + 1 .. Len(code')
      BY <1>0, <1>11, <2>2
    <3>. QED
      BY <1>13, <1>14, <3>1
  <2>. QED
    BY <2>1, <2>2
<1>15. kind \in Kinds /\ kind \notin Bare /\ kind \in Opener
       /\ kind \notin {"start", "main", "halt", "def", "enddef", "else"} /\ kind \notin Closer
  BY DEF Kinds, Bare, Opener, Closer
<1>16. AddsCode(k, kind)
  <2>1. Len(code') # Len(c)
    <3>1. Len(code') = Len(d) + 1 /\ Len(d) > Len(c) /\ Len(c) \in Nat /\ Len(d) \in Nat
      BY <1>11
    <3>. QED
      BY <3>1
  <2>. DEFINE g == code'
  <2>2. Extends(c, g) /\ Len(g) # Len(c) /\ code' = g
        /\ \A i \in Len(c) + 1 .. Len(g) : g[i].src = Here + k
    BY <1>10, <1>13, <2>1
  <2>. HIDE DEF g
  <2>. QED
    BY <1>0, <1>6, <1>7, <1>15, <2>2, CodeAdded
<1>17. ReadsParts(k, kind)
  BY <1>0, <1>1, <1>5, <1>6, <1>15, PartsRead
<1>18. Added(k, kind)
  BY <1>0, <1>16, <1>17, EntriesSame DEF Added, Sizes
\* The blocks that are open then.
<1>19. PICK j : j = Len(open) + 1
  OBVIOUS
<1>20. /\ Len(open') = j /\ j \in DOMAIN open' /\ open'[j] = p /\ j \in Nat /\ open' # <<>>
       /\ \A i \in DOMAIN open' : i = j \/ (i \in DOMAIN open /\ open'[i] = open[i])
       /\ \A i \in DOMAIN open : i \in DOMAIN open' /\ open'[i] = open[i]
  <2>1. IsSeq(open)
    BY <1>0 DEF IInv, CodeInv, OpenBranches
  <2>2. Extends(open, open') /\ Len(open') = Len(open) + 1 /\ open'[Len(open) + 1] = p
    BY <1>1, <2>1, AppendExtends
  <2>3. /\ Len(open) \in Nat /\ DOMAIN open = 1 .. Len(open)
        /\ DOMAIN open' = 1 .. Len(open') /\ Len(open') \in Nat
    BY <1>0 DEF Sizes
  <2>4. \A i \in DOMAIN open' : i = j \/ i \in DOMAIN open
    BY <1>19, <2>2, <2>3
  <2>5. j \in DOMAIN open' /\ open' # <<>>
    BY <1>19, <2>2, <2>3
  <2>. QED
    BY <1>19, <2>2, <2>3, <2>4, <2>5 DEF Extends
<1>21. phase # "done" /\ (phase = "functions" => open # <<>>)
  BY <1>0, CompilingMade DEF Around, NamesAll, Compiling
<1>22. LevelInv' /\ CodedInv' /\ OrderInv' /\ DefsInv' /\ MainInv'
  <2>1. \A i \in DOMAIN open' : open'[i].kind = "def" => i \in DOMAIN open /\ open[i].kind = "def"
    BY <1>4, <1>15, <1>20
  <2>. QED
    BY <1>0, <1>15, <1>18, <1>19, <1>20, <1>21, <2>1, FollowGrow
<1>23. PICK o : o = Here + k
  OBVIOUS
<1>24. At(j)' = o
  <2>1. Len(code') \in Len(c) + 1 .. Len(code')
    BY <1>11
  <2>. QED
    BY <1>4, <1>13, <1>20, <1>23, <2>1 DEF At
<1>25. PICK m : m = Len(source)
  OBVIOUS
<1>26. /\ m \in Nat /\ o = m + k + 1 /\ o - 1 = m + k /\ o = Len(source')
       /\ Level(m + k)' = j - 1 /\ Level(m + k + 1)' = j
  <2>1. /\ m \in Nat /\ Len(source') = m + k + 1 /\ Here = m + 1
        /\ Level(m + k)' = Level(m) /\ Level(m + k + 1)' = Level(m) + 1
    BY <1>15, <1>18, <1>25, LevelAdded
  <2>2. Level(m) = Len(open) /\ Len(open) \in Nat
    BY <1>0, <1>25 DEF Around, FollowInv, LevelInv, Sizes
  <2>3. o = m + k + 1 /\ o - 1 = m + k
    BY <1>6, <1>23, <2>1
  <2>. QED
    BY <1>19, <2>1, <2>2, <2>3
<1>27. source'[o] = kind /\ o \in DOMAIN source'
  <2>1. Len(source') \in Nat /\ DOMAIN source' = 1 .. Len(source')
    BY <1>0 DEF Sizes
  <2>2. o \in 1 .. Len(source')
    BY <1>6, <1>26, <2>1
  <2>. QED
    BY <1>17, <1>23, <2>1, <2>2 DEF ReadsParts
<1>28. Opened(o, j)'
  <2>1. Level(o - 1)' = j - 1
    BY <1>26
  <2>2. ASSUME NEW i \in o .. Len(source') PROVE Level(i)' >= j
    <3>1. i = m + k + 1
      BY <1>6, <1>26
    <3>. QED
      BY <1>20, <1>26, <3>1
  <2>. QED
    BY <1>15, <1>27, <2>1, <2>2 DEF Opened
<1>29. OpenInv'
  <2>1. CASE kind = "if"
    <3>1. \A i \in o + 1 .. Len(source') : FALSE
      BY <1>6, <1>26
    <3>2. OpenIf(j)'
      BY <1>24, <1>27, <1>28, <2>1, <3>1 DEF OpenIf
    <3>. QED
      BY <1>4, <1>15, <1>18, <1>20, <1>22, <2>1, <3>2, OpenStep
  <2>2. CASE kind \in {"while", "for"}
    <3>1. PICK a : a = Len(code) + k
      OBVIOUS
    <3>2. Starts(o, a)'
      BY <1>18, <1>23, <3>1, StartsAdded
    <3>3. open'[j].ret = a
      BY <1>0, <1>4, <1>5, <1>20, <3>1
    <3>4. OpenLoop(j)'
      BY <1>24, <1>27, <1>28, <2>2, <3>2, <3>3 DEF OpenLoop
    <3>. QED
      BY <1>4, <1>15, <1>18, <1>20, <1>22, <2>2, <3>4, OpenStep
  <2>. QED
    BY <2>1, <2>2
<1>30. BranchInv'
  <2>1. PICK b : b = 0
    OBVIOUS
  <2>2. b \notin DOMAIN code
    BY <1>0, <2>1 DEF Sizes
  <2>3. \A i \in DOMAIN code : code'[i].label = code[i].label
    BY <1>10 DEF Extends
  <2>4. ASSUME NEW i \in Len(code) + 1 .. Len(code')
        PROVE  i \notin Branches' \/ \E l \in DOMAIN open' : open'[l].branch = i
    <3>1. CASE i = Len(code')
      BY <1>4, <1>20, <3>1
    <3>2. CASE i # Len(code')
      BY <1>14, <3>2 DEF Branches
    <3>. QED
      BY <3>1, <3>2
  <2>5. \A l \in DOMAIN open : \E i \in DOMAIN open' : open'[i].branch = open[l].branch
    BY <1>20
  <2>. QED
    BY <1>0, <1>15, <1>18, <2>2, <2>3, <2>4, <2>5, BranchStep
<1>31. IfsInv'
  <2>1. \A l \in DOMAIN open : open[l].kind = "if" =>
          \E i \in DOMAIN open' : open'[i].kind = "if" /\ open'[i].branch = open[l].branch
    BY <1>20
  <2>2. kind = "if" => \E i \in DOMAIN open' : open'[i].kind = "if" /\ At(i)' = Here + k
    BY <1>4, <1>20, <1>23, <1>24
  <2>. QED
    BY <1>18, <2>1, <2>2, IfsStep
<1>. QED
  BY <1>22, <1>29, <1>30, <1>31 DEF FollowInv

\* A block that is closed.
LEMMA FrontOpen ==
  ASSUME IInv, Types, NamesAll, open # <<>>, Last(open).kind # "def"
  PROVE  /\ Len(open) \in DOMAIN open /\ Last(open) = open[Len(open)] /\ Len(open) \in Nat
         /\ DOMAIN open = 1 .. Len(open)
         /\ IsSeq(Front(open)) /\ Len(Front(open)) = Len(open) - 1
         /\ DOMAIN Front(open) = 1 .. Len(open) - 1
         /\ \A i \in DOMAIN Front(open) : i \in DOMAIN open /\ Front(open)[i] = open[i] /\ i # Len(open)
         /\ \A i \in DOMAIN open : i = Len(open) \/ i \in DOMAIN Front(open)
         /\ phase = "functions" => Len(open) > 1
         /\ phase # "done"
<1>1. open \in Seq(Blocks(line))
  BY DEF Types
<1>2. Len(open) \in Nat /\ Len(open) # 0 /\ DOMAIN open = 1 .. Len(open)
  BY <1>1
<1>3. Len(open) \in DOMAIN open /\ Last(open) = open[Len(open)]
  BY <1>2 DEF Last
<1>. DEFINE o == Front(open)
<1>4. o \in Seq(Blocks(line)) /\ Len(o) = Len(open) - 1 /\ \A i \in 1 .. Len(open) - 1 : o[i] = open[i]
  BY <1>1, <1>2 DEF Front
<1>. HIDE DEF o
<1>5. IsSeq(o) /\ DOMAIN o = 1 .. Len(open) - 1
  BY <1>2, <1>4 DEF IsSeq
<1>6. /\ \A i \in DOMAIN o : i \in DOMAIN open /\ o[i] = open[i] /\ i # Len(open)
      /\ \A i \in DOMAIN open : i = Len(open) \/ i \in DOMAIN o
  <2>1. ASSUME NEW i \in DOMAIN o PROVE i \in DOMAIN open /\ o[i] = open[i] /\ i # Len(open)
    BY <1>2, <1>4, <1>5
  <2>2. ASSUME NEW i \in DOMAIN open PROVE i = Len(open) \/ i \in DOMAIN o
    BY <1>2, <1>5
  <2>. QED
    BY <2>1, <2>2
<1>7. phase = "functions" => Len(open) > 1
  <2>1. phase = "functions" => open[1].kind = "def"
    BY DEF NamesAll, BlocksInv
  <2>2. phase = "functions" => Len(open) # 1
    BY <1>3, <2>1
  <2>. QED
    BY <1>2, <2>2
<1>8. phase # "done"
  BY CompilingMade DEF NamesAll
<1>. QED
  BY <1>2, <1>3, <1>4, <1>5, <1>6, <1>7, <1>8 DEF o

LEMMA EndsTop ==
  ASSUME Around, NEW n, NEW kind, Added(n, kind), LevelInv', open # <<>>,
         Len(open') = Len(open) - 1, NEW o, Opened(o, Len(open)), NEW e, e = Len(source')
  PROVE  Ends(o, e)'
<1>1. Sizes /\ Sizes' /\ \A t \in 1 .. Len(source) : t \in 1 .. Len(source') /\ source'[t] = source[t]
  BY AddedShape
<1>2. PICK m : m = Len(source)
  OBVIOUS
<1>3. /\ m \in Nat /\ n \in Nat /\ e = m + n + 1
      /\ Level(m)' = Level(m) /\ Level(m + n)' = Level(m)
  BY <1>2, LevelAdded
<1>4. Level(m) = Len(open) /\ Level(e)' = Len(open) - 1 /\ Len(open) \in Nat
  <2>1. Level(m) = Len(open)
    BY <1>2 DEF Around, FollowInv, LevelInv
  <2>2. Level(e)' = Len(open')
    BY DEF LevelInv
  <2>. QED
    BY <1>1, <2>1, <2>2 DEF Sizes
<1>5. o \in 1..m /\ source[o] \in Opener /\ Level(o - 1) = Len(open) - 1
      /\ \A k \in o..m : Level(k) >= Len(open)
  BY <1>1, <1>2 DEF Opened, Sizes
<1>6. o - 1 \in 0 .. Len(source) /\ o \in 1 .. Len(source)
  BY <1>2, <1>3, <1>5
<1>7. Level(o - 1)' = Len(open) - 1
  BY <1>5, <1>6, LevelKeep
<1>8. ASSUME NEW k \in o .. e - 1 PROVE Level(k)' >= Len(open)
  <2>1. CASE k \in 1..m
    <3>1. k \in 0 .. Len(source) /\ k \in o..m
      BY <1>2, <1>5, <2>1
    <3>2. Level(k)' = Level(k)
      BY <3>1, LevelKeep
    <3>. QED
      BY <1>5, <3>1, <3>2
  <2>2. CASE k \notin 1..m
    <3>1. k = m + n
      <4>1. n = 0 \/ n = 1
        BY DEF Added, ReadsParts
      <4>. QED
        BY <1>3, <1>5, <2>2, <4>1
    <3>. QED
      BY <1>3, <1>4, <3>1
  <2>. QED
    BY <2>1, <2>2
<1>9. \A k \in o .. e - 1 : Level(k)' > Level(o - 1)'
  <2>1. ASSUME NEW k \in o .. e - 1 PROVE Level(k)' > Level(o - 1)'
    <3>1. Level(k)' >= Len(open) /\ Level(o - 1)' = Len(open) - 1 /\ Len(open) \in Nat
      BY <1>4, <1>7, <1>8
    <3>2. Level(k)' \in Int
      <4>1. k \in Nat
        BY <1>3, <1>5
      <4>. QED
        BY <4>1, LevelLater DEF LevelFacts
    <3>. QED
      BY <3>1, <3>2
  <2>. QED
    BY <2>1
<1>10. o \in DOMAIN source' /\ e \in DOMAIN source' /\ o < e /\ source'[o] \in Opener
  BY <1>1, <1>2, <1>3, <1>5 DEF Sizes
<1>11. Level(e)' = Level(o - 1)'
  BY <1>4, <1>7
<1>. QED
  BY <1>9, <1>10, <1>11 DEF Ends

LEMMA LandsNow ==
  ASSUME NEW i, code'[i].state = current, code'[i].label + 1 \in DOMAIN tables'[current],
         NEW a, tables'[current][code'[i].label + 1].address = a, NEW t, Starts(t, a)'
  PROVE  Lands(i, t)'
  BY DEF Lands, Aimed, AddressOfLabel

LEMMA FollowEndIf ==
  ASSUME Around, EndIf
  PROVE  FollowInv'
<1>. DEFINE top == Last(open)
            out == AddLabel(table, line)
            label == LabelAddress(out)
            c == WithLabel(code, top.branch, label)
<1>0. IInv /\ Types /\ NamesAll /\ Sizes /\ Sizes'
  BY SizesNow, SizesLater DEF Around
<1>1. /\ open # <<>> /\ top.kind = "else"
      /\ code' = c /\ tables' = [tables EXCEPT ![current] = out]
      /\ open' = Front(open) /\ source' = Append(source, "endif")
      /\ UNCHANGED <<funcs, current, phase>>
  BY DEF EndIf, WithLabel
<1>. HIDE DEF top
<1>2. /\ top.branch \in DOMAIN code /\ code[top.branch].state = current
      /\ table \in Seq(TableEntries(line)) /\ Len(table) \in Nat
      /\ line = Len(code) /\ line \in Nat /\ DOMAIN code = 1 .. Len(code)
      /\ IsSeq(code) /\ Extends(code, code)
  BY <1>0, <1>1, TopBlock DEF top
<1>3. PICK b : b = top.branch
  OBVIOUS
<1>4. /\ out \in Seq(TableEntries(line)) /\ Len(out) = Len(table) + 1
      /\ \A k \in 1 .. Len(table) : out[k] = table[k]
      /\ out[Len(table) + 1].address = line /\ label = Len(table)
  <2>1. line \in 0..line
    BY <1>2
  <2>. QED
    BY <1>2, <2>1, OneLabel
<1>. HIDE DEF out, label
<1>5. /\ IsSeq(c) /\ Len(c) = Len(code) /\ c[b].label = label
      /\ \A i \in DOMAIN code : /\ i \in DOMAIN c /\ c[i].op = code[i].op
                                /\ c[i].state = code[i].state /\ c[i].src = code[i].src
                                /\ i = b \/ c[i].label = code[i].label
  BY <1>0, <1>2, <1>3, PatchKeep
<1>. HIDE DEF c
<1>6. "endif" \in Kinds /\ "endif" \in Bare /\ "endif" \in Closer
      /\ "endif" \notin {"start", "main", "halt", "def", "enddef", "if", "else"} \cup Opener
  BY DEF Kinds, Bare, Closer, Opener
<1>7. AddsCode(0, "endif")
  BY <1>0, <1>1, <1>5, <1>6, NothingAdded
<1>8. ReadsParts(0, "endif")
  BY <1>0, <1>1, <1>6, PartRead
<1>9. DOMAIN out = 1 .. Len(out) /\ Len(out) \in Nat /\ Len(out) >= Len(table)
      /\ label + 1 \in DOMAIN out
  BY <1>2, <1>4
<1>10. AddsEntries /\ tables'[current] = out
  BY <1>0, <1>1, <1>4, <1>9, EntriesGrow
<1>11. Added(0, "endif")
  BY <1>7, <1>8, <1>10 DEF Added
\* The blocks that stay open.
<1>12. PICK j : j = Len(open)
  OBVIOUS
<1>13. /\ j \in DOMAIN open /\ top = open[j] /\ j \in Nat /\ Len(open') = Len(open) - 1
       /\ \A i \in DOMAIN open' : i \in DOMAIN open /\ open'[i] = open[i] /\ i # j
       /\ \A i \in DOMAIN open : i = j \/ i \in DOMAIN open'
       /\ phase = "functions" => open' # <<>>
       /\ phase # "done"
  <2>1. /\ Len(open) \in DOMAIN open /\ Last(open) = open[Len(open)] /\ Len(open) \in Nat
        /\ Len(Front(open)) = Len(open) - 1
        /\ \A i \in DOMAIN Front(open) : i \in DOMAIN open /\ Front(open)[i] = open[i] /\ i # Len(open)
        /\ \A i \in DOMAIN open : i = Len(open) \/ i \in DOMAIN Front(open)
        /\ phase = "functions" => Len(open) > 1
        /\ phase # "done"
    BY <1>0, <1>1, FrontOpen DEF top
  <2>2. phase = "functions" => open' # <<>>
    <3>1. phase = "functions" => Len(open') # 0
      BY <1>1, <2>1
    <3>. QED
      BY <3>1
  <2>. QED
    BY <1>1, <1>12, <2>1, <2>2 DEF top
<1>14. LevelInv' /\ CodedInv' /\ OrderInv' /\ DefsInv' /\ MainInv'
  <2>1. \A i \in DOMAIN open' : open'[i].kind = "def" => i \in DOMAIN open /\ open[i].kind = "def"
    BY <1>13
  <2>. QED
    BY <1>1, <1>6, <1>11, <1>13, <2>1, FollowGrow
<1>15. OpenInv'
  BY <1>6, <1>11, <1>13, <1>14, OpenStep
\* Where the branch leads.
<1>16. PICK o : Opened(o, j) /\ Elses(o, At(j))
  BY <1>1, <1>13 DEF Around, FollowInv, OpenInv, OpenElse
<1>17. PICK t : t = At(j)
  OBVIOUS
<1>18. t = code[b].src /\ code'[b].src = t /\ code'[b].state = current /\ code'[b].label = label
  BY <1>1, <1>2, <1>3, <1>5, <1>13, <1>17 DEF At
<1>19. Elses(o, t)'
  BY <1>11, <1>16, <1>17, ElsesKeep
<1>20. PICK e : e = Len(source')
  OBVIOUS
<1>21. Ends(o, e)'
  BY <1>1, <1>11, <1>12, <1>13, <1>14, <1>16, <1>20, EndsTop
<1>22. source'[e] = "endif" /\ source'[t] = "else"
  <2>1. Here + 0 = Len(source') /\ source'[Here + 0] = "endif"
    BY <1>8, <1>11, AddedShape DEF ReadsParts
  <2>2. source'[t] = "else"
    BY <1>19 DEF Elses
  <2>. QED
    BY <1>20, <2>1, <2>2
<1>23. PICK u : u = e + 1
  OBVIOUS
<1>24. PICK a : a = Len(code')
  OBVIOUS
<1>25. Starts(u, a)'
  BY <1>20, <1>23, <1>24, StartsNext
<1>26. out[label + 1].address = a
  BY <1>1, <1>2, <1>4, <1>5, <1>24
<1>27. Lands(b, u)'
  BY <1>9, <1>10, <1>18, <1>25, <1>26, LandsNow
<1>28. Settled(b)'
  <2>1. LandsElse(b)'
    BY <1>18, <1>19, <1>21, <1>22, <1>23, <1>27 DEF LandsElse
  <2>. QED
    BY <1>18, <1>22, <2>1 DEF Settled
<1>29. BranchInv'
  <2>1. \A i \in DOMAIN code : i = b \/ code'[i].label = code[i].label
    BY <1>1, <1>5
  <2>2. \A i \in DOMAIN open : \/ open[i].branch \in {0, b}
                               \/ \E k \in DOMAIN open' : open'[k].branch = open[i].branch
    BY <1>3, <1>13
  <2>3. \A i \in Len(code) + 1 .. Len(code') : FALSE
    BY <1>1, <1>2, <1>5
  <2>. QED
    BY <1>1, <1>6, <1>11, <1>28, <2>1, <2>2, <2>3, BranchStep
<1>30. IfsInv'
  <2>1. \A i \in DOMAIN open : open[i].kind = "if" =>
          \E k \in DOMAIN open' : open'[k].kind = "if" /\ open'[k].branch = open[i].branch
    BY <1>1, <1>13
  <2>. QED
    BY <1>6, <1>11, <2>1, IfsStep
<1>. QED
  BY <1>14, <1>15, <1>29, <1>30 DEF FollowInv

LEMMA FollowElse ==
  ASSUME Around, Else
  PROVE  FollowInv'
<1>. DEFINE top == Last(open)
            other == AddLabel(table, line + 1)
            label == LabelAddress(other)
            c == WithLabel(code, top.branch, label)
            e == Instr("b", 0, Here)
            p == [kind |-> "else", ret |-> 0, branch |-> line + 1]
            n == line + 1
<1>0. IInv /\ Types /\ NamesAll /\ Sizes /\ Sizes'
  BY SizesNow, SizesLater DEF Around
<1>1. /\ open # <<>> /\ top.kind = "if"
      /\ code' = Append(c, e) /\ tables' = [tables EXCEPT ![current] = other]
      /\ open' = Append(Front(open), p) /\ source' = Append(source, "else")
      /\ UNCHANGED <<funcs, current, phase>>
  BY DEF Else, WithLabel
<1>. HIDE DEF top
<1>2. /\ top.branch \in DOMAIN code /\ code[top.branch].state = current
      /\ table \in Seq(TableEntries(line)) /\ Len(table) \in Nat
      /\ line = Len(code) /\ line \in Nat /\ DOMAIN code = 1 .. Len(code)
      /\ IsSeq(code) /\ Extends(code, code)
  BY <1>0, <1>1, TopBlock DEF top
<1>3. PICK b : b = top.branch
  OBVIOUS
<1>4. /\ other \in Seq(TableEntries(n)) /\ Len(other) = Len(table) + 1
      /\ \A k \in 1 .. Len(table) : other[k] = table[k]
      /\ other[Len(table) + 1].address = n /\ label = Len(table)
  <2>1. n \in Nat /\ n \in 0..n
    BY <1>2
  <2>2. TableEntries(line) \subseteq TableEntries(n)
    BY <1>2 DEF TableEntries
  <2>3. table \in Seq(TableEntries(n))
    BY <1>2, <2>2, SeqMonotonic
  <2>4. other = AddLabel(table, n)
    OBVIOUS
  <2>. HIDE DEF n
  <2>5. /\ AddLabel(table, n) \in Seq(TableEntries(n)) /\ Len(AddLabel(table, n)) = Len(table) + 1
        /\ \A k \in 1 .. Len(table) : AddLabel(table, n)[k] = table[k]
        /\ AddLabel(table, n)[Len(table) + 1].address = n
        /\ LabelAddress(AddLabel(table, n)) = Len(table)
    BY <2>1, <2>3, OneLabel
  <2>. QED
    BY <2>4, <2>5
<1>. HIDE DEF other, label
<1>5. /\ IsSeq(c) /\ Len(c) = Len(code) /\ c[b].label = label
      /\ \A i \in DOMAIN code : /\ i \in DOMAIN c /\ c[i].op = code[i].op
                                /\ c[i].state = code[i].state /\ c[i].src = code[i].src
                                /\ i = b \/ c[i].label = code[i].label
  BY <1>0, <1>2, <1>3, PatchKeep
<1>6. e.src = Here /\ p.kind = "else" /\ p.branch = n
  BY DEF Instr
<1>. HIDE DEF c, e, p
<1>7. Extends(c, code') /\ IsSeq(code') /\ Len(code') = Len(code) + 1 /\ code'[Len(code) + 1] = e
  BY <1>1, <1>5, AppendExtends DEF Extends
<1>8. \A i \in DOMAIN code : /\ code'[i].op = code[i].op
                             /\ code'[i].state = code[i].state /\ code'[i].src = code[i].src
                             /\ i = b \/ code'[i].label = code[i].label
  BY <1>5, <1>7 DEF Extends
<1>9. b \in DOMAIN code /\ code'[b].label = label /\ code'[b].state = current
  BY <1>2, <1>3, <1>5, <1>7 DEF Extends
<1>10. "else" \in Kinds /\ "else" \notin Bare
       /\ "else" \notin {"start", "main", "halt", "def", "enddef", "if"} \cup Opener \cup Closer
  BY DEF Kinds, Bare, Closer, Opener
<1>11. Here = Len(source) + 1 /\ Here + 0 = Here /\ Len(source) \in Nat
  BY <1>0 DEF Here, Sizes
<1>12. AddsCode(0, "else")
  <2>1. Len(code') >= Len(code) + 0 /\ Len(code') # Len(code) + 0
    BY <1>2, <1>7
  <2>2. \A i \in Len(code) + 1 .. Len(code) + 0 : FALSE
    BY <1>2
  <2>3. ASSUME NEW i \in Len(code) + 0 + 1 .. Len(code') PROVE code'[i].src = Here
    <3>1. i = Len(code) + 1
      BY <1>2, <1>7
    <3>. QED
      BY <1>6, <1>7, <3>1
  <2>. QED
    BY <1>8, <1>10, <1>11, <2>1, <2>2, <2>3 DEF AddsCode
<1>13. ReadsParts(0, "else")
  BY <1>0, <1>1, <1>10, PartRead
<1>14. DOMAIN other = 1 .. Len(other) /\ Len(other) \in Nat /\ Len(other) >= Len(table)
       /\ label + 1 \in DOMAIN other
  BY <1>2, <1>4
<1>15. AddsEntries /\ tables'[current] = other
  BY <1>0, <1>1, <1>4, <1>14, EntriesGrow
<1>16. Added(0, "else")
  BY <1>12, <1>13, <1>15 DEF Added
\* The blocks that are open then.
<1>17. PICK j : j = Len(open)
  OBVIOUS
<1>18. /\ j \in DOMAIN open /\ top = open[j] /\ j \in Nat /\ Len(open') = j /\ j = Len(open)
       /\ j \in DOMAIN open' /\ open'[j] = p /\ open' # <<>> /\ phase # "done"
       /\ \A i \in DOMAIN open' : i = j \/ (i \in DOMAIN open /\ open'[i] = open[i])
       /\ \A i \in DOMAIN open : i = j \/ (i \in DOMAIN open' /\ open'[i] = open[i])
  <2>. DEFINE f == Front(open)
  <2>1. /\ Len(open) \in DOMAIN open /\ Last(open) = open[Len(open)] /\ Len(open) \in Nat
        /\ DOMAIN open = 1 .. Len(open)
        /\ IsSeq(f) /\ Len(f) = Len(open) - 1 /\ DOMAIN f = 1 .. Len(open) - 1
        /\ \A i \in DOMAIN f : i \in DOMAIN open /\ f[i] = open[i]
        /\ \A i \in DOMAIN open : i = Len(open) \/ i \in DOMAIN f
        /\ phase # "done"
    BY <1>0, <1>1, FrontOpen DEF top
  <2>2. open' = Append(f, p)
    BY <1>1
  <2>. HIDE DEF f
  <2>3. Extends(f, open') /\ Len(open') = Len(f) + 1 /\ open'[Len(f) + 1] = p
    BY <2>1, <2>2, AppendExtends
  <2>4. Len(f) + 1 = j /\ Len(open') = j /\ DOMAIN open' = 1 .. Len(open')
    <3>1. DOMAIN open' = 1 .. Len(open')
      BY <1>0 DEF Sizes
    <3>. QED
      BY <1>17, <2>1, <2>3, <3>1
  <2>5. \A i \in DOMAIN f : i \in DOMAIN open' /\ open'[i] = open[i]
    BY <2>1, <2>3 DEF Extends
  <2>6. ASSUME NEW i \in DOMAIN open' PROVE i = j \/ (i \in DOMAIN open /\ open'[i] = open[i])
    <3>1. i = j \/ i \in DOMAIN f
      BY <1>17, <2>1, <2>4
    <3>. QED
      BY <2>1, <2>5, <3>1
  <2>7. j \in DOMAIN open' /\ open' # <<>>
    BY <1>17, <2>1, <2>4
  <2>. QED
    BY <1>17, <2>1, <2>3, <2>4, <2>5, <2>6, <2>7 DEF top
<1>19. LevelInv' /\ CodedInv' /\ OrderInv' /\ DefsInv' /\ MainInv'
  <2>1. \A i \in DOMAIN open' : open'[i].kind = "def" => i \in DOMAIN open /\ open[i].kind = "def"
    BY <1>6, <1>18
  <2>2. "else" \notin Opener \cup Closer /\ "else" \notin {"start", "main", "halt", "def", "enddef"}
    BY <1>10
  <2>. QED
    BY <1>1, <1>16, <1>18, <2>1, <2>2, FollowGrow
\* The if and its else.
<1>20. PICK o : o = At(j)
  OBVIOUS
<1>21. /\ Opened(o, j) /\ source[o] = "if" /\ o = code[b].src /\ code'[b].src = o
       /\ \A k \in o + 1 .. Len(source) : source[k] = "else" => Level(k) # j
  <2>1. OpenIf(j)
    BY <1>1, <1>18 DEF Around, FollowInv, OpenInv
  <2>. QED
    BY <1>3, <1>8, <1>9, <1>18, <1>20, <2>1 DEF OpenIf, At
<1>22. Opened(o, j)'
  BY <1>16, <1>18, <1>19, <1>21, OpenedKeep
<1>23. PICK t : t = Len(source')
  OBVIOUS
<1>24. t = Here /\ source'[t] = "else" /\ t \in DOMAIN source'
  <2>1. Here + 0 = Len(source') /\ source'[Here + 0] = "else"
    BY <1>13, <1>16, AddedShape DEF ReadsParts
  <2>2. t = Here /\ Len(source') \in Nat /\ DOMAIN source' = 1 .. Len(source')
    BY <1>0, <1>11, <1>23, <2>1 DEF Sizes
  <2>. QED
    BY <1>11, <1>23, <2>1, <2>2
<1>25. Elses(o, t)'
  <2>1. o \in 1 .. Len(source) /\ Level(o - 1) = j - 1 /\ \A k \in o .. Len(source) : Level(k) >= j
    BY <1>0, <1>21 DEF Opened, Sizes
  <2>2. o \in DOMAIN source' /\ source'[o] = "if" /\ o < t
    <3>1. o \in 1 .. Len(source') /\ source'[o] = source[o]
      BY <1>16, <2>1, AddedShape
    <3>. QED
      BY <1>0, <1>11, <1>21, <1>24, <2>1, <3>1 DEF Sizes
  <2>3. Level(o)' = j
    <3>1. source[(o - 1) + 1] \in Opener /\ o - 1 \in Nat /\ (o - 1) + 1 = o
      <4>1. (o - 1) + 1 = o /\ o - 1 \in Nat
        BY <1>11, <2>1
      <4>. QED
        BY <1>21, <4>1 DEF Opened
    <3>2. Level((o - 1) + 1) = Level(o - 1) + 1
      BY <3>1, LevelNext
    <3>3. Level(o) = j
      BY <1>18, <2>1, <3>1, <3>2
    <3>4. o \in 0 .. Len(source)
      BY <1>11, <2>1
    <3>. QED
      BY <1>16, <3>3, <3>4, LevelKeep
  <2>4. Level(t)' = j
    BY <1>18, <1>19, <1>23 DEF LevelInv
  <2>5. ASSUME NEW k \in o .. t - 1
        PROVE  Level(k)' >= Level(o)' /\ (source'[k] = "else" => Level(k)' # Level(o)')
    <3>1. k \in 1 .. Len(source) /\ k \in 0 .. Len(source) /\ k \in o .. Len(source)
          /\ (k = o \/ k \in o + 1 .. Len(source))
      BY <1>11, <1>24, <2>1
    <3>2. Level(k)' = Level(k) /\ source'[k] = source[k]
      BY <1>16, <3>1, LevelKeep, AddedShape
    <3>. QED
      BY <1>21, <2>1, <2>3, <3>1, <3>2
  <2>. QED
    BY <1>24, <2>2, <2>3, <2>4, <2>5 DEF Elses
<1>26. At(j)' = t
  BY <1>2, <1>6, <1>7, <1>18, <1>24 DEF At
<1>27. OpenInv'
  <2>1. OpenElse(j)'
    BY <1>22, <1>25, <1>26 DEF OpenElse
  <2>. QED
    BY <1>6, <1>16, <1>18, <1>19, <2>1, OpenStep
\* Where the branch of the if leads.
<1>28. PICK u : u = t + 1
  OBVIOUS
<1>29. PICK a : a = Len(code')
  OBVIOUS
<1>30. Starts(u, a)'
  BY <1>23, <1>28, <1>29, StartsNext
<1>31. other[label + 1].address = a
  BY <1>2, <1>4, <1>7, <1>29
<1>32. Lands(b, u)'
  BY <1>9, <1>14, <1>15, <1>30, <1>31, LandsNow
<1>33. Settled(b)'
  <2>1. LandsIf(b)'
    BY <1>21, <1>25, <1>28, <1>32 DEF LandsIf
  <2>2. source'[code'[b].src] = "if"
    BY <1>21, <1>25 DEF Elses
  <2>. QED
    BY <2>1, <2>2 DEF Settled
<1>34. BranchInv'
  <2>1. \A i \in DOMAIN open : \/ open[i].branch \in {0, b}
                               \/ \E k \in DOMAIN open' : open'[k].branch = open[i].branch
    BY <1>3, <1>18
  <2>2. ASSUME NEW i \in Len(code) + 1 .. Len(code')
        PROVE  \E k \in DOMAIN open' : open'[k].branch = i
    <3>1. i = n
      BY <1>2, <1>7
    <3>. QED
      BY <1>6, <1>18, <3>1
  <2>3. \A i \in DOMAIN code : i = b \/ code'[i].label = code[i].label
    BY <1>8
  <2>4. funcs' = funcs /\ phase' = phase /\ "else" # "main"
    BY <1>1
  <2>. QED
    BY <1>16, <1>33, <2>1, <2>2, <2>3, <2>4, BranchStep
<1>35. IfsInv'
  <2>1. ASSUME NEW i \in DOMAIN open, open[i].kind = "if"
        PROVE  \/ \E k \in DOMAIN open' : open'[k].kind = "if" /\ open'[k].branch = open[i].branch
               \/ \E q, f : q = At(i) /\ Elses(q, f)'
    BY <1>18, <1>20, <1>25, <2>1
  <2>. QED
    BY <1>10, <1>16, <2>1, IfsStep
<1>. QED
  BY <1>19, <1>27, <1>34, <1>35 DEF FollowInv

LEMMA FollowEndLoop ==
  ASSUME Around, EndLoop
  PROVE  FollowInv'
<1>. DEFINE top == Last(open)
            updated == IF top.kind = "for" THEN <<"update">> ELSE <<>>
            back == AddLabel(table, top.ret)
            c == code \o Plain(Len(updated), Here)
            src == Here + Len(updated)
            e == Instr("b", LabelAddress(back), src)
            looped == Append(c, e)
            out == AddLabel(back, Len(looped))
            label == LabelAddress(out)
<1>0. IInv /\ Types /\ NamesAll /\ Sizes /\ Sizes'
  BY SizesNow, SizesLater DEF Around
<1>1. /\ open # <<>> /\ top.kind \in {"for", "while"}
      /\ code' = WithLabel(looped, top.branch, label)
      /\ tables' = [tables EXCEPT ![current] = out]
      /\ open' = Front(open) /\ source' = Append(source \o updated, "endloop")
      /\ UNCHANGED <<funcs, current, phase>>
  BY DEF EndLoop, WithLabel
<1>2. /\ top.branch \in DOMAIN code /\ code[top.branch].state = current
      /\ table \in Seq(TableEntries(line)) /\ Len(table) \in Nat
      /\ line = Len(code) /\ line \in Nat /\ DOMAIN code = 1 .. Len(code)
      /\ IsSeq(code) /\ Extends(code, code)
  BY <1>0, <1>1, TopBlock
<1>3. PICK b : b = top.branch
  OBVIOUS
<1>4. PICK n : n = Len(updated)
  OBVIOUS
<1>5. updated \in Seq(Kinds) /\ n \in {0, 1} /\ n \in Nat
      /\ (n = 1 => updated[1] \in {"assign", "update", "loop"})
  <2>1. "update" \in Kinds
    BY DEF Kinds
  <2>2. <<"update">> \in Seq(Kinds) /\ <<>> \in Seq(Kinds) /\ Len(<<>>) = 0
        /\ Len(<<"update">>) = 1 /\ <<"update">>[1] = "update"
    BY <2>1
  <2>3. CASE top.kind = "for"
    <3>1. updated = <<"update">>
      BY <2>3
    <3>. HIDE DEF updated
    <3>. QED
      BY <1>4, <2>2, <3>1
  <2>4. CASE top.kind # "for"
    <3>1. updated = <<>>
      BY <2>4
    <3>. HIDE DEF updated
    <3>. QED
      BY <1>4, <2>2, <3>1
  <2>. QED
    BY <2>3, <2>4
<1>. HIDE DEF updated
\* The code.
<1>6. /\ IsSeq(c) /\ Extends(code, c) /\ Len(c) = Len(code) + n
      /\ \A i \in Len(code) + 1 .. Len(c) : c[i].src = Here /\ c[i].op = "plain"
  <2>1. c = code \o Plain(n, Here)
    BY <1>4
  <2>. HIDE DEF c
  <2>2. n \in Nat /\ IsSeq(code)
    BY <1>2, <1>5
  <2>3. IsSeq(c) /\ Extends(code, c) /\ Len(c) = Len(code) + n
    BY <2>1, <2>2, AddPlain
  <2>4. \A i \in Len(code) + 1 .. Len(c) : c[i].src = Here /\ c[i].op = "plain"
    BY <2>1, <2>2, PlainAdded
  <2>. QED
    BY <2>3, <2>4
<1>7. e.label = LabelAddress(back) /\ e.state = current /\ e.src = Here + n
  BY <1>4 DEF Instr
<1>. HIDE DEF c, e, src
<1>8. Extends(c, looped) /\ IsSeq(looped) /\ Len(looped) = Len(c) + 1 /\ looped[Len(c) + 1] = e
  BY <1>6, AppendExtends DEF Extends
<1>9. Extends(code, looped)
  BY <1>2, <1>6, <1>8, ExtendsTransitive
<1>10. Len(c) \in Nat /\ Len(looped) \in Nat /\ DOMAIN c = 1 .. Len(c)
       /\ DOMAIN looped = 1 .. Len(looped) /\ Len(looped) = Len(code) + n + 1 /\ Len(code) \in Nat
  <2>1. Len(c) \in Nat /\ DOMAIN c = 1 .. Len(c) /\ Len(looped) \in Nat
        /\ DOMAIN looped = 1 .. Len(looped)
    BY <1>6, <1>8 DEF IsSeq
  <2>. QED
    BY <1>2, <1>6, <1>8, <2>1
<1>. HIDE DEF looped, label, top
<1>11. /\ Len(code') = Len(looped) /\ code'[b].label = label
       /\ \A i \in DOMAIN looped : i # b => code'[i] = looped[i]
       /\ \A i \in DOMAIN code : /\ code'[i].op = code[i].op
                                 /\ code'[i].state = code[i].state /\ code'[i].src = code[i].src
                                 /\ i = b \/ code'[i].label = code[i].label
       /\ b \in DOMAIN code /\ code'[b].state = current
  <2>1. code' = WithLabel(looped, b, label)
    BY <1>1, <1>3
  <2>. DEFINE f == WithLabel(looped, b, label)
  <2>2. b \in DOMAIN code /\ code[b].state = current
    BY <1>2, <1>3
  <2>3. /\ Len(f) = Len(looped) /\ f[b].label = label
        /\ \A i \in DOMAIN looped : i # b => f[i] = looped[i]
        /\ \A i \in DOMAIN code : /\ f[i].op = code[i].op
                                  /\ f[i].state = code[i].state /\ f[i].src = code[i].src
                                  /\ i = b \/ f[i].label = code[i].label
    BY <1>0, <1>8, <1>9, <2>2, PatchKeep
  <2>4. code' = f
    BY <2>1
  <2>. HIDE DEF f
  <2>. QED
    BY <2>2, <2>3, <2>4
\* The labels.
<1>12. PICK j : j = Len(open)
  OBVIOUS
<1>13. /\ j \in DOMAIN open /\ top = open[j] /\ j \in Nat /\ Len(open') = Len(open) - 1
       /\ \A i \in DOMAIN open' : i \in DOMAIN open /\ open'[i] = open[i] /\ i # j
       /\ \A i \in DOMAIN open : i = j \/ i \in DOMAIN open'
       /\ phase = "functions" => open' # <<>>
       /\ phase # "done"
  <2>1. /\ Len(open) \in DOMAIN open /\ Last(open) = open[Len(open)] /\ Len(open) \in Nat
        /\ Len(Front(open)) = Len(open) - 1
        /\ \A i \in DOMAIN Front(open) : i \in DOMAIN open /\ Front(open)[i] = open[i] /\ i # Len(open)
        /\ \A i \in DOMAIN open : i = Len(open) \/ i \in DOMAIN Front(open)
        /\ phase = "functions" => Len(open) > 1
        /\ phase # "done"
    BY <1>0, <1>1, FrontOpen DEF top
  <2>2. phase = "functions" => open' # <<>>
    <3>1. phase = "functions" => Len(open') # 0
      BY <1>1, <2>1
    <3>. QED
      BY <3>1
  <2>. QED
    BY <1>1, <1>12, <2>1, <2>2 DEF top
<1>14. top.ret \in 0..line
  BY <1>0, <1>13, Shapes
<1>15. /\ back \in Seq(TableEntries(line)) /\ Len(back) = Len(table) + 1
       /\ \A k \in 1 .. Len(table) : back[k] = table[k]
       /\ back[Len(table) + 1].address = top.ret
       /\ LabelAddress(back) = Len(table)
  BY <1>2, <1>14, OneLabel
<1>. HIDE DEF back
<1>16. back \in Seq(TableEntries(Len(looped))) /\ Len(looped) \in 0 .. Len(looped)
  <2>1. TableEntries(line) \subseteq TableEntries(Len(looped))
    BY <1>2, <1>5, <1>10 DEF TableEntries
  <2>. QED
    BY <1>10, <1>15, <2>1, SeqMonotonic
<1>17. /\ out \in Seq(TableEntries(Len(looped))) /\ Len(out) = Len(back) + 1
       /\ \A k \in 1 .. Len(back) : out[k] = back[k]
       /\ out[Len(back) + 1].address = Len(looped)
       /\ label = Len(back)
  BY <1>10, <1>16, OneLabel DEF label
<1>. HIDE DEF out
<1>18. /\ Len(out) = Len(table) + 2 /\ DOMAIN out = 1 .. Len(out) /\ Len(out) \in Nat
       /\ Len(out) >= Len(table) /\ label + 1 \in DOMAIN out /\ Len(table) + 1 \in DOMAIN out
       /\ Len(back) = Len(table) + 1 /\ out[Len(table) + 1].address = top.ret
       /\ out[label + 1].address = Len(looped)
       /\ \A k \in 1 .. Len(table) : out[k] = table[k]
  <2>1. Len(out) = Len(table) + 2 /\ DOMAIN out = 1 .. Len(out) /\ Len(back) = Len(table) + 1
    BY <1>2, <1>15, <1>17
  <2>2. Len(table) + 1 \in 1 .. Len(back) /\ \A k \in 1 .. Len(table) : k \in 1 .. Len(back)
    BY <1>2, <2>1
  <2>3. \A k \in 1 .. Len(table) : out[k] = table[k]
    BY <1>15, <1>17, <2>2
  <2>4. out[Len(table) + 1].address = top.ret /\ out[label + 1].address = Len(looped)
    BY <1>15, <1>17, <2>2
  <2>5. Len(out) \in Nat /\ Len(out) >= Len(table) /\ label + 1 \in DOMAIN out
        /\ Len(table) + 1 \in DOMAIN out
    BY <1>2, <1>17, <2>1
  <2>. QED
    BY <2>1, <2>3, <2>4, <2>5
\* What the step adds.
<1>19. "endloop" \in Kinds /\ "endloop" \notin Bare /\ "endloop" \in Closer
       /\ "endloop" \notin {"start", "main", "halt", "def", "enddef", "if", "else"} \cup Opener
  BY DEF Kinds, Bare, Closer, Opener
<1>20. ReadsParts(n, "endloop")
  BY <1>0, <1>1, <1>4, <1>5, <1>19, PartsRead
<1>21. \A i \in Len(code) + 1 .. Len(code') : i # b /\ i \in DOMAIN looped /\ code'[i] = looped[i]
  <2>1. ASSUME NEW i \in Len(code) + 1 .. Len(code') PROVE i # b /\ i \in DOMAIN looped
    <3>1. b \in 1 .. Len(code)
      BY <1>2, <1>11
    <3>2. Len(code') = Len(looped)
      BY <1>11
    <3>. QED
      BY <1>10, <3>1, <3>2
  <2>. QED
    BY <1>11, <2>1
<1>22. AddsCode(n, "endloop")
  <2>1. Len(code') >= Len(code) + n /\ Len(code') # Len(code) + n
    <3>1. Len(code') = Len(code) + n + 1
      BY <1>10, <1>11
    <3>. QED
      BY <1>5, <1>10, <3>1
  <2>2. ASSUME NEW i \in Len(code) + 1 .. Len(code) + n PROVE code'[i].src = Here
    <3>1. i \in DOMAIN c /\ i \in Len(code) + 1 .. Len(c) /\ i \in Len(code) + 1 .. Len(code')
      <4>1. Len(c) = Len(code) + n /\ Len(code') = Len(code) + n + 1
        BY <1>6, <1>10, <1>11
      <4>. QED
        BY <1>5, <1>10, <4>1
    <3>2. code'[i] = c[i]
      BY <1>8, <1>21, <3>1 DEF Extends
    <3>. QED
      BY <1>6, <3>1, <3>2
  <2>3. ASSUME NEW i \in Len(code) + n + 1 .. Len(code') PROVE code'[i].src = Here + n
    <3>1. i = Len(c) + 1 /\ i \in Len(code) + 1 .. Len(code')
      <4>1. Len(c) = Len(code) + n /\ Len(code') = Len(code) + n + 1
        BY <1>6, <1>10, <1>11
      <4>. QED
        BY <1>5, <1>10, <4>1
    <3>. QED
      BY <1>7, <1>8, <1>21, <3>1
  <2>. QED
    BY <1>11, <1>19, <2>1, <2>2, <2>3 DEF AddsCode
<1>23. AddsEntries /\ tables'[current] = out
  BY <1>0, <1>1, <1>18, EntriesGrow
<1>24. Added(n, "endloop")
  BY <1>20, <1>22, <1>23 DEF Added
\* The blocks that stay open.
<1>25. LevelInv' /\ CodedInv' /\ OrderInv' /\ DefsInv' /\ MainInv'
  <2>1. \A i \in DOMAIN open' : open'[i].kind = "def" => i \in DOMAIN open /\ open[i].kind = "def"
    BY <1>13
  <2>. QED
    BY <1>1, <1>13, <1>19, <1>24, <2>1, FollowGrow
<1>26. OpenInv'
  BY <1>13, <1>19, <1>24, <1>25, OpenStep
\* The loop and its end.
<1>27. PICK o : o = At(j)
  OBVIOUS
<1>28. /\ Opened(o, j) /\ source[o] \in {"while", "for"} /\ Starts(o, top.ret)
       /\ o = code[b].src /\ code'[b].src = o
       /\ o \in 1 .. Len(source) /\ o \in 1 .. Len(source) + 1 /\ source'[o] = source[o]
  <2>1. OpenLoop(j)
    BY <1>1, <1>13 DEF Around, FollowInv, OpenInv
  <2>2. o = code[b].src /\ code'[b].src = o
    BY <1>3, <1>11, <1>13, <1>27 DEF At
  <2>3. Opened(o, j) /\ source[o] \in {"while", "for"} /\ Starts(o, top.ret)
    BY <1>13, <1>27, <2>1 DEF OpenLoop
  <2>4. o \in 1 .. Len(source) /\ Len(source) \in Nat
    BY <1>0, <2>3 DEF Opened, Sizes
  <2>5. o \in 1 .. Len(source) + 1 /\ source'[o] = source[o]
    BY <1>24, <2>4, AddedShape
  <2>. QED
    BY <2>2, <2>3, <2>4, <2>5
<1>29. PICK t : t = Len(source')
  OBVIOUS
<1>30. Ends(o, t)'
  BY <1>1, <1>12, <1>13, <1>24, <1>25, <1>28, <1>29, EndsTop
<1>31. t = Here + n /\ source'[t] = "endloop"
  BY <1>20, <1>24, <1>29, AddedShape DEF ReadsParts
\* Where the branch out of it leads.
<1>32. PICK u : u = t + 1
  OBVIOUS
<1>33. PICK a : a = Len(code')
  OBVIOUS
<1>34. Starts(u, a)'
  BY <1>29, <1>32, <1>33, StartsNext
<1>35. out[label + 1].address = a
  BY <1>11, <1>18, <1>33
<1>36. Lands(b, u)'
  BY <1>11, <1>18, <1>23, <1>34, <1>35, LandsNow
<1>37. Settled(b)'
  <2>1. LandsLoop(b)'
    BY <1>28, <1>30, <1>31, <1>32, <1>36 DEF LandsLoop
  <2>. QED
    BY <1>28, <2>1 DEF Settled
\* Where the branch back leads.
<1>38. PICK r : r = top.ret
  OBVIOUS
<1>39. Starts(o, r)'
  BY <1>24, <1>28, <1>38, StartsKeep
<1>40. ASSUME NEW i \in Len(code) + 1 .. Len(code') PROVE i \notin Branches' \/ Settled(i)'
  <2>1. CASE i <= Len(c)
    <3>1. i \in DOMAIN c /\ i \in Len(code) + 1 .. Len(c)
      BY <1>10, <2>1
    <3>2. code'[i] = c[i]
      BY <1>8, <1>21, <3>1 DEF Extends
    <3>3. code'[i].op = "plain"
      BY <1>6, <3>1, <3>2
    <3>. QED
      BY <3>3 DEF Branches
  <2>2. CASE i > Len(c)
    <3>1. i = Len(c) + 1
      <4>1. Len(code') = Len(c) + 1
        BY <1>8, <1>11
      <4>. QED
        BY <1>10, <2>2, <4>1
    <3>2. code'[i].label = Len(table) /\ code'[i].state = current /\ code'[i].src = t
      BY <1>7, <1>8, <1>15, <1>21, <1>31, <3>1
    <3>3. Lands(i, o)'
      BY <1>18, <1>23, <1>38, <1>39, <3>2, LandsNow
    <3>4. LandsBack(i)'
      BY <1>28, <1>30, <3>2, <3>3 DEF LandsBack
    <3>. QED
      BY <1>31, <3>2, <3>4 DEF Settled
  <2>. QED
    BY <1>10, <2>1, <2>2
<1>41. BranchInv'
  <2>1. \A i \in DOMAIN open : \/ open[i].branch \in {0, b}
                               \/ \E k \in DOMAIN open' : open'[k].branch = open[i].branch
    BY <1>3, <1>13
  <2>. QED
    BY <1>1, <1>11, <1>19, <1>24, <1>37, <1>40, <2>1, BranchStep
<1>42. IfsInv'
  <2>1. \A i \in DOMAIN open : open[i].kind = "if" =>
          \E k \in DOMAIN open' : open'[k].kind = "if" /\ open'[k].branch = open[i].branch
    BY <1>1, <1>13
  <2>. QED
    BY <1>19, <1>24, <2>1, IfsStep
<1>. QED
  BY <1>25, <1>26, <1>41, <1>42 DEF FollowInv

LEMMA FollowFinish ==
  ASSUME Around, Finish
  PROVE  FollowInv'
<1>1. /\ phase = "main" /\ open = <<>> /\ phase' = "done"
      /\ code' = Append(code, Instr("halt", 0, Here))
      /\ source' = Append(source, "halt") /\ UNCHANGED <<tables, funcs, current, open>>
  BY DEF Finish
<1>2. IInv /\ Types /\ Sizes /\ "halt" \in Kinds /\ "halt" \notin Bare
      /\ "halt" \notin {"start", "main", "def", "enddef", "if", "else"} \cup Opener \cup Closer
  BY SizesNow DEF Around, Kinds, Bare, Opener, Closer
<1>3. /\ AddsCode(0, "halt") /\ Extends(code, code') /\ Len(code') = Len(code) + 1
      /\ code'[Len(code) + 1].op = "halt"
  BY <1>1, <1>2, InstrAdded
<1>4. Added(0, "halt")
  <2>1. ReadsParts(0, "halt")
    BY <1>1, <1>2, PartRead
  <2>. QED
    BY <1>1, <1>2, <1>3, <2>1, EntriesSame DEF Added, Sizes
<1>5. \A j : j \in DOMAIN open' \/ j \in DOMAIN open => FALSE
  BY <1>1
<1>6. LevelInv'
  BY <1>1, <1>2, <1>4, LevelStep
<1>7. CodedInv'
  BY <1>2, <1>4, CodedStep
<1>8. OrderInv'
  <2>1. Last(source) # "enddef"
    BY <1>1 DEF Around, FollowInv, OrderInv
  <2>. QED
    BY <1>1, <1>2, <1>3, <1>4, <2>1, OrderStep
<1>9. DefsInv'
  BY <1>1, <1>2, <1>4, <1>5, DefsStep
<1>10. MainInv'
  BY <1>1, <1>2, <1>4, MainStep
<1>11. OpenInv'
  BY <1>5 DEF OpenInv
<1>12. BranchInv'
  <2>1. PICK b : b = 0
    OBVIOUS
  <2>2. b \notin DOMAIN code
    BY <1>2, <2>1 DEF Sizes
  <2>3. \A i \in DOMAIN code : code'[i].label = code[i].label
    BY <1>3 DEF Extends
  <2>4. ASSUME NEW i \in Len(code) + 1 .. Len(code') PROVE i \notin Branches'
    <3>1. i = Len(code) + 1
      BY <1>2, <1>3 DEF Sizes
    <3>. QED
      BY <1>3, <3>1 DEF Branches
  <2>. QED
    BY <1>1, <1>4, <1>5, <2>2, <2>3, <2>4, BranchStep
<1>13. IfsInv'
  BY <1>2, <1>4, <1>5, IfsStep
<1>. QED
  BY <1>6, <1>7, <1>8, <1>9, <1>10, <1>11, <1>12, <1>13 DEF FollowInv

LEMMA FollowClose ==
  ASSUME Around, EndFunction
  PROVE  FollowInv'
<1>1. /\ open # <<>> /\ Last(open).kind = "def" /\ open' = <<>>
      /\ source' = Append(source, "enddef") /\ UNCHANGED <<code, tables, funcs, phase>>
  BY DEF EndFunction
<1>2. IInv /\ Types /\ Sizes /\ "enddef" \in Kinds /\ "enddef" \in Bare /\ "enddef" \in Closer
      /\ "enddef" \notin {"start", "main", "def", "halt", "if", "else"} \cup Opener
  BY SizesNow DEF Around, Kinds, Bare, Opener, Closer
<1>3. Added(0, "enddef")
  <2>1. AddsCode(0, "enddef")
    BY <1>1, <1>2, NothingAdded
  <2>2. ReadsParts(0, "enddef")
    BY <1>1, <1>2, PartRead
  <2>. QED
    BY <1>1, <1>2, <2>1, <2>2, EntriesSame DEF Added, Sizes
\* It is the only block.
<1>4. /\ Len(open) = 1 /\ Len(funcs) > 0 /\ phase = "functions"
      /\ \A j \in DOMAIN open : open[j].kind = "def" /\ open[j].branch = 0
  <2>1. /\ Len(open) \in Nat /\ DOMAIN open = 1 .. Len(open) /\ Last(open) = open[Len(open)]
    BY <1>2 DEF Sizes, Last
  <2>2. Len(open) \in DOMAIN open
    <3>1. open \in Seq(Blocks(line))
      BY <1>2 DEF Types
    <3>. QED
      BY <1>1, <3>1
  <2>3. Len(open) = 1 /\ open[Len(open)].branch = 0
    BY <1>1, <2>1, <2>2 DEF Around, NamesAll, BlocksInv
  <2>4. \A j \in DOMAIN open : j = Len(open)
    BY <2>1, <2>3
  <2>5. Len(funcs) > 0 /\ phase = "functions"
    BY <1>1, <2>1, <2>2 DEF Around, FollowInv, DefsInv
  <2>. QED
    BY <1>1, <2>1, <2>3, <2>4, <2>5
<1>5. \A j : j \in DOMAIN open' => FALSE
  BY <1>1
<1>6. LevelInv'
  <2>1. Len(open') = Len(open) - 1
    BY <1>1, <1>4
  <2>. QED
    BY <1>2, <1>3, <2>1, LevelStep
<1>7. CodedInv'
  BY <1>2, <1>3, CodedStep
<1>8. OrderInv'
  <2>1. Last(source) # "enddef"
    BY <1>1 DEF Around, FollowInv, OrderInv
  <2>. QED
    BY <1>1, <1>2, <1>3, <1>4, <2>1, OrderStep
<1>9. DefsInv'
  BY <1>1, <1>2, <1>3, <1>4, <1>5, DefsStep
<1>10. MainInv'
  BY <1>1, <1>2, <1>3, MainStep
<1>11. OpenInv'
  BY <1>5 DEF OpenInv
<1>12. BranchInv'
  <2>1. PICK b : b = 0
    OBVIOUS
  <2>2. b \notin DOMAIN code /\ \A i \in Len(code) + 1 .. Len(code') : FALSE
    BY <1>1, <1>2, <2>1 DEF Sizes
  <2>. QED
    BY <1>1, <1>3, <1>4, <2>2, BranchStep
<1>13. IfsInv'
  BY <1>2, <1>3, <1>4, IfsStep
<1>. QED
  BY <1>6, <1>7, <1>8, <1>9, <1>10, <1>11, <1>12, <1>13 DEF FollowInv

LEMMA FollowDefine ==
  ASSUME Around, NEW name \in Functions, FunctionDef(name), TablesGrow
  PROVE  FollowInv'
<1>. DEFINE p == [kind |-> "def", ret |-> 0, branch |-> 0]
            f == [name |-> <<name, 0>>, address |-> line]
<1>1. /\ open = <<>> /\ phase = "functions" /\ open' = <<p>> /\ source' = Append(source, "def")
      /\ funcs' = Append(funcs, f) /\ UNCHANGED <<code, phase>>
  BY DEF FunctionDef, AddName
<1>2. IInv /\ Types /\ NamesAll /\ Sizes /\ Sizes' /\ "def" \in Kinds /\ "def" \in Bare /\ "def" \in Opener
      /\ "def" \notin {"start", "main", "enddef", "halt", "if", "else"} \cup Closer
  BY SizesNow, SizesLater DEF Around, Kinds, Bare, Opener, Closer
<1>3. p.kind = "def" /\ f.address = line
  OBVIOUS
<1>. HIDE DEF p, f
<1>4. /\ Len(funcs') = Len(funcs) + 1 /\ funcs'[Len(funcs')] = f /\ Len(funcs) \in Nat
      /\ \A k \in DOMAIN funcs : funcs'[k] = funcs[k]
  <2>1. IsSeq(funcs)
    BY <1>2 DEF IInv, TablesInv
  <2>. QED
    BY <1>1, <1>2, <2>1, AppendExtends DEF Extends, Sizes
<1>5. AddsEntries
  <2>1. \A s \in 0 .. Len(funcs) : s \in States /\ DOMAIN tables[s] \subseteq DOMAIN tables'[s]
    BY <1>2, NamesDef, Shapes DEF NamesAll
  <2>2. Len(funcs') >= Len(funcs)
    BY <1>4
  <2>. QED
    BY <1>4, <2>1, <2>2 DEF AddsEntries, TablesGrow
<1>6. Added(0, "def")
  <2>1. AddsCode(0, "def")
    BY <1>1, <1>2, NothingAdded
  <2>2. ReadsParts(0, "def")
    BY <1>1, <1>2, PartRead
  <2>. QED
    BY <1>5, <2>1, <2>2 DEF Added
<1>7. /\ Len(open') = 1 /\ Len(open) = 0 /\ open' # <<>>
      /\ \A j \in DOMAIN open' : open'[j].kind = "def"
      /\ \A j : j \in DOMAIN open => FALSE
  BY <1>1, <1>3
<1>8. LevelInv'
  <2>1. Len(open') = Len(open) + 1
    BY <1>7
  <2>. QED
    BY <1>2, <1>6, <2>1, LevelStep
<1>9. CodedInv'
  BY <1>2, <1>6, CodedStep
<1>10. OrderInv'
  <2>1. Last(source) \in {"start", "enddef"}
    BY <1>1 DEF Around, FollowInv, OrderInv
  <2>2. source'[Here] \in {"def", "main"}
    BY <1>1, <1>2, AddPart
  <2>. QED
    BY <1>1, <1>2, <1>6, <1>7, <2>1, <2>2, OrderStep
<1>11. DefsInv'
  <2>1. funcs'[Len(funcs')].address = Len(code') /\ Len(funcs') > 0
    BY <1>1, <1>2, <1>3, <1>4 DEF Sizes
  <2>. QED
    BY <1>1, <1>2, <1>4, <1>6, <2>1, DefsStep
<1>12. MainInv'
  BY <1>1, <1>2, <1>6, MainStep
<1>13. OpenInv'
  BY <1>2, <1>6, <1>7, <1>8, OpenStep
<1>14. BranchInv'
  <2>1. PICK b : b = 0
    OBVIOUS
  <2>2. b \notin DOMAIN code /\ \A i \in Len(code) + 1 .. Len(code') : FALSE
    BY <1>1, <1>2, <2>1 DEF Sizes
  <2>. QED
    BY <1>1, <1>6, <1>7, <2>2, BranchStep
<1>15. IfsInv'
  BY <1>2, <1>6, <1>7, IfsStep
<1>. QED
  BY <1>8, <1>9, <1>10, <1>11, <1>12, <1>13, <1>14, <1>15 DEF FollowInv

LEMMA FollowStart ==
  ASSUME Around, StartMain, TablesGrow
  PROVE  FollowInv'
<1>. DEFINE label == Len(tables'[0]) - 1
            c == WithLabel(code, 1, label)
            e == Instr("plain", 0, Here)
            q == [name |-> MAIN, address |-> line]
<1>1. /\ open = <<>> /\ phase = "functions" /\ phase' = "main" /\ code' = Append(c, e)
      /\ tables' = [tables EXCEPT ![0] = Append(@, q)]
      /\ UNCHANGED <<funcs, current, open>> /\ source' = Append(source, "main")
  BY DEF StartMain, WithLabel, LabelAddress, AddName
<1>2. IInv /\ Types /\ NamesAll /\ Sizes /\ Sizes' /\ "main" \in Kinds /\ "main" \notin Bare
      /\ "main" \notin {"start", "def", "enddef", "halt", "if", "else"} \cup Opener \cup Closer
  BY SizesNow, SizesLater DEF Around, Kinds, Bare, Opener, Closer
<1>3. e.op = "plain" /\ e.src = Here /\ q.address = line
  BY DEF Instr
<1>. HIDE DEF label, e, q
\* The table of main's State.
<1>4. Len(funcs) \in Nat /\ Len(tables'[0]) = Len(funcs) + 1 /\ tables'[0][Len(funcs) + 1] = q
      /\ Len(funcs) + 1 \in DOMAIN tables'[0]
  <2>1. Len(tables[0]) = Len(funcs) /\ Len(funcs) \in Nat /\ 0 \in 0 .. Len(funcs)
    BY <1>1, <1>2 DEF NamesAll, NamesInv, OwnEntries, Sizes
  <2>2. IsSeq(tables[0]) /\ 0 \in States /\ tables = [s \in States |-> tables[s]]
    BY <1>2, <2>1, Shapes DEF IInv, TablesInv
  <2>. DEFINE t == Append(tables[0], q)
  <2>3. tables'[0] = t
    BY <1>1, <2>2
  <2>4. IsSeq(t) /\ Len(t) = Len(tables[0]) + 1 /\ t[Len(tables[0]) + 1] = q
    BY <2>2, AppendExtends DEF Extends
  <2>. HIDE DEF t
  <2>5. Len(funcs) + 1 \in DOMAIN t
    BY <2>1, <2>4 DEF IsSeq
  <2>. QED
    BY <2>1, <2>3, <2>4, <2>5
<1>5. AddsEntries
  <2>1. \A s \in 0 .. Len(funcs) : s \in States /\ DOMAIN tables[s] \subseteq DOMAIN tables'[s]
    BY <1>2, NamesMain, Shapes DEF NamesAll
  <2>2. Len(funcs') >= Len(funcs) /\ \A k \in DOMAIN funcs : funcs'[k] = funcs[k]
    BY <1>1, <1>4
  <2>. QED
    BY <2>1, <2>2 DEF AddsEntries, TablesGrow
\* The code.
<1>6. 1 \in DOMAIN code /\ IsSeq(code) /\ Extends(code, code) /\ Len(code) \in Nat
      /\ DOMAIN code = 1 .. Len(code)
  BY <1>2, Shapes DEF IInv, CodeInv, Extends
<1>7. /\ IsSeq(c) /\ Len(c) = Len(code) /\ c[1].label = label
      /\ \A i \in DOMAIN code : /\ i \in DOMAIN c /\ c[i].op = code[i].op
                                /\ c[i].state = code[i].state /\ c[i].src = code[i].src
                                /\ i = 1 \/ c[i].label = code[i].label
  BY <1>2, <1>6, PatchKeep
<1>. HIDE DEF c
<1>8. Extends(c, code') /\ Len(code') = Len(code) + 1 /\ code'[Len(code) + 1] = e
  BY <1>1, <1>7, AppendExtends
<1>9. /\ \A i \in DOMAIN code : /\ code'[i].op = code[i].op
                                /\ code'[i].state = code[i].state /\ code'[i].src = code[i].src
                                /\ i = 1 \/ code'[i].label = code[i].label
      /\ code'[1].label = label
  BY <1>6, <1>7, <1>8 DEF Extends
<1>10. Here = Len(source) + 1 /\ Here + 0 = Here /\ Len(source) \in Nat
  BY <1>2 DEF Here, Sizes
<1>11. AddsCode(0, "main")
  <2>1. Len(code') >= Len(code) + 0 /\ Len(code') # Len(code) + 0
    <3>1. Len(code') = Len(code) + 1 /\ Len(code) \in Nat
      BY <1>6, <1>8
    <3>. QED
      BY <3>1
  <2>2. \A i \in Len(code) + 1 .. Len(code) + 0 : FALSE
    BY <1>6
  <2>3. ASSUME NEW i \in Len(code) + 0 + 1 .. Len(code') PROVE code'[i].src = Here
    <3>1. i = Len(code) + 1
      BY <1>6, <1>8
    <3>. QED
      BY <1>3, <1>8, <3>1
  <2>. QED
    BY <1>2, <1>9, <1>10, <2>1, <2>2, <2>3 DEF AddsCode
<1>12. ReadsParts(0, "main")
  BY <1>1, <1>2, PartRead
<1>13. Added(0, "main")
  BY <1>5, <1>11, <1>12 DEF Added
<1>14. \A j : j \in DOMAIN open' \/ j \in DOMAIN open => FALSE
  BY <1>1
<1>15. LevelInv'
  BY <1>1, <1>2, <1>13, LevelStep
<1>16. CodedInv'
  BY <1>2, <1>13, CodedStep
<1>17. OrderInv'
  <2>1. source'[Here] = "main"
    BY <1>1, <1>2, AddPart
  <2>. QED
    BY <1>1, <1>2, <1>13, <2>1, OrderStep
<1>18. DefsInv'
  BY <1>1, <1>2, <1>13, <1>14, DefsStep
\* Where main is.
<1>19. PICK m : m = Len(source)
  OBVIOUS
<1>20. PICK u : u = m + 1
  OBVIOUS
<1>21. u = Here /\ u = Len(source') /\ m \in Nat /\ Defs(u)' = Len(funcs')
  <2>1. m \in Nat /\ Len(source') = m + 0 + 1 /\ Defs(m + 0 + 1)' = Defs(m)
    BY <1>2, <1>13, <1>19, LevelAdded
  <2>2. m + 0 + 1 = u /\ u = Here
    BY <1>10, <1>19, <1>20, <2>1
  <2>3. Defs(m) = Len(funcs)
    BY <1>19 DEF Around, FollowInv, DefsInv
  <2>. QED
    BY <1>1, <2>1, <2>2, <2>3
<1>22. PICK a : a = line
  OBVIOUS
<1>23. Starts(u, a)'
  <2>1. u = Here + 0 /\ a = Len(code) + 0
    BY <1>2, <1>6, <1>10, <1>21, <1>22 DEF Sizes
  <2>. QED
    BY <1>13, <2>1, StartsAdded
<1>24. Entry(0)' = a
  BY <1>1, <1>3, <1>4, <1>22 DEF Entry, Begin
<1>25. source'[u] = "main" /\ u \in DOMAIN source'
  <2>1. source'[Here + 0] = "main"
    BY <1>12 DEF ReadsParts
  <2>2. u \in 1 .. Len(source')
    BY <1>20, <1>21
  <2>. QED
    BY <1>2, <1>10, <1>21, <2>1, <2>2 DEF Sizes
<1>26. ASSUME NEW k \in DOMAIN source', source'[k] = "main" PROVE k = u
  <2>1. k \in 1 .. Len(source')
    BY <1>2, <1>26 DEF Sizes
  <2>2. k \in 1 .. Len(source) \/ k = Here \/ k = Here + 0
    BY <1>13, <2>1, AddedShape
  <2>3. ASSUME k \in 1 .. Len(source) PROVE FALSE
    <3>1. source'[k] = source[k] /\ k \in DOMAIN source
      BY <1>2, <1>13, <2>3, AddedShape DEF Sizes
    <3>. QED
      BY <1>1, <1>26, <3>1 DEF Around, FollowInv, MainInv
  <2>. QED
    BY <1>10, <1>21, <2>2, <2>3
<1>27. IsMain(u)'
  BY <1>21, <1>23, <1>24, <1>25, <1>26 DEF IsMain
<1>28. MainInv'
  BY <1>1, <1>27 DEF MainInv
<1>29. OpenInv'
  BY <1>14 DEF OpenInv
\* The branch to it.
<1>30. Lands(1, u)'
  <2>1. code'[1].state = 0
    BY <1>2, <1>6, <1>9 DEF NamesAll, AimInv
  <2>2. label + 1 = Len(funcs) + 1
    BY <1>4 DEF label
  <2>3. current = 0
    BY <1>1, <1>2 DEF NamesAll, BlocksInv
  <2>4. code'[1].label + 1 \in DOMAIN tables'[0] /\ tables'[0][code'[1].label + 1].address = a
    BY <1>3, <1>4, <1>9, <1>22, <2>2
  <2>. QED
    BY <1>23, <2>1, <2>3, <2>4, LandsNow
<1>31. Settled(1)'
  <2>1. LandsStart(1)'
    BY <1>27, <1>30 DEF LandsStart
  <2>2. source'[code'[1].src] = "start"
    BY <1>16 DEF CodedInv
  <2>. QED
    BY <2>1, <2>2 DEF Settled
<1>32. BranchInv'
  <2>1. PICK b : b = 1
    OBVIOUS
  <2>2. Settled(b)' /\ \A i \in DOMAIN code : i = b \/ code'[i].label = code[i].label
    BY <1>9, <1>31, <2>1
  <2>3. ASSUME NEW i \in Len(code) + 1 .. Len(code') PROVE i \notin Branches'
    <3>1. i = Len(code) + 1
      BY <1>6, <1>8
    <3>. QED
      BY <1>3, <1>8, <3>1 DEF Branches
  <2>. QED
    BY <1>1, <1>13, <1>14, <2>1, <2>2, <2>3, BranchStep
<1>33. IfsInv'
  BY <1>2, <1>13, <1>14, IfsStep
<1>. QED
  BY <1>15, <1>16, <1>17, <1>18, <1>28, <1>29, <1>32, <1>33 DEF FollowInv

LEMMA FollowInit == Init => FollowInv
<1>. SUFFICES ASSUME Init PROVE FollowInv
  OBVIOUS
<1>. DEFINE e == [op |-> "b", label |-> 0, state |-> 0, src |-> 1]
<1>1. /\ code = <<e>> /\ funcs = <<>> /\ open = <<>> /\ phase = "functions" /\ source = <<"start">>
      /\ e.src = 1 /\ e.op = "b"
  BY DEF Init
<1>. HIDE DEF e
<1>2. /\ DOMAIN code = {1} /\ code[1] = e /\ Len(code) = 1 /\ DOMAIN source = {1} /\ source[1] = "start"
      /\ Len(source) = 1 /\ Len(open) = 0 /\ Len(funcs) = 0
      /\ \A j : j \in DOMAIN open => FALSE
  BY <1>1
<1>3. Last(source) = "start"
  BY <1>2 DEF Last
<1>4. Level(0) = 0 /\ Level(1) = 0 /\ Defs(0) = 0 /\ Defs(1) = 0
  <2>1. source[0 + 1] \notin Opener \cup Closer /\ source[0 + 1] # "def"
    BY <1>2 DEF Opener, Closer
  <2>2. /\ 0 \in Nat /\ Level(0) = 0 /\ Defs(0) = 0 /\ Level(0 + 1) = Level(0) /\ Defs(0 + 1) = Defs(0)
    BY <2>1, LevelNext
  <2>. QED
    BY <2>2
<1>5. LevelInv
  BY <1>2, <1>4 DEF LevelInv
<1>6. CodedInv
  BY <1>1, <1>2 DEF CodedInv, Bare
<1>7. OrderInv
  BY <1>1, <1>2, <1>3 DEF OrderInv
<1>8. DefsInv
  BY <1>2, <1>4 DEF DefsInv
<1>9. MainInv
  BY <1>1, <1>2 DEF MainInv
<1>10. OpenInv
  BY <1>2 DEF OpenInv
<1>11. BranchInv
  BY <1>1, <1>2 DEF BranchInv, Branches
<1>12. IfsInv
  BY <1>2 DEF IfsInv
<1>. QED
  BY <1>5, <1>6, <1>7, <1>8, <1>9, <1>10, <1>11, <1>12 DEF FollowInv

LEMMA FollowStutter ==
  ASSUME FollowInv, UNCHANGED vars
  PROVE  FollowInv'
<1>0. UNCHANGED <<code, tables, funcs, open, phase, source, current>> /\ line' = line
  BY DEF vars, line
<1>1. /\ \A e : Level(e)' = Level(e) /\ Defs(e)' = Defs(e)
      /\ \A t, a : Starts(t, a)' <=> Starts(t, a)
      /\ \A m : IsMain(m)' <=> IsMain(m)
  <2>1. \A e : Level(e)' = Level(e) /\ Defs(e)' = Defs(e)
    BY <1>0 DEF Level, Depth, Defs
  <2>2. \A t, a : Starts(t, a)' <=> Starts(t, a)
    BY <1>0 DEF Starts
  <2>3. Entry(0)' = Entry(0)
    BY <1>0 DEF Entry, Begin
  <2>4. ASSUME NEW m PROVE IsMain(m)' <=> IsMain(m)
    <3>1. Starts(m, Entry(0))' <=> Starts(m, Entry(0))
      BY <1>0, <2>3 DEF Starts
    <3>. QED
      BY <1>0, <2>1, <3>1 DEF IsMain
  <2>. QED
    BY <2>1, <2>2, <2>4
<1>2. \A o, e : /\ Ends(o, e)' <=> Ends(o, e)
                /\ Elses(o, e)' <=> Elses(o, e)
  BY <1>0, <1>1 DEF Ends, Elses
<1>3. /\ \A o, j : Opened(o, j)' <=> Opened(o, j)
      /\ \A j : At(j)' = At(j)
  BY <1>0, <1>1 DEF Opened, At
<1>4. \A j : /\ OpenIf(j)' <=> OpenIf(j)
             /\ OpenLoop(j)' <=> OpenLoop(j)
             /\ OpenElse(j)' <=> OpenElse(j)
  BY <1>0, <1>1, <1>2, <1>3 DEF OpenIf, OpenLoop, OpenElse
<1>5. \A i : Settled(i)' <=> Settled(i)
  BY <1>0, <1>1, <1>2
     DEF Settled, LandsStart, LandsIf, LandsLoop, LandsElse, LandsBack, LandsCall, Lands, Aimed,
         AddressOfLabel, NameOfLabel
<1>6. LevelInv' /\ CodedInv' /\ OrderInv' /\ DefsInv' /\ MainInv'
  BY <1>0, <1>1 DEF FollowInv, LevelInv, CodedInv, OrderInv, DefsInv, MainInv
<1>7. OpenInv' /\ BranchInv' /\ IfsInv'
  BY <1>0, <1>2, <1>3, <1>4, <1>5 DEF FollowInv, OpenInv, BranchInv, Branches, IfsInv
<1>. QED
  BY <1>6, <1>7 DEF FollowInv

LEMMA FollowNext == IInv /\ Types /\ NamesAll /\ FollowInv /\ [Next]_vars => FollowInv'
<1>. SUFFICES ASSUME IInv, Types, NamesAll, FollowInv, [Next]_vars PROVE FollowInv'
  OBVIOUS
<1>0. Around /\ TablesGrow
  BY NextInvariant, TypesNext, NamesNext DEF Around
<1>1. ASSUME NEW name \in Functions, FunctionDef(name) PROVE FollowInv'
  BY <1>0, <1>1, FollowDefine
<1>2. ASSUME StartMain PROVE FollowInv'
  BY <1>0, <1>2, FollowStart
<1>3. ASSUME NEW n \in EvalLines, For(n) \/ While(n) \/ If(n) PROVE FollowInv'
  <2>. DEFINE none == <<>>
              one == <<"assign">>
  <2>1. /\ none \in Seq(Kinds) /\ Len(none) = 0
        /\ one \in Seq(Kinds) /\ Len(one) = 1 /\ one[1] = "assign"
    BY DEF Kinds
  <2>2. OpenBlock("for", n, one) \/ OpenBlock("while", n, none) \/ OpenBlock("if", n, none)
    BY <1>3 DEF For, While, If
  <2>. HIDE DEF none, one
  <2>6. Len(none) \in {0, 1} /\ Len(one) \in {0, 1} /\ ~(Len(none) = 1)
    BY <2>1
  <2>7. ASSUME NEW kind \in {"if", "while", "for"}, OpenBlock(kind, n, none) PROVE FollowInv'
    BY <1>0, <2>1, <2>6, <2>7, FollowOpen
  <2>3. CASE OpenBlock("for", n, one)
    BY <1>0, <2>1, <2>3, FollowOpen
  <2>4. CASE OpenBlock("while", n, none)
    BY <2>4, <2>7
  <2>5. CASE OpenBlock("if", n, none)
    BY <2>5, <2>7
  <2>. QED
    BY <2>2, <2>3, <2>4, <2>5
<1>4. ASSUME Flow("break") \/ Flow("continue") PROVE FollowInv'
  BY <1>0, <1>4, FollowFlow
<1>. QED
  BY <1>0, <1>1, <1>2, <1>3, <1>4, FollowClose, FollowFinish, FollowAssign, FollowCallLoop,
     FollowReturnLoop, FollowReturn, FollowEndLoop, FollowElse, FollowEndIf, FollowStutter DEF Next

\* Whatever the program, if no function of it is called main: a branch that is
\* not one of break or continue leads where the source says, behind the matching
\* else, endif or endloop, back to the loop, into main or into the function, and
\* an instruction that does not branch is followed by what follows it there.
THEOREM SourceFollowed ==
  ASSUME "main" \notin Functions
  PROVE  Spec => []CodeFollowsSource
<1>1. Spec => []IInv
  BY InitInvariant, NextInvariant, PTL DEF Spec
<1>2. Spec => []Types
  BY <1>1, TypesInit, TypesNext, PTL DEF Spec
<1>3. Spec => []NamesAll
  BY <1>1, <1>2, NamesInit, NamesNext, PTL DEF Spec
<1>4. Spec => []FollowInv
  BY <1>1, <1>2, <1>3, FollowInit, FollowNext, PTL DEF Spec
<1>5. IInv /\ Types /\ NamesAll /\ FollowInv => CodeFollowsSource
  BY FollowState
<1>. QED
  BY <1>1, <1>2, <1>3, <1>4, <1>5, PTL
=============================================================================
