----------------------------- MODULE Assembler ------------------------------
(***************************************************************************)
(* The one-pass assembler (assemble.c, disassembler.c, onepass.c).         *)
(*                                                                         *)
(* One line of the file is one step of the main loop.  An instruction that *)
(* refers to a label not yet in symtable is emitted with a meaningless     *)
(* offset and remembered in undeftable; after the last line the entries of *)
(* undeftable are completed one by one, and the words are written.         *)
(***************************************************************************)
EXTENDS AssemblyFile

VARIABLES
  file,         \* the assembly file, fixed for the run
  pos,          \* lines of it that decompose has consumed
  PC,           \* words emitted
  binaryInstr,  \* the words
  symtable,     \* labels with their addresses, in the order of the lines
  undeftable,   \* the references to complete
  i,            \* loop counter of handleUndefTable
  status,
  out           \* the words in the output file

vars == <<file, pos, PC, binaryInstr, symtable, undeftable, i, status, out>>
tables == <<symtable, undeftable>>

Running == {"reading", "completing", "writing"}

\* "exit" is EXIT_PROGRAM, "crash" a NULL token passed to strcpy, "overrun" a
\* write past the end of binaryInstr: the model says nothing beyond it.
Stopped == {"done", "exit", "crash", "overrun"}

Symbol == [label : Labels, address : Nat]
UndefEntry == [PC : Nat, type : RefKinds, label : Labels]

TypeOK ==
  /\ file \in Seq(Line)
  /\ pos \in 0..Len(file)
  /\ PC \in 0..NumInstrs
  /\ binaryInstr \in [0..NumInstrs-1 -> Word]
  /\ symtable \in Seq(Symbol)
  /\ undeftable \in Seq(UndefEntry)
  /\ i \in 0..Len(undeftable)
  /\ status \in Running \cup Stopped
  /\ out \in Seq(Word)

Init ==
  /\ file \in Files
  /\ pos = 0
  /\ PC = 0
  /\ binaryInstr = [k \in 0..NumInstrs-1 |-> ZeroWord]
  /\ symtable = <<>>
  /\ undeftable = <<>>
  /\ i = 0
  /\ status = "reading"
  /\ out = <<>>
-----------------------------------------------------------------------------
\* Mutant: the search runs from the newest entry.
IsLookupNewest(table, label, k) ==
  /\ k \in 1..Len(table)
  /\ table[k].label = label
  /\ \A j \in k+1..Len(table) : table[j].label # label

\* The entry of symtable that getLiteral finds: the first with this label.
IsLookup(table, label, k) ==
  /\ k \in 1..Len(table)
  /\ table[k].label = label
  /\ \A j \in 1..k-1 : table[j].label # label

Known(table, label) == \E k \in 1..Len(table) : IsLookup(table, label, k)

GetLiteral(table, target) ==
  IF target \in Immediates THEN target
  ELSE IF Known(table, target)
       THEN table[CHOOSE k \in 1..Len(table) : IsLookup(table, target, k)].address
       ELSE Missing

NextLine == file[pos + 1]

\* decompose has handed over a line of this type.
Decompose(type) ==
  /\ status = "reading"
  /\ pos < Len(file)
  /\ NextLine.t = type
  /\ pos' = pos + 1

AddBinaryInstr(word) ==
  \/ /\ PC < NumInstrs
     /\ binaryInstr' = [binaryInstr EXCEPT ![PC] = word]
     /\ PC' = PC + 1
     /\ UNCHANGED status
  \/ /\ PC >= NumInstrs
     /\ status' = "overrun"
     /\ UNCHANGED <<PC, binaryInstr>>

UpdateUndefTable(kind, label) ==
  undeftable' = Append(undeftable, [PC |-> PC, type |-> kind, label |-> label])
-----------------------------------------------------------------------------
\* A line with nothing before its newline.
EmptyLine ==
  /\ Decompose("empty")
  /\ UNCHANGED <<file, PC, binaryInstr, symtable, undeftable, i, status, out>>

\* A line of spaces: strtok_r answers NULL and strcpy reads from it.
BlankLine ==
  /\ Decompose("blank")
  /\ status' = "crash"
  /\ UNCHANGED <<file, PC, binaryInstr, symtable, undeftable, i, out>>

UnsupportedLine ==
  /\ Decompose("unsupported")
  /\ status' = "exit"
  /\ UNCHANGED <<file, PC, binaryInstr, symtable, undeftable, i, out>>

\* What follows the colon on the same line is dropped.
UpdateSymbolTable ==
  /\ Decompose("label")
  /\ symtable' = Append(symtable,
                        [label |-> NextLine.label, address |-> PC * InstrBytes])
  /\ UNCHANGED <<file, PC, binaryInstr, undeftable, i, status, out>>

\* A directive or an instruction that no label reaches.
AssembleWord ==
  /\ Decompose("word")
  /\ AddBinaryInstr([kind |-> "plain", bits |-> NextLine.code])
  /\ UNCHANGED <<file, symtable, undeftable, i, out>>

\* ldr with a literal address, b, and the conditional branches.
AssembleRef ==
  /\ Decompose("ref")
  /\ LET kind == NextLine.kind
         target == NextLine.target
         literal == GetLiteral(symtable, target)
     IN  /\ IF literal = Missing THEN UpdateUndefTable(kind, target)
                                 ELSE UNCHANGED undeftable
         /\ AddBinaryInstr(EncodeRef(kind, Offset(literal, PC)))
  /\ UNCHANGED <<file, symtable, i, out>>

EndOfFile ==
  /\ status = "reading"
  /\ pos = Len(file)
  /\ status' = "completing"
  /\ UNCHANGED <<file, pos, PC, binaryInstr, tables, i, out>>

\* Mutant: the instruction is looked for at the entry's own index.
HandleUndefLabelAtIndex ==
  /\ status = "completing"
  /\ i < Len(undeftable)
  /\ LET entry == undeftable[i + 1]
         offset == Offset(GetLiteral(symtable, entry.label), entry.PC)
     IN  binaryInstr' = [binaryInstr EXCEPT ![i] = PutOffset(@, entry.type, offset)]
  /\ i' = i + 1
  /\ UNCHANGED <<file, pos, PC, tables, status, out>>

\* Mutant: the offset counts from the following instruction.
HandleUndefLabelFromNext ==
  /\ status = "completing"
  /\ i < Len(undeftable)
  /\ LET entry == undeftable[i + 1]
         offset == Offset(GetLiteral(symtable, entry.label), entry.PC + 1)
     IN  binaryInstr' = [binaryInstr EXCEPT ![entry.PC] =
                           PutOffset(@, entry.type, offset)]
  /\ i' = i + 1
  /\ UNCHANGED <<file, pos, PC, tables, status, out>>

\* Mutant: the loop does not advance.
HandleUndefLabelAgain ==
  /\ status = "completing"
  /\ i < Len(undeftable)
  /\ LET entry == undeftable[i + 1]
         offset == Offset(GetLiteral(symtable, entry.label), entry.PC)
     IN  binaryInstr' = [binaryInstr EXCEPT ![entry.PC] =
                           PutOffset(@, entry.type, offset)]
  /\ UNCHANGED <<file, pos, PC, tables, i, status, out>>

HandleUndefLabel ==
  /\ status = "completing"
  /\ i < Len(undeftable)
  /\ LET entry == undeftable[i + 1]
         offset == Offset(GetLiteral(symtable, entry.label), entry.PC)
     IN  binaryInstr' = [binaryInstr EXCEPT ![entry.PC] =
                           PutOffset(@, entry.type, offset)]
  /\ i' = i + 1
  /\ UNCHANGED <<file, pos, PC, tables, status, out>>

EndOfUndefTable ==
  /\ status = "completing"
  /\ i = Len(undeftable)
  /\ status' = "writing"
  /\ UNCHANGED <<file, pos, PC, binaryInstr, tables, i, out>>

WriteBinaryInstr ==
  /\ status = "writing"
  /\ out' = [k \in 1..PC |-> binaryInstr[k-1]]
  /\ status' = "done"
  /\ UNCHANGED <<file, pos, PC, binaryInstr, tables, i>>

\* fopen fails: the directory is missing or may not be written.
OpenOutputFails ==
  /\ status = "writing"
  /\ status' = "exit"
  /\ UNCHANGED <<file, pos, PC, binaryInstr, tables, i, out>>

Next ==
  \/ EmptyLine \/ BlankLine \/ UnsupportedLine
  \/ UpdateSymbolTable \/ AssembleWord \/ AssembleRef
  \/ EndOfFile \/ HandleUndefLabel \/ EndOfUndefTable
  \/ WriteBinaryInstr \/ OpenOutputFails

Spec == Init /\ [][Next]_vars

FairSpec == Spec /\ WF_vars(Next)
-----------------------------------------------------------------------------
\* The whole run, seen as one step of the two-pass assembler.
TP == INSTANCE TwoPass WITH
        status <- IF status \in Running THEN "running" ELSE status

\* The output of the one-pass assembler is the two-pass reading of its file,
\* word for word: forward and backward references, labels defined twice (the
\* first definition wins, in both tables), labels never defined; and it stops
\* early only where the file makes it.  (main, assemble.c 69-120.)
ImplementsTwoPass == TP!TPSpec

\* Every reference emitted so far is either already what the whole file makes
\* it or has exactly one entry in undeftable, of its own kind, still to come:
\* a definition read later never changes a reference that was resolved, and an
\* entry is dropped only when its word is right.  (getLiteral against the
\* growing symtable, updateUndefTable, handleUndefLabel.)
RefsResolvedOrPending ==
  status \in Running =>
    \A j \in 1..pos :
      file[j].t = "ref" =>
        LET p == TP!PcAt(file, j)
            pending == {k \in i+1..Len(undeftable) : undeftable[k].PC = p}
        IN  \/ pending = {} /\ binaryInstr[p] = TP!WordOf(file, j)
            \/ \E k \in pending :
                 /\ pending = {k}
                 /\ undeftable[k].type = file[j].kind
                 /\ undeftable[k].label = file[j].target
                 /\ binaryInstr[p].kind = file[j].kind

\* Completion changes only words that wait for it, and of those only the
\* offset: a data word, a finished instruction, or the register, condition and
\* opcode bits around the offset never change.  (handleUndefLabel, putBits.)
CompletionTouchesPendingOffsets ==
  [][status = "completing" =>
       \A p \in 0..NumInstrs-1 :
         binaryInstr'[p] # binaryInstr[p] =>
           /\ \E k \in i+1..Len(undeftable) : undeftable[k].PC = p
           /\ binaryInstr[p].kind \in RefKinds
           /\ binaryInstr'[p].kind = binaryInstr[p].kind]_vars

\* The main loop, the loop over undeftable and the write all come to an end.
Terminates == <>(status \in Stopped)
-----------------------------------------------------------------------------
(***************************************************************************)
(* The inductive invariant.  Each part relates a variable to the lines     *)
(* that have been read.                                                    *)
(***************************************************************************)
Defines(j, label) == file[j].t = "label" /\ file[j].label = label

\* PC counts the words of the lines read; no line read so far stops the run.
PositionInv ==
  /\ PC = TP!PcAt(file, pos + 1)
  /\ \A j \in 1..pos : ~TP!StopsAt(file, j)
  /\ status = "reading" => i = 0
  /\ status # "reading" => pos = Len(file)
  /\ status = "writing" => i = Len(undeftable)
  /\ out = <<>>

\* symtable finds exactly the labels defined so far, each at the address of its
\* first definition.
SymtabInv ==
  /\ \A k \in 1..Len(symtable) : Known(symtable, symtable[k].label)
  /\ \A j \in 1..pos : \A label \in Labels :
       Defines(j, label) => Known(symtable, label)
  /\ \A k \in 1..Len(symtable) : \A label \in Labels :
       IsLookup(symtable, label, k) =>
         \E d \in 1..pos : /\ TP!IsFirstDef(file, label, d)
                           /\ symtable[k].address = TP!PcAt(file, d) * InstrBytes

\* The entry that the reference on line j of f leaves in undeftable.
EntryFor(f, j) ==
  [PC |-> TP!PcAt(f, j), type |-> f[j].kind, label |-> f[j].target]

\* Every entry of undeftable was made by one reference, in the order of PC.
UndefInv ==
  /\ \A k \in 1..Len(undeftable) :
       \E j \in 1..pos : file[j].t = "ref" /\ undeftable[k] = EntryFor(file, j)
  /\ \A k \in 1..Len(undeftable) : \A m \in 1..k-1 :
       undeftable[m].PC < undeftable[k].PC

\* The word of line j is right, or one of the entries after the n-th is for it.
WordFate(f, j, words, entries, n) ==
  LET p == TP!PcAt(f, j)
  IN  \/ /\ words[p] = TP!WordOf(f, j)
         /\ \A k \in n+1..Len(entries) : entries[k].PC # p
      \/ /\ f[j].t = "ref"
         /\ words[p].kind = f[j].kind
         /\ \E k \in n+1..Len(entries) : entries[k] = EntryFor(f, j)

\* Every word comes from a line read.
WordsInv ==
  /\ \A p \in 0..PC-1 : \E j \in 1..pos : EmitsWord(file[j]) /\ TP!PcAt(file, j) = p
  /\ \A j \in 1..pos :
       EmitsWord(file[j]) => WordFate(file, j, binaryInstr, undeftable, i)

\* Inductive: it implies RefsResolvedOrPending, and makes every step a step of
\* TwoPass.  The tables are meaningless once the run has stopped.
IInv ==
  /\ TypeOK
  /\ status \in Running => PositionInv /\ SymtabInv /\ UndefInv /\ WordsInv
=============================================================================
