--------------------------- MODULE AssemblerProofs ---------------------------
(***************************************************************************)
(* Proofs about the one-pass assembler: its types, the fate of every       *)
(* reference, and that it implements the two-pass reading of the file.     *)
(***************************************************************************)
EXTENDS Assembler, FiniteSetTheorems, SequenceTheorems, TLAPS

\* Whole-number division and remainder stay where the fields expect them.
LEMMA RemainderRange ==
  ASSUME NEW n \in Int, NEW m \in Nat \ {0}
  PROVE  n % m \in 0..m-1
  OBVIOUS

\* The offset arithmetic stays within the integers.
LEMMA OffsetType ==
  ASSUME NEW literal \in Int, NEW pc \in Int
  PROVE  Offset(literal, pc) \in Int
<1>1. IntSize \div 2 \in Int
  BY SizesAssumption
<1>2. literal - pc * InstrBytes \in Int
  BY DEF InstrBytes
<1>3. WrapInt(literal - pc * InstrBytes) \in Int
  <2>1. (literal - pc * InstrBytes) + IntSize \div 2 \in Int
    BY <1>1, <1>2
  <2>2. ((literal - pc * InstrBytes) + IntSize \div 2) % IntSize \in Int
    BY <2>1, RemainderRange, SizesAssumption
  <2> QED BY <1>1, <2>2 DEF WrapInt
<1> DEFINE w == WrapInt(literal - pc * InstrBytes)
<1>4. Words(w) \in Int
  <2> HIDE DEF w
  <2> QED BY <1>3 DEF Words, InstrBytes, w
<1> QED BY <1>4 DEF Offset

LEMMA MissingType == Missing \in Int
  BY SizesAssumption DEF Missing

\* putBits leaves a word with the kind it had and a field in range.
LEMMA PutOffsetType ==
  ASSUME NEW word \in Word, NEW kind \in RefKinds, NEW offset \in Int
  PROVE  /\ PutOffset(word, kind, offset) \in Word
         /\ PutOffset(word, kind, offset) =
              [kind |-> word.kind, bits |-> offset % FieldSize(kind)]
<1>1. FieldSize(kind) \in Nat \ {0}
  BY SizesAssumption DEF FieldSize
<1>2. offset % FieldSize(kind) \in Nat
  BY <1>1, RemainderRange
<1> QED BY <1>2 DEF PutOffset, Word

LEMMA EncodeRefType ==
  ASSUME NEW kind \in RefKinds, NEW offset \in Int
  PROVE  /\ EncodeRef(kind, offset) \in Word
         /\ EncodeRef(kind, offset) =
              [kind |-> kind, bits |-> offset % FieldSize(kind)]
<1> DEFINE w == [kind |-> kind, bits |-> 0]
<1>1. w \in Word /\ w.kind = kind
  BY DEF Word
<1> QED BY <1>1, PutOffsetType DEF EncodeRef

\* getLiteral answers an integer, and Missing only for a label.
LEMMA GetLiteralType ==
  ASSUME NEW table \in Seq(Symbol), NEW target \in Targets
  PROVE  /\ GetLiteral(table, target) \in Int
         /\ GetLiteral(table, target) = Missing => target \in Labels
<1>1. CASE target \in Immediates
  BY <1>1, TargetsAssumption DEF GetLiteral
<1>2. CASE target \notin Immediates /\ Known(table, target)
  <2> DEFINE k == CHOOSE k \in 1..Len(table) : IsLookup(table, target, k)
  <2>1. k \in 1..Len(table)
    BY <1>2 DEF Known
  <2>2. table[k] \in Symbol
    <3> HIDE DEF k
    <3> QED BY <2>1, ElementOfSeq
  <2>3. table[k].address \in Nat
    <3> HIDE DEF k
    <3> QED BY <2>2 DEF Symbol
  <2>4. GetLiteral(table, target) = table[k].address
    BY <1>2 DEF GetLiteral
  <2> QED BY <1>2, <2>3, <2>4 DEF Targets
<1>3. CASE target \notin Immediates /\ ~Known(table, target)
  BY <1>3, MissingType DEF GetLiteral, Targets
<1> QED BY <1>1, <1>2, <1>3
-----------------------------------------------------------------------------
\* Type correctness.

LEMMA LineType ==
  ASSUME TypeOK, pos < Len(file)
  PROVE  /\ pos + 1 \in 1..Len(file)
         /\ NextLine \in Line
<1>1. pos \in Nat /\ Len(file) \in Nat
  BY LenProperties DEF TypeOK
<1>2. pos + 1 \in 1..Len(file)
  BY <1>1
<1> QED BY <1>2, ElementOfSeq DEF TypeOK, NextLine

LEMMA AddBinaryInstrType ==
  ASSUME TypeOK, NEW word \in Word, AddBinaryInstr(word)
  PROVE  /\ PC' \in 0..NumInstrs
         /\ binaryInstr' \in [0..NumInstrs-1 -> Word]
         /\ status' \in Running \cup Stopped
  BY NumInstrsAssumption DEF TypeOK, AddBinaryInstr, Running, Stopped

LEMMA AppendType ==
  ASSUME NEW S, NEW seq \in Seq(S), NEW elt \in S
  PROVE  /\ Append(seq, elt) \in Seq(S)
         /\ Len(Append(seq, elt)) = Len(seq) + 1
         /\ Len(seq) \in Nat
  BY AppendProperties, LenProperties

LEMMA TypeInit == Init => TypeOK
<1> SUFFICES ASSUME Init PROVE TypeOK
  OBVIOUS
<1>1. file \in Seq(Line)
  BY FilesAssumption DEF Init
<1>2. pos \in 0..Len(file)
  BY <1>1, LenProperties DEF Init
<1>3. binaryInstr \in [0..NumInstrs-1 -> Word]
  BY DEF Init, ZeroWord, Word
<1>4. symtable \in Seq(Symbol) /\ undeftable \in Seq(UndefEntry) /\ out \in Seq(Word)
  BY EmptySeq DEF Init
<1>5. i \in 0..Len(undeftable)
  BY EmptySeq DEF Init
<1>6. PC \in 0..NumInstrs
  BY NumInstrsAssumption DEF Init
<1> QED BY <1>1, <1>2, <1>3, <1>4, <1>5, <1>6 DEF TypeOK, Init, Running

LEMMA TypeNext == TypeOK /\ [Next]_vars => TypeOK'
<1> SUFFICES ASSUME TypeOK, [Next]_vars PROVE TypeOK'
  OBVIOUS
<1> USE DEF TypeOK, tables
<1>1. CASE EmptyLine
  BY <1>1, LineType DEF EmptyLine, Decompose
<1>2. CASE BlankLine
  BY <1>2, LineType DEF BlankLine, Decompose, Stopped
<1>3. CASE UnsupportedLine
  BY <1>3, LineType DEF UnsupportedLine, Decompose, Stopped
<1>4. CASE UpdateSymbolTable
  <2>1. pos' \in 0..Len(file) /\ NextLine \in Line /\ NextLine.t = "label"
    BY <1>4, LineType DEF UpdateSymbolTable, Decompose
  <2>2. PC * InstrBytes \in Nat
    BY DEF InstrBytes
  <2>3. [label |-> NextLine.label, address |-> PC * InstrBytes] \in Symbol
    BY <2>1, <2>2 DEF Line, Symbol
  <2>4. symtable' \in Seq(Symbol)
    BY <1>4, <2>3, AppendType DEF UpdateSymbolTable
  <2> QED BY <1>4, <2>1, <2>4 DEF UpdateSymbolTable
<1>5. CASE AssembleWord
  <2>1. pos' \in 0..Len(file) /\ NextLine \in Line /\ NextLine.t = "word"
    BY <1>5, LineType DEF AssembleWord, Decompose
  <2>2. [kind |-> "plain", bits |-> NextLine.code] \in Word
    BY <2>1, CodesAssumption DEF Line, Word
  <2>3. /\ PC' \in 0..NumInstrs
        /\ binaryInstr' \in [0..NumInstrs-1 -> Word]
        /\ status' \in Running \cup Stopped
    BY <1>5, <2>2, AddBinaryInstrType DEF AssembleWord
  <2> QED BY <1>5, <2>1, <2>3 DEF AssembleWord
<1>6. CASE AssembleRef
  <2> DEFINE kind == NextLine.kind
             target == NextLine.target
             literal == GetLiteral(symtable, target)
  <2>1. pos' \in 0..Len(file) /\ NextLine \in Line /\ NextLine.t = "ref"
    BY <1>6, LineType DEF AssembleRef, Decompose
  <2>2. kind \in RefKinds /\ target \in Targets
    BY <2>1 DEF Line
  <2>3. literal \in Int /\ (literal = Missing => target \in Labels)
    BY <2>2, GetLiteralType
  <2> HIDE DEF literal
  <2>4. EncodeRef(kind, Offset(literal, PC)) \in Word
    <3>1. PC \in Int
      BY NumInstrsAssumption
    <3>2. Offset(literal, PC) \in Int
      BY <2>3, <3>1, OffsetType
    <3> QED BY <2>2, <3>2, EncodeRefType
  <2>5. /\ PC' \in 0..NumInstrs
        /\ binaryInstr' \in [0..NumInstrs-1 -> Word]
        /\ status' \in Running \cup Stopped
    BY <1>6, <2>4, AddBinaryInstrType DEF AssembleRef, literal
  <2>6. undeftable' \in Seq(UndefEntry) /\ i \in 0..Len(undeftable')
    <3>1. CASE literal = Missing
      <4> DEFINE entry == [PC |-> PC, type |-> kind, label |-> target]
      <4>1. entry \in UndefEntry
        BY <3>1, <2>2, <2>3 DEF UndefEntry
      <4>2. undeftable' = Append(undeftable, entry)
        BY <1>6, <3>1 DEF AssembleRef, UpdateUndefTable, literal
      <4> HIDE DEF entry
      <4>3. undeftable' \in Seq(UndefEntry) /\ Len(undeftable') = Len(undeftable) + 1
        BY <4>1, <4>2, AppendType
      <4> QED BY <4>3, LenProperties
    <3>2. CASE literal # Missing
      BY <1>6, <3>2 DEF AssembleRef, literal
    <3> QED BY <3>1, <3>2
  <2> QED BY <1>6, <2>1, <2>5, <2>6 DEF AssembleRef
<1>7. CASE EndOfFile
  BY <1>7 DEF EndOfFile, Running
<1>8. CASE HandleUndefLabel
  <2> DEFINE entry == undeftable[i + 1]
             literal == GetLiteral(symtable, entry.label)
             offset == Offset(literal, entry.PC)
  <2>1. i + 1 \in 1..Len(undeftable)
    BY <1>8, LenProperties DEF HandleUndefLabel
  <2>2. entry \in UndefEntry
    BY <2>1, ElementOfSeq
  <2> HIDE DEF entry
  <2>3. entry.PC \in Nat /\ entry.type \in RefKinds /\ entry.label \in Targets
    BY <2>2 DEF UndefEntry, Targets
  <2>4. literal \in Int
    BY <2>3, GetLiteralType
  <2> HIDE DEF literal
  <2>5. offset \in Int
    <3>1. entry.PC \in Int
      BY <2>3
    <3> QED BY <2>4, <3>1, OffsetType
  <2> HIDE DEF offset
  <2>6. binaryInstr' = [binaryInstr EXCEPT ![entry.PC] =
                          PutOffset(@, entry.type, offset)]
    BY <1>8 DEF HandleUndefLabel, entry, literal, offset
  <2>7. binaryInstr' \in [0..NumInstrs-1 -> Word]
    <3>1. CASE entry.PC \in 0..NumInstrs-1
      <4>1. PutOffset(binaryInstr[entry.PC], entry.type, offset) \in Word
        BY <3>1, <2>3, <2>5, PutOffsetType
      <4> QED BY <2>6, <3>1, <4>1
    <3>2. CASE entry.PC \notin 0..NumInstrs-1
      BY <2>6, <3>2
    <3> QED BY <3>1, <3>2
  <2> QED BY <1>8, <2>1, <2>7 DEF HandleUndefLabel
<1>9. CASE EndOfUndefTable
  BY <1>9 DEF EndOfUndefTable, Running
<1>10. CASE WriteBinaryInstr
  <2>1. PC \in Nat /\ \A k \in 1..PC : k-1 \in 0..NumInstrs-1
    BY NumInstrsAssumption
  <2>2. [k \in 1..PC |-> binaryInstr[k-1]] \in Seq(Word)
    BY <2>1
  <2> QED BY <1>10, <2>2 DEF WriteBinaryInstr, Stopped
<1>11. CASE OpenOutputFails
  BY <1>11 DEF OpenOutputFails, Stopped
<1>12. CASE UNCHANGED vars
  BY <1>12 DEF vars
<1> QED BY <1>1, <1>2, <1>3, <1>4, <1>5, <1>6, <1>7, <1>8, <1>9, <1>10,
           <1>11, <1>12 DEF Next

\* Every variable of the assembler keeps its type, PC never passes the end of
\* binaryInstr and the completion loop never passes the end of undeftable.
THEOREM TypeCorrect == Spec => []TypeOK
<1> QED BY TypeInit, TypeNext, PTL DEF Spec
-----------------------------------------------------------------------------
\* The two modules read a line in the same way.
LEMMA SameReading ==
  /\ \A line : TP!EmitsWord(line) <=> EmitsWord(line)
  /\ \A literal, pc : TP!Offset(literal, pc) = Offset(literal, pc)
  /\ \A kind, offset : TP!EncodeRef(kind, offset) = EncodeRef(kind, offset)
  /\ TP!Missing = Missing
  /\ TP!InstrBytes = InstrBytes
  BY DEF TP!EmitsWord, EmitsWord, TP!Offset, Offset, TP!Words, Words, TP!WrapInt,
         WrapInt, TP!InstrBytes, InstrBytes, TP!EncodeRef, EncodeRef, TP!PutOffset,
         PutOffset, TP!FieldSize, FieldSize, TP!Missing, Missing

WordLinesBefore(f, j) == {k \in 1..j-1 : EmitsWord(f[k])}

LEMMA PcAtIsCount ==
  ASSUME NEW f, NEW j \in Nat
  PROVE  /\ IsFiniteSet(WordLinesBefore(f, j))
         /\ TP!PcAt(f, j) = Cardinality(WordLinesBefore(f, j))
         /\ TP!PcAt(f, j) \in Nat
<1>1. IsFiniteSet(1..j-1)
  BY FS_Interval
<1>2. IsFiniteSet(WordLinesBefore(f, j))
  BY <1>1, FS_Subset DEF WordLinesBefore
<1>3. TP!PcAt(f, j) = Cardinality(WordLinesBefore(f, j))
  <2>1. \A S : TP!Cardinality(S) = Cardinality(S)
    BY DEF TP!Cardinality, Cardinality
  <2> QED BY <2>1, SameReading DEF TP!PcAt, WordLinesBefore
<1> QED BY <1>2, <1>3, FS_CardinalityType

LEMMA PcAtFirst ==
  ASSUME NEW f
  PROVE  TP!PcAt(f, 1) = 0
<1>1. WordLinesBefore(f, 1) = {}
  BY DEF WordLinesBefore
<1> QED BY <1>1, PcAtIsCount, FS_EmptySet

LEMMA PcAtNext ==
  ASSUME NEW f, NEW j \in Nat \ {0}
  PROVE  TP!PcAt(f, j+1) = IF EmitsWord(f[j]) THEN TP!PcAt(f, j) + 1
                                              ELSE TP!PcAt(f, j)
<1> DEFINE S == WordLinesBefore(f, j)
           T == WordLinesBefore(f, j+1)
<1>1. IsFiniteSet(S) /\ j \notin S
  BY PcAtIsCount DEF WordLinesBefore
<1>2. CASE EmitsWord(f[j])
  <2>1. T = S \cup {j}
    BY <1>2 DEF WordLinesBefore
  <2>2. Cardinality(T) = Cardinality(S) + 1
    BY <1>1, <2>1, FS_AddElement
  <2> QED BY <1>2, <2>2, PcAtIsCount
<1>3. CASE ~EmitsWord(f[j])
  <2>1. T = S
    BY <1>3 DEF WordLinesBefore
  <2> QED BY <1>3, <2>1, PcAtIsCount
<1> QED BY <1>2, <1>3

LEMMA PcAtMonotone ==
  ASSUME NEW f, NEW j \in Nat, NEW k \in Nat, j <= k
  PROVE  TP!PcAt(f, j) <= TP!PcAt(f, k)
<1>1. WordLinesBefore(f, j) \in SUBSET WordLinesBefore(f, k)
  BY DEF WordLinesBefore
<1> QED BY <1>1, PcAtIsCount, FS_Subset

\* Two lines that emit words have different places for them.
LEMMA PcAtStrict ==
  ASSUME NEW f, NEW j \in Nat \ {0}, NEW k \in Nat, j < k, EmitsWord(f[j])
  PROVE  TP!PcAt(f, j) < TP!PcAt(f, k)
<1>1. TP!PcAt(f, j+1) = TP!PcAt(f, j) + 1
  BY PcAtNext
<1>2. TP!PcAt(f, j+1) <= TP!PcAt(f, k)
  BY PcAtMonotone
<1> QED BY <1>1, <1>2, PcAtIsCount

LEMMA PcAtInjective ==
  ASSUME NEW f, NEW j \in Nat \ {0}, NEW k \in Nat \ {0},
         EmitsWord(f[j]), EmitsWord(f[k]), TP!PcAt(f, j) = TP!PcAt(f, k)
  PROVE  j = k
<1>1. CASE j < k
  BY <1>1, PcAtStrict, PcAtIsCount
<1>2. CASE k < j
  BY <1>2, PcAtStrict, PcAtIsCount
<1> QED BY <1>1, <1>2
-----------------------------------------------------------------------------
LEMMA FirstDefUnique ==
  ASSUME NEW f \in Seq(Line), NEW label, NEW c, NEW d,
         TP!IsFirstDef(f, label, c), TP!IsFirstDef(f, label, d)
  PROVE  c = d
<1>1. Len(f) \in Nat
  BY LenProperties
<1>2. c \in Nat /\ d \in Nat
  BY <1>1 DEF TP!IsFirstDef
<1>3. ~(c < d) /\ ~(d < c)
  BY <1>1, <1>2 DEF TP!IsFirstDef
<1> QED BY <1>2, <1>3

LEMMA LookupUnique ==
  ASSUME NEW table \in Seq(Symbol), NEW label, NEW c, NEW d,
         IsLookup(table, label, c), IsLookup(table, label, d)
  PROVE  c = d
<1>1. Len(table) \in Nat
  BY LenProperties
<1>2. c \in Nat /\ d \in Nat
  BY <1>1 DEF IsLookup
<1>3. ~(c < d) /\ ~(d < c)
  BY <1>1, <1>2 DEF IsLookup
<1> QED BY <1>2, <1>3

\* What getLiteral finds during the pass is what the whole file says.
LEMMA LookupIsLiteral ==
  ASSUME TypeOK, SymtabInv, NEW target \in Targets,
         target \in Labels => Known(symtable, target)
  PROVE  GetLiteral(symtable, target) = TP!Literal(file, target)
<1>1. CASE target \in Immediates
  BY <1>1 DEF GetLiteral, TP!Literal
<1>2. CASE target \notin Immediates
  <2>1. target \in Labels /\ Known(symtable, target)
    BY <1>2 DEF Targets
  <2>2. PICK k \in 1..Len(symtable) : IsLookup(symtable, target, k)
    BY <2>1 DEF Known
  <2>3. PICK d \in 1..pos : /\ TP!IsFirstDef(file, target, d)
                            /\ symtable[k].address = TP!PcAt(file, d) * InstrBytes
    BY <2>1, <2>2 DEF SymtabInv
  <2>4. GetLiteral(symtable, target) = symtable[k].address
    <3> DEFINE c == CHOOSE c \in 1..Len(symtable) : IsLookup(symtable, target, c)
    <3>1. IsLookup(symtable, target, c)
      BY <2>2
    <3>2. c = k
      <4> HIDE DEF c
      <4> QED BY <2>2, <3>1, LookupUnique DEF TypeOK
    <3> QED BY <1>2, <2>1, <3>2 DEF GetLiteral
  <2>5. TP!Literal(file, target) = TP!PcAt(file, d) * InstrBytes
    <3> DEFINE c == CHOOSE c \in 1..Len(file) : TP!IsFirstDef(file, target, c)
    <3>1. d \in 1..Len(file) /\ TP!Defined(file, target)
      BY <2>3 DEF TP!IsFirstDef, TP!Defined
    <3>2. TP!IsFirstDef(file, target, c)
      BY <2>3, <3>1
    <3>3. c = d
      <4> HIDE DEF c
      <4> QED BY <2>3, <3>2, FirstDefUnique DEF TypeOK
    <3> QED BY <1>2, <3>1, <3>3, SameReading DEF TP!Literal
  <2> QED BY <2>3, <2>4, <2>5
<1> QED BY <1>1, <1>2

\* At the end of the file every label has its final answer, Missing included.
LEMMA FinalLookup ==
  ASSUME TypeOK, SymtabInv, pos = Len(file), NEW label \in Labels
  PROVE  GetLiteral(symtable, label) = TP!Literal(file, label)
<1>1. CASE Known(symtable, label)
  BY <1>1, LookupIsLiteral DEF Targets
<1>2. CASE ~Known(symtable, label)
  <2>1. ~TP!Defined(file, label)
    <3> SUFFICES ASSUME NEW d \in 1..Len(file), TP!IsFirstDef(file, label, d)
                 PROVE  FALSE
      BY DEF TP!Defined
    <3>1. d \in 1..pos /\ Defines(d, label)
      BY DEF TP!IsFirstDef, Defines
    <3> QED BY <1>2, <3>1 DEF SymtabInv
  <2>2. label \notin Immediates
    BY TargetsAssumption
  <2> QED BY <1>2, <2>1, <2>2, SameReading DEF GetLiteral, TP!Literal
<1> QED BY <1>1, <1>2
-----------------------------------------------------------------------------
\* What the reading steps share: the place of the next line and of the old ones.
LEMMA ReadingFacts ==
  ASSUME IInv, status = "reading", pos < Len(file)
  PROVE  /\ pos \in Nat /\ Len(file) \in Nat /\ PC \in Nat
         /\ pos + 1 \in 1..Len(file)
         /\ NextLine \in Line /\ NextLine = file[pos+1]
         /\ i = 0
         /\ PC = TP!PcAt(file, pos + 1)
         /\ \A j \in 1..pos : EmitsWord(file[j]) =>
              TP!PcAt(file, j) \in 0..PC-1
<1>1. /\ pos \in Nat /\ Len(file) \in Nat /\ PC \in Nat
      /\ pos + 1 \in 1..Len(file) /\ NextLine \in Line
  BY LenProperties, LineType, NumInstrsAssumption DEF IInv, TypeOK
<1>2. i = 0 /\ PC = TP!PcAt(file, pos + 1)
  BY DEF IInv, PositionInv, Running
<1>3. ASSUME NEW j \in 1..pos, EmitsWord(file[j])
      PROVE  TP!PcAt(file, j) \in 0..PC-1
  <2>1. j \in Nat \ {0} /\ pos + 1 \in Nat \ {0} /\ j < pos + 1
    BY <1>1
  <2>2. TP!PcAt(file, j) < TP!PcAt(file, pos + 1)
    BY <1>3, <2>1, PcAtStrict
  <2>3. TP!PcAt(file, j) \in Nat
    BY <2>1, PcAtIsCount
  <2> QED BY <1>1, <1>2, <2>2, <2>3
<1> QED BY <1>1, <1>2, <1>3 DEF NextLine

\* Emitting a word, and remembering it, leaves the words of the old lines as
\* they were: right, or waiting for the same entry.
LEMMA OldWordsKept ==
  ASSUME IInv, status = "reading", pos < Len(file),
         NEW words, \A p \in 0..PC-1 : words[p] = binaryInstr[p],
         NEW entries,
         \/ entries = undeftable
         \/ \E e \in UndefEntry : e.PC = PC /\ entries = Append(undeftable, e),
         NEW j \in 1..pos, EmitsWord(file[j])
  PROVE  WordFate(file, j, words, entries, 0)
<1> DEFINE p == TP!PcAt(file, j)
<1>1. p \in 0..PC-1 /\ i = 0 /\ PC \in Nat
  BY ReadingFacts
<1>2. words[p] = binaryInstr[p]
  BY <1>1
<1>3. WordFate(file, j, binaryInstr, undeftable, 0)
  BY <1>1 DEF IInv, WordsInv, Running
<1>4. undeftable \in Seq(UndefEntry) /\ Len(undeftable) \in Nat
  BY LenProperties DEF IInv, TypeOK
<1>5. CASE entries = undeftable
  BY <1>2, <1>3, <1>5 DEF WordFate
<1>6. ASSUME NEW e \in UndefEntry, e.PC = PC, entries = Append(undeftable, e)
      PROVE  WordFate(file, j, words, entries, 0)
  <2>1. /\ Len(entries) = Len(undeftable) + 1
        /\ \A k \in 1..Len(undeftable) : entries[k] = undeftable[k]
        /\ entries[Len(undeftable) + 1] = e
    BY <1>4, <1>6, AppendProperties
  <2>2. e.PC # p
    BY <1>1, <1>6
  <2>3. \A k \in 1..Len(entries) : k \in 1..Len(undeftable) \/ k = Len(undeftable) + 1
    BY <1>4, <2>1
  <2>4. \A k \in 1..Len(undeftable) : k \in 1..Len(entries)
    BY <1>4, <2>1
  <2>5. CASE /\ binaryInstr[p] = TP!WordOf(file, j)
             /\ \A k \in 0+1..Len(undeftable) : undeftable[k].PC # p
    BY <1>2, <2>1, <2>2, <2>3, <2>5 DEF WordFate
  <2>6. CASE /\ file[j].t = "ref"
             /\ binaryInstr[p].kind = file[j].kind
             /\ \E k \in 0+1..Len(undeftable) : undeftable[k] = EntryFor(file, j)
    BY <1>2, <2>1, <2>4, <2>6 DEF WordFate
  <2> QED BY <1>3, <2>5, <2>6 DEF WordFate
<1> QED BY <1>5, <1>6

\* A reading step that stays within binaryInstr keeps PositionInv.
LEMMA PositionKept ==
  ASSUME IInv, status = "reading", pos < Len(file),
         ~TP!StopsAt(file, pos + 1),
         file' = file, pos' = pos + 1, i' = i, out' = out, status' = "reading",
         PC' = IF EmitsWord(NextLine) THEN PC + 1 ELSE PC
  PROVE  PositionInv'
<1>1. /\ pos \in Nat /\ PC = TP!PcAt(file, pos + 1) /\ NextLine = file[pos+1]
      /\ i = 0 /\ out = <<>>
  BY ReadingFacts DEF IInv, PositionInv, Running
<1>2. PC' = TP!PcAt(file', pos' + 1)
  BY <1>1, PcAtNext
<1>3. \A j \in 1..pos : ~TP!StopsAt(file, j)
  BY DEF IInv, PositionInv, Running
<1>4. \A j \in 1..pos' : ~TP!StopsAt(file', j)
  BY <1>1, <1>3
<1> QED BY <1>1, <1>2, <1>4 DEF PositionInv

\* A reading step that leaves symtable alone keeps SymtabInv, and one that
\* leaves undeftable alone keeps UndefInv: a later line adds no obligation.
LEMMA SymtabKept ==
  ASSUME IInv, status = "reading", pos < Len(file),
         NextLine.t # "label",
         file' = file, pos' = pos + 1, symtable' = symtable
  PROVE  SymtabInv'
<1>1. pos \in Nat /\ NextLine = file[pos+1]
  BY ReadingFacts
<1>2. SymtabInv
  BY DEF IInv, Running
<1>3. \A j \in 1..pos' : j \in 1..pos \/ j = pos + 1
  BY <1>1
<1>4. 1..pos \subseteq 1..pos'
  BY <1>1
<1> QED BY <1>1, <1>2, <1>3, <1>4 DEF SymtabInv, Defines

LEMMA UndefKept ==
  ASSUME IInv, status = "reading", pos < Len(file),
         file' = file, pos' = pos + 1, undeftable' = undeftable
  PROVE  UndefInv'
<1>1. pos \in Nat
  BY ReadingFacts
<1>2. UndefInv
  BY DEF IInv, Running
<1>3. 1..pos \subseteq 1..pos'
  BY <1>1
<1> QED BY <1>2, <1>3 DEF UndefInv

\* A line that emits nothing keeps WordsInv.
LEMMA WordsKept ==
  ASSUME IInv, status = "reading", pos < Len(file),
         ~EmitsWord(NextLine),
         file' = file, pos' = pos + 1, PC' = PC, i' = i,
         binaryInstr' = binaryInstr, undeftable' = undeftable
  PROVE  WordsInv'
<1>1. pos \in Nat /\ NextLine = file[pos+1]
  BY ReadingFacts
<1>2. WordsInv
  BY DEF IInv, Running
<1>3. \A j \in 1..pos' : j \in 1..pos \/ j = pos + 1
  BY <1>1
<1>4. 1..pos \subseteq 1..pos'
  BY <1>1
<1> QED BY <1>1, <1>2, <1>3, <1>4 DEF WordsInv
-----------------------------------------------------------------------------
\* A line inside the array does not stop the run.
LEMMA NoStopHere ==
  ASSUME IInv, status = "reading", pos < Len(file),
         NextLine.t \notin {"blank", "unsupported"},
         EmitsWord(NextLine) => PC < NumInstrs
  PROVE  ~TP!StopsAt(file, pos + 1)
<1>1. /\ NextLine = file[pos+1] /\ PC = TP!PcAt(file, pos + 1) /\ PC \in Nat
  BY ReadingFacts
<1> QED BY <1>1, SameReading, NumInstrsAssumption DEF TP!StopsAt

\* Every entry of undeftable is for a word already emitted.
LEMMA EntriesBelowPC ==
  ASSUME IInv, status = "reading", pos < Len(file), NEW k \in 1..Len(undeftable)
  PROVE  undeftable[k].PC \in 0..PC-1
<1>1. PICK j \in 1..pos : file[j].t = "ref" /\ undeftable[k] = EntryFor(file, j)
  BY DEF IInv, UndefInv, Running
<1>2. EmitsWord(file[j])
  BY <1>1 DEF EmitsWord
<1> QED BY <1>1, <1>2, ReadingFacts DEF EntryFor

\* updateSymbolTable: only the first definition of a label is ever found.
LEMMA LabelStep ==
  ASSUME IInv, UpdateSymbolTable
  PROVE  SymtabInv'
<1> DEFINE l == NextLine.label
           e == [label |-> l, address |-> PC * InstrBytes]
           n == Len(symtable)
<1>1. /\ status = "reading" /\ pos < Len(file) /\ NextLine.t = "label"
      /\ pos' = pos + 1 /\ file' = file /\ symtable' = Append(symtable, e)
  BY DEF UpdateSymbolTable, Decompose
<1>2. /\ pos \in Nat /\ PC \in Nat /\ pos + 1 \in 1..Len(file)
      /\ NextLine = file[pos+1] /\ NextLine \in Line
      /\ PC = TP!PcAt(file, pos + 1)
  BY <1>1, ReadingFacts
<1>3. SymtabInv /\ symtable \in Seq(Symbol) /\ n \in Nat
  BY <1>1, LenProperties DEF IInv, TypeOK, Running
<1>4. e \in Symbol /\ e.label = l /\ e.address = PC * InstrBytes
  <2>1. l \in Labels
    BY <1>1, <1>2 DEF Line
  <2>2. PC * InstrBytes \in Nat
    BY <1>2 DEF InstrBytes
  <2> QED BY <2>1, <2>2 DEF Symbol
<1> HIDE DEF e
<1>5. /\ Len(symtable') = n + 1
      /\ \A k \in 1..n : symtable'[k] = symtable[k]
      /\ symtable'[n+1] = e
  BY <1>1, <1>3, <1>4, AppendProperties
<1> HIDE DEF n
<1>6. \A k \in 1..n : \A m : IsLookup(symtable', m, k) <=> IsLookup(symtable, m, k)
  BY <1>3, <1>5 DEF IsLookup, n
<1>7. \A m : Known(symtable, m) => Known(symtable', m)
  BY <1>3, <1>5, <1>6 DEF Known, n
<1>8. ~Known(symtable, l) => IsLookup(symtable', l, n+1)
  <2>1. ~Known(symtable, l) => \A k \in 1..n : symtable[k].label # l
    BY <1>3 DEF SymtabInv, n
  <2> QED BY <1>3, <1>4, <1>5, <2>1 DEF IsLookup
<1>9. IsLookup(symtable', l, n+1) => ~Known(symtable, l)
  BY <1>3, <1>5 DEF IsLookup, Known, n
<1>10. \A k \in 1..Len(symtable') : k \in 1..n \/ k = n + 1
  BY <1>3, <1>5
<1>11. Known(symtable', l)
  <2>1. n + 1 \in 1..Len(symtable')
    BY <1>3, <1>5
  <2> QED BY <1>7, <1>8, <2>1 DEF Known
<1>12. \A j \in 1..pos' : j \in 1..pos \/ j = pos + 1
  BY <1>1, <1>2
<1>13. ASSUME NEW k \in 1..Len(symtable')
       PROVE  Known(symtable', symtable'[k].label)
  BY <1>3, <1>4, <1>5, <1>7, <1>10, <1>11 DEF SymtabInv, n
<1>14. ASSUME NEW j \in 1..pos', NEW label \in Labels,
              file[j].t = "label", file[j].label = label
       PROVE  Known(symtable', label)
  BY <1>2, <1>3, <1>7, <1>11, <1>12, <1>14 DEF SymtabInv, Defines
<1>15. ASSUME NEW k \in 1..Len(symtable'), NEW label \in Labels,
              IsLookup(symtable', label, k)
       PROVE  \E d \in 1..pos' :
                /\ TP!IsFirstDef(file, label, d)
                /\ symtable'[k].address = TP!PcAt(file, d) * InstrBytes
  <2>1. CASE k \in 1..n
    <3>1. PICK d \in 1..pos : /\ TP!IsFirstDef(file, label, d)
                              /\ symtable[k].address = TP!PcAt(file, d) * InstrBytes
      BY <1>3, <1>6, <1>15, <2>1 DEF SymtabInv, n
    <3>2. d \in 1..pos'
      BY <1>1, <1>2
    <3> QED BY <1>5, <2>1, <3>1, <3>2
  <2>2. CASE k = n + 1
    <3>1. label = l
      BY <1>4, <1>5, <1>15, <2>2 DEF IsLookup
    <3>2. ~Known(symtable, label)
      BY <1>9, <1>15, <2>2, <3>1
    <3>3. \A j \in 1..pos : ~(file[j].t = "label" /\ file[j].label = label)
      BY <1>3, <3>2 DEF SymtabInv, Defines
    <3>4. TP!IsFirstDef(file, label, pos + 1)
      BY <1>1, <1>2, <3>1, <3>3 DEF TP!IsFirstDef
    <3>5. symtable'[k].address = TP!PcAt(file, pos + 1) * InstrBytes
      BY <1>2, <1>4, <1>5, <2>2
    <3>6. pos + 1 \in 1..pos'
      BY <1>1, <1>2
    <3> QED BY <3>4, <3>5, <3>6
  <2> QED BY <1>10, <2>1, <2>2
<1> QED BY <1>1, <1>13, <1>14, <1>15 DEF SymtabInv, Defines

\* A line that emits a word within the array, with or without a new entry.
LEMMA EmitStep ==
  ASSUME IInv, status = "reading", pos < Len(file), EmitsWord(NextLine),
         NEW word, PC < NumInstrs,
         file' = file, pos' = pos + 1, PC' = PC + 1, i' = i,
         binaryInstr' = [binaryInstr EXCEPT ![PC] = word],
         \/ undeftable' = undeftable
         \/ /\ EntryFor(file, pos+1) \in UndefEntry
            /\ undeftable' = Append(undeftable, EntryFor(file, pos+1)),
         WordFate(file, pos+1, binaryInstr', undeftable', 0)
  PROVE  WordsInv'
<1>1. /\ pos \in Nat /\ PC \in Nat /\ i = 0 /\ PC = TP!PcAt(file, pos + 1)
      /\ NextLine = file[pos+1]
  BY ReadingFacts
<1>2. \A p \in 0..PC-1 : binaryInstr'[p] = binaryInstr[p]
  BY <1>1, NumInstrsAssumption DEF IInv, TypeOK
<1>3. \A j \in 1..pos' : j \in 1..pos \/ j = pos + 1
  BY <1>1
<1>4. ASSUME NEW j \in 1..pos, EmitsWord(file[j])
      PROVE  WordFate(file, j, binaryInstr', undeftable', 0)
  <2>1. \/ undeftable' = undeftable
        \/ \E e \in UndefEntry : e.PC = PC /\ undeftable' = Append(undeftable, e)
    BY <1>1 DEF EntryFor
  <2> QED BY <1>2, <1>4, <2>1, OldWordsKept
<1>5. \A j \in 1..pos' :
        EmitsWord(file'[j]) => WordFate(file', j, binaryInstr', undeftable', i')
  BY <1>1, <1>3, <1>4
<1>6. ASSUME NEW p \in 0..PC'-1
      PROVE  \E j \in 1..pos' : EmitsWord(file[j]) /\ TP!PcAt(file, j) = p
  <2>1. CASE p \in 0..PC-1
    <3>1. PICK j \in 1..pos : EmitsWord(file[j]) /\ TP!PcAt(file, j) = p
      BY <2>1 DEF IInv, WordsInv, Running
    <3>2. j \in 1..pos'
      BY <1>1
    <3> QED BY <3>1, <3>2
  <2>2. CASE p = PC
    <3>1. pos + 1 \in 1..pos'
      BY <1>1
    <3> QED BY <1>1, <2>2, <3>1
  <2>3. p \in 0..PC-1 \/ p = PC
    BY <1>1
  <2> QED BY <2>1, <2>2, <2>3
<1> QED BY <1>5, <1>6 DEF WordsInv

LEMMA WordStep ==
  ASSUME IInv, AssembleWord, status' = "reading"
  PROVE  PositionInv' /\ SymtabInv' /\ UndefInv' /\ WordsInv'
<1> DEFINE word == [kind |-> "plain", bits |-> NextLine.code]
<1>1. /\ status = "reading" /\ pos < Len(file) /\ NextLine.t = "word"
      /\ pos' = pos + 1 /\ UNCHANGED <<file, symtable, undeftable, i, out>>
      /\ AddBinaryInstr(word)
  BY DEF AssembleWord, Decompose
<1>2. EmitsWord(NextLine)
  BY <1>1 DEF EmitsWord
<1>3. /\ PC < NumInstrs /\ PC' = PC + 1
      /\ binaryInstr' = [binaryInstr EXCEPT ![PC] = word]
  BY <1>1 DEF AddBinaryInstr
<1>4. ~TP!StopsAt(file, pos + 1)
  BY <1>1, <1>3, NoStopHere
<1>5. PositionInv'
  BY <1>1, <1>2, <1>3, <1>4, PositionKept
<1>6. SymtabInv' /\ UndefInv'
  BY <1>1, SymtabKept, UndefKept
<1>7. WordFate(file, pos+1, binaryInstr', undeftable', 0)
  <2>1. /\ PC = TP!PcAt(file, pos + 1) /\ NextLine = file[pos+1] /\ PC \in Nat
    BY <1>1, ReadingFacts
  <2>2. binaryInstr'[PC] = word
    BY <1>3, <2>1, NumInstrsAssumption DEF IInv, TypeOK
  <2>3. word = TP!WordOf(file, pos + 1)
    BY <1>1, <2>1 DEF TP!WordOf
  <2>4. \A k \in 1..Len(undeftable) : undeftable[k].PC # PC
    BY <1>1, <2>1, EntriesBelowPC
  <2> QED BY <1>1, <2>1, <2>2, <2>3, <2>4 DEF WordFate
<1>8. WordsInv'
  <2> HIDE DEF word
  <2> QED BY <1>1, <1>2, <1>3, <1>7, EmitStep
<1> QED BY <1>5, <1>6, <1>8

\* A reference is emitted right, or with an entry that names its place.
LEMMA RefStep ==
  ASSUME IInv, AssembleRef, status' = "reading"
  PROVE  PositionInv' /\ SymtabInv' /\ UndefInv' /\ WordsInv'
<1> DEFINE kind == NextLine.kind
           target == NextLine.target
           literal == GetLiteral(symtable, target)
           word == EncodeRef(kind, Offset(literal, PC))
<1>1. /\ status = "reading" /\ pos < Len(file) /\ NextLine.t = "ref"
      /\ pos' = pos + 1 /\ UNCHANGED <<file, symtable, i, out>>
      /\ AddBinaryInstr(word)
      /\ IF literal = Missing THEN UpdateUndefTable(kind, target)
                              ELSE UNCHANGED undeftable
  BY DEF AssembleRef, Decompose
<1>2. EmitsWord(NextLine)
  BY <1>1 DEF EmitsWord
<1>3. /\ PC < NumInstrs /\ PC' = PC + 1
      /\ binaryInstr' = [binaryInstr EXCEPT ![PC] = word]
  BY <1>1 DEF AddBinaryInstr
<1>4. /\ PC = TP!PcAt(file, pos + 1) /\ NextLine = file[pos+1] /\ PC \in Nat
      /\ NextLine \in Line /\ pos \in Nat
  BY <1>1, ReadingFacts
<1>5. kind \in RefKinds /\ target \in Targets
  BY <1>1, <1>4 DEF Line
<1>6. literal \in Int /\ (literal = Missing => target \in Labels)
  BY <1>5, GetLiteralType DEF IInv, TypeOK
<1>7. binaryInstr'[PC] = word
  BY <1>3, <1>4, NumInstrsAssumption DEF IInv, TypeOK
<1>8. PositionInv' /\ SymtabInv'
  <2>1. ~TP!StopsAt(file, pos + 1)
    BY <1>1, <1>3, NoStopHere
  <2> QED BY <1>1, <1>2, <1>3, <2>1, PositionKept, SymtabKept
<1> HIDE DEF literal
<1>9. word.kind = kind
  <2>1. Offset(literal, PC) \in Int
    BY <1>4, <1>6, OffsetType
  <2> QED BY <1>5, <2>1, EncodeRefType
<1> DEFINE e == EntryFor(file, pos + 1)
<1>10. /\ e.PC = PC
       /\ literal = Missing => e \in UndefEntry /\ undeftable' = Append(undeftable, e)
  BY <1>1, <1>4, <1>5, <1>6 DEF EntryFor, UpdateUndefTable, UndefEntry
<1> HIDE DEF e, word
<1>11. undeftable \in Seq(UndefEntry) /\ Len(undeftable) \in Nat
  BY LenProperties DEF IInv, TypeOK
<1>12. WordFate(file, pos+1, binaryInstr', undeftable', 0)
  <2>1. CASE literal = Missing
    <3>1. undeftable'[Len(undeftable) + 1] = e /\ Len(undeftable') = Len(undeftable) + 1
      BY <1>10, <1>11, <2>1, AppendProperties
    <3>2. Len(undeftable) + 1 \in 1..Len(undeftable')
      BY <1>11, <3>1
    <3> QED BY <1>1, <1>4, <1>7, <1>9, <3>1, <3>2 DEF WordFate, e
  <2>2. CASE literal # Missing
    <3>1. target \in Labels => Known(symtable, target)
      BY <2>2, TargetsAssumption DEF GetLiteral, literal
    <3>2. literal = TP!Literal(file, target)
      BY <1>1, <1>5, <3>1, LookupIsLiteral DEF IInv, Running, literal
    <3>3. word = TP!WordOf(file, pos + 1)
      BY <1>1, <1>4, <3>2, SameReading DEF TP!WordOf, word
    <3>4. \A k \in 1..Len(undeftable) : undeftable[k].PC # PC
      BY <1>1, <1>4, EntriesBelowPC
    <3> QED BY <1>1, <1>4, <1>7, <2>2, <3>3, <3>4 DEF WordFate
  <2> QED BY <2>1, <2>2
<1>13. WordsInv'
  <2>1. undeftable' = undeftable \/ (e \in UndefEntry /\ undeftable' = Append(undeftable, e))
    BY <1>1, <1>10
  <2> QED BY <1>1, <1>2, <1>3, <1>12, <2>1, EmitStep DEF e
<1>14. UndefInv'
  <2>1. CASE literal # Missing
    BY <1>1, <2>1, UndefKept
  <2>2. CASE literal = Missing
    <3> DEFINE n == Len(undeftable)
    <3>1. /\ Len(undeftable') = n + 1
          /\ \A k \in 1..n : undeftable'[k] = undeftable[k]
          /\ undeftable'[n+1] = e
      BY <1>10, <1>11, <2>2, AppendProperties
    <3>2. \A k \in 1..n : undeftable[k].PC < PC
      BY <1>1, <1>4, EntriesBelowPC
    <3>3. \A k \in 1..Len(undeftable') : k \in 1..n \/ k = n + 1
      BY <1>11, <3>1
    <3>4. UndefInv
      BY <1>1 DEF IInv, Running
    <3>5. ASSUME NEW k \in 1..Len(undeftable')
          PROVE  \E j \in 1..pos' : file[j].t = "ref" /\ undeftable'[k] = EntryFor(file, j)
      <4>1. CASE k \in 1..n
        <5>1. PICK j \in 1..pos : file[j].t = "ref" /\ undeftable[k] = EntryFor(file, j)
          BY <3>4, <4>1 DEF UndefInv
        <5>2. j \in 1..pos'
          BY <1>1, <1>4
        <5> QED BY <3>1, <4>1, <5>1, <5>2
      <4>2. CASE k = n + 1
        <5>1. pos + 1 \in 1..pos'
          BY <1>1, <1>4
        <5> QED BY <1>1, <1>4, <3>1, <4>2, <5>1 DEF e
      <4> QED BY <3>3, <4>1, <4>2
    <3>6. ASSUME NEW k \in 1..Len(undeftable'), NEW m \in 1..k-1
          PROVE  undeftable'[m].PC < undeftable'[k].PC
      <4>1. m \in 1..n
        BY <1>11, <3>3
      <4>2. CASE k \in 1..n
        BY <3>1, <3>4, <4>1, <4>2 DEF UndefInv
      <4>3. CASE k = n + 1
        BY <1>10, <3>1, <3>2, <4>1, <4>3
      <4> QED BY <3>3, <4>2, <4>3
    <3> QED BY <1>1, <3>5, <3>6 DEF UndefInv
  <2> QED BY <2>1, <2>2
<1> QED BY <1>8, <1>13, <1>14

\* handleUndefLabel: the oldest entry is completed with its final answer, and
\* every other word keeps its fate.
LEMMA CompletionStep ==
  ASSUME IInv, HandleUndefLabel
  PROVE  PositionInv' /\ SymtabInv' /\ UndefInv' /\ WordsInv'
<1> DEFINE entry == undeftable[i+1]
           literal == GetLiteral(symtable, entry.label)
           offset == Offset(literal, entry.PC)
<1>1. /\ status = "completing" /\ status' = "completing" /\ i < Len(undeftable) /\ i' = i + 1
      /\ UNCHANGED <<file, pos, PC, symtable, undeftable, out>>
      /\ binaryInstr' = [binaryInstr EXCEPT ![entry.PC] =
                           PutOffset(@, entry.type, offset)]
  BY DEF HandleUndefLabel, tables
<1>2. /\ TypeOK /\ PositionInv /\ SymtabInv /\ UndefInv /\ WordsInv
      /\ pos = Len(file)
  BY <1>1 DEF IInv, Running, PositionInv
<1>3. /\ Len(undeftable) \in Nat /\ i \in Nat /\ pos \in Nat /\ PC \in Nat
      /\ i + 1 \in 1..Len(undeftable)
  BY <1>1, <1>2, LenProperties, NumInstrsAssumption DEF TypeOK
<1>4. PICK j \in 1..pos : file[j].t = "ref" /\ entry = EntryFor(file, j)
  BY <1>2, <1>3 DEF UndefInv
<1>5. entry \in UndefEntry
  BY <1>2, <1>3, ElementOfSeq DEF TypeOK
<1> HIDE DEF entry
<1>6. /\ entry.PC = TP!PcAt(file, j) /\ entry.type = file[j].kind
      /\ entry.label = file[j].target
      /\ entry.type \in RefKinds /\ entry.label \in Labels
      /\ EmitsWord(file[j])
  BY <1>4, <1>5 DEF EntryFor, UndefEntry, EmitsWord
<1>7. entry.PC \in 0..PC-1 /\ entry.PC \in 0..NumInstrs-1
  <2>1. TP!PcAt(file, j) < TP!PcAt(file, pos + 1)
    BY <1>3, <1>6, PcAtStrict
  <2>2. PC = TP!PcAt(file, pos + 1) /\ PC \in 0..NumInstrs
    BY <1>2 DEF PositionInv, TypeOK
  <2>3. TP!PcAt(file, j) \in Nat
    BY <1>3, PcAtIsCount
  <2> QED BY <1>6, <2>1, <2>2, <2>3, NumInstrsAssumption
<1>8. literal = TP!Literal(file, file[j].target) /\ literal \in Int
  BY <1>2, <1>6, FinalLookup, GetLiteralType DEF Targets, TypeOK
<1> HIDE DEF literal
<1>9. offset \in Int
  <2>1. entry.PC \in Int
    BY <1>7
  <2> QED BY <1>8, <2>1, OffsetType
<1>10. offset = TP!Offset(TP!Literal(file, file[j].target), TP!PcAt(file, j))
  BY <1>6, <1>8, SameReading
<1> HIDE DEF offset
<1>11. \A p \in 0..NumInstrs-1 :
         binaryInstr'[p] = IF p = entry.PC
                           THEN PutOffset(binaryInstr[p], entry.type, offset)
                           ELSE binaryInstr[p]
  BY <1>1, <1>2 DEF TypeOK
<1>12. \A k \in 1..Len(undeftable) : k # i + 1 => undeftable[k].PC # entry.PC
  <2> SUFFICES ASSUME NEW k \in 1..Len(undeftable), k # i + 1
               PROVE  undeftable[k].PC # entry.PC
    OBVIOUS
  <2>1. k \in Nat /\ undeftable[k].PC \in Nat
    <3>1. undeftable[k] \in UndefEntry
      BY <1>2, ElementOfSeq DEF TypeOK
    <3> QED BY <3>1 DEF UndefEntry
  <2>2. CASE k < i + 1
    <3>1. k \in 1..(i+1)-1
      BY <1>3, <2>2
    <3>2. undeftable[k].PC < entry.PC
      BY <1>2, <1>3, <3>1 DEF UndefInv, entry
    <3> QED BY <1>7, <2>1, <3>2
  <2>3. CASE i + 1 < k
    <3>1. i + 1 \in 1..k-1
      BY <1>3, <2>1, <2>3
    <3>2. entry.PC < undeftable[k].PC
      BY <1>2, <3>1 DEF UndefInv, entry
    <3> QED BY <1>7, <2>1, <3>2
  <2> QED BY <1>3, <2>1, <2>2, <2>3
<1>13. ASSUME NEW m \in 1..pos, EmitsWord(file[m])
       PROVE  WordFate(file, m, binaryInstr', undeftable, i+1)
  <2> DEFINE p == TP!PcAt(file, m)
  <2>1. WordFate(file, m, binaryInstr, undeftable, i)
    BY <1>2, <1>13 DEF WordsInv
  <2>2. p \in 0..NumInstrs-1
    <3>1. p < TP!PcAt(file, pos + 1) /\ p \in Nat
      BY <1>3, <1>13, PcAtStrict, PcAtIsCount
    <3> QED BY <1>2, <3>1, NumInstrsAssumption DEF PositionInv, TypeOK
  <2>3. \A k \in (i+1)+1..Len(undeftable) : k \in i+1..Len(undeftable) /\ k # i + 1
    BY <1>3
  <2>4. CASE m = j
    <3>1. binaryInstr[p].kind = file[j].kind
      <4>1. undeftable[i+1].PC = p /\ i + 1 \in i+1..Len(undeftable)
        BY <1>3, <1>6, <2>4 DEF entry
      <4> QED BY <2>1, <2>4, <4>1 DEF WordFate
    <3>2. binaryInstr[p] \in Word
      BY <1>2, <2>2 DEF TypeOK
    <3>3. binaryInstr'[p] =
            [kind |-> file[j].kind, bits |-> offset % FieldSize(file[j].kind)]
      BY <1>6, <1>9, <1>11, <2>2, <2>4, <3>1, <3>2, PutOffsetType
    <3>4. TP!WordOf(file, j) = EncodeRef(file[j].kind, offset)
      BY <1>4, <1>10, SameReading DEF TP!WordOf
    <3>5. EncodeRef(file[j].kind, offset) =
            [kind |-> file[j].kind, bits |-> offset % FieldSize(file[j].kind)]
      BY <1>6, <1>9, EncodeRefType
    <3>6. \A k \in (i+1)+1..Len(undeftable) : undeftable[k].PC # p
      <4>1. \A k \in (i+1)+1..Len(undeftable) : k \in 1..Len(undeftable) /\ k # i + 1
        BY <1>3
      <4> QED BY <1>6, <1>12, <2>4, <4>1
    <3> QED BY <2>4, <3>3, <3>4, <3>5, <3>6 DEF WordFate
  <2>5. CASE m # j
    <3>1. p # entry.PC
      <4>1. m \in Nat \ {0} /\ j \in Nat \ {0}
        BY <1>3
      <4> QED BY <1>6, <1>13, <2>5, <4>1, PcAtInjective
    <3>2. binaryInstr'[p] = binaryInstr[p]
      BY <1>11, <2>2, <3>1
    <3>3. CASE /\ binaryInstr[p] = TP!WordOf(file, m)
               /\ \A k \in i+1..Len(undeftable) : undeftable[k].PC # p
      BY <2>3, <3>2, <3>3 DEF WordFate
    <3>4. CASE /\ file[m].t = "ref"
               /\ binaryInstr[p].kind = file[m].kind
               /\ \E k \in i+1..Len(undeftable) : undeftable[k] = EntryFor(file, m)
      <4>1. PICK k \in i+1..Len(undeftable) : undeftable[k] = EntryFor(file, m)
        BY <3>4
      <4>2. k # i + 1
        BY <3>1, <4>1 DEF EntryFor, entry
      <4>3. k \in (i+1)+1..Len(undeftable)
        BY <1>3, <4>1, <4>2
      <4> QED BY <3>2, <3>4, <4>1, <4>3 DEF WordFate
    <3> QED BY <2>1, <3>3, <3>4 DEF WordFate
  <2> QED BY <2>4, <2>5
<1>14. WordsInv'
  BY <1>1, <1>2, <1>13 DEF WordsInv
<1>15. PositionInv'
  BY <1>1, <1>2 DEF PositionInv
<1>16. SymtabInv' /\ UndefInv'
  BY <1>1, <1>2 DEF SymtabInv, UndefInv, Defines
<1> QED BY <1>14, <1>15, <1>16
-----------------------------------------------------------------------------
LEMMA IInvInit == Init => IInv
<1> SUFFICES ASSUME Init PROVE IInv
  OBVIOUS
<1>1. Len(symtable) = 0 /\ Len(undeftable) = 0
  BY EmptySeq DEF Init
<1>2. PositionInv
  BY PcAtFirst DEF Init, PositionInv
<1>3. SymtabInv /\ UndefInv /\ WordsInv
  BY <1>1 DEF Init, SymtabInv, UndefInv, WordsInv
<1> QED BY <1>2, <1>3, TypeInit DEF IInv

LEMMA IInvNext == IInv /\ [Next]_vars => IInv'
<1> SUFFICES ASSUME IInv, [Next]_vars, status' \in Running
             PROVE  PositionInv' /\ SymtabInv' /\ UndefInv' /\ WordsInv'
  BY TypeNext DEF IInv
<1>1. CASE EmptyLine
  <2>1. /\ status = "reading" /\ pos < Len(file) /\ NextLine.t = "empty"
        /\ pos' = pos + 1
        /\ UNCHANGED <<file, PC, binaryInstr, symtable, undeftable, i, status, out>>
    BY <1>1 DEF EmptyLine, Decompose
  <2>2. ~EmitsWord(NextLine) /\ ~TP!StopsAt(file, pos + 1)
    BY <2>1, NoStopHere DEF EmitsWord
  <2> QED BY <2>1, <2>2, PositionKept, SymtabKept, UndefKept, WordsKept
<1>2. CASE BlankLine
  BY <1>2 DEF BlankLine, Running
<1>3. CASE UnsupportedLine
  BY <1>3 DEF UnsupportedLine, Running
<1>4. CASE UpdateSymbolTable
  <2>1. /\ status = "reading" /\ pos < Len(file) /\ NextLine.t = "label"
        /\ pos' = pos + 1
        /\ UNCHANGED <<file, PC, binaryInstr, undeftable, i, status, out>>
    BY <1>4 DEF UpdateSymbolTable, Decompose
  <2>2. ~EmitsWord(NextLine) /\ ~TP!StopsAt(file, pos + 1)
    BY <2>1, NoStopHere DEF EmitsWord
  <2> QED BY <1>4, <2>1, <2>2, PositionKept, LabelStep, UndefKept, WordsKept
<1>5. CASE AssembleWord
  <2>1. status' = "reading"
    BY <1>5 DEF AssembleWord, Decompose, AddBinaryInstr, Running
  <2> QED BY <1>5, <2>1, WordStep
<1>6. CASE AssembleRef
  <2>1. status' = "reading"
    BY <1>6 DEF AssembleRef, Decompose, AddBinaryInstr, Running
  <2> QED BY <1>6, <2>1, RefStep
<1>7. CASE EndOfFile
  BY <1>7 DEF EndOfFile, tables, IInv, Running, PositionInv, SymtabInv, UndefInv,
              WordsInv, Defines
<1>8. CASE HandleUndefLabel
  BY <1>8, CompletionStep
<1>9. CASE EndOfUndefTable
  BY <1>9 DEF EndOfUndefTable, tables, IInv, Running, PositionInv, SymtabInv,
              UndefInv, WordsInv, Defines
<1>10. CASE WriteBinaryInstr
  BY <1>10 DEF WriteBinaryInstr, Running
<1>11. CASE OpenOutputFails
  BY <1>11 DEF OpenOutputFails, Running
<1>12. CASE UNCHANGED vars
  BY <1>12 DEF vars, IInv, Running, PositionInv, SymtabInv, UndefInv, WordsInv, Defines
<1> QED BY <1>1, <1>2, <1>3, <1>4, <1>5, <1>6, <1>7, <1>8, <1>9, <1>10,
           <1>11, <1>12 DEF Next

\* The tables always agree with the lines read so far.
THEOREM Invariance == Spec => []IInv
<1> QED BY IInvInit, IInvNext, PTL DEF Spec
-----------------------------------------------------------------------------
LEMMA ResolvedOrPendingHolds == IInv => RefsResolvedOrPending
<1> SUFFICES ASSUME IInv, status \in Running, NEW j \in 1..pos, file[j].t = "ref"
             PROVE  LET p == TP!PcAt(file, j)
                        pending == {k \in i+1..Len(undeftable) : undeftable[k].PC = p}
                    IN  \/ pending = {} /\ binaryInstr[p] = TP!WordOf(file, j)
                        \/ \E k \in pending :
                             /\ pending = {k}
                             /\ undeftable[k].type = file[j].kind
                             /\ undeftable[k].label = file[j].target
                             /\ binaryInstr[p].kind = file[j].kind
  BY DEF RefsResolvedOrPending
<1> DEFINE p == TP!PcAt(file, j)
           pending == {k \in i+1..Len(undeftable) : undeftable[k].PC = p}
<1>1. WordFate(file, j, binaryInstr, undeftable, i)
  BY DEF IInv, WordsInv, EmitsWord
<1>2. i \in Nat /\ Len(undeftable) \in Nat /\ undeftable \in Seq(UndefEntry)
  BY LenProperties DEF IInv, TypeOK
<1>3. CASE /\ binaryInstr[p] = TP!WordOf(file, j)
           /\ \A k \in i+1..Len(undeftable) : undeftable[k].PC # p
  BY <1>3
<1>4. CASE /\ file[j].t = "ref"
           /\ binaryInstr[p].kind = file[j].kind
           /\ \E k \in i+1..Len(undeftable) : undeftable[k] = EntryFor(file, j)
  <2>1. PICK k \in i+1..Len(undeftable) : undeftable[k] = EntryFor(file, j)
    BY <1>4
  <2>2. /\ undeftable[k].PC = p /\ undeftable[k].type = file[j].kind
        /\ undeftable[k].label = file[j].target
    BY <2>1 DEF EntryFor
  <2>3. ASSUME NEW m \in i+1..Len(undeftable), undeftable[m].PC = p
        PROVE  m = k
    <3>1. m \in Nat /\ k \in Nat /\ m \in 1..Len(undeftable) /\ k \in 1..Len(undeftable)
      BY <1>2
    <3>2. undeftable[m] \in UndefEntry
      BY <1>2, <3>1, ElementOfSeq
    <3>3. p \in Nat
      BY <2>3, <3>2 DEF UndefEntry
    <3>4. CASE m < k
      <4>1. undeftable[m].PC < undeftable[k].PC
        BY <3>1, <3>4 DEF IInv, UndefInv
      <4> QED BY <2>2, <2>3, <3>3, <4>1
    <3>5. CASE k < m
      <4>1. undeftable[k].PC < undeftable[m].PC
        BY <3>1, <3>5 DEF IInv, UndefInv
      <4> QED BY <2>2, <2>3, <3>3, <4>1
    <3> QED BY <3>1, <3>4, <3>5
  <2>4. pending = {k}
    BY <2>2, <2>3
  <2> QED BY <1>4, <2>2, <2>4
<1> QED BY <1>1, <1>3, <1>4 DEF WordFate

\* For every file and every capacity, no reference is ever lost between the two
\* tables: it is right, or it has exactly one entry still to come.
THEOREM ResolvedOrPending == Spec => []RefsResolvedOrPending
<1> QED BY Invariance, ResolvedOrPendingHolds, PTL

\* Completion never touches a word that no entry waits for, nor more than the
\* offset of one that does.
THEOREM CompletionIsLocal == Spec => CompletionTouchesPendingOffsets
<1> DEFINE Local == status = "completing" =>
             \A p \in 0..NumInstrs-1 :
               binaryInstr'[p] # binaryInstr[p] =>
                 /\ \E k \in i+1..Len(undeftable) : undeftable[k].PC = p
                 /\ binaryInstr[p].kind \in RefKinds
                 /\ binaryInstr'[p].kind = binaryInstr[p].kind
<1>1. IInv /\ [Next]_vars => [Local]_vars
  <2> SUFFICES ASSUME IInv, Next, status = "completing",
                      NEW p \in 0..NumInstrs-1, binaryInstr'[p] # binaryInstr[p]
               PROVE  /\ \E k \in i+1..Len(undeftable) : undeftable[k].PC = p
                      /\ binaryInstr[p].kind \in RefKinds
                      /\ binaryInstr'[p].kind = binaryInstr[p].kind
    BY DEF vars
  <2>1. HandleUndefLabel
    BY DEF Next, EmptyLine, BlankLine, UnsupportedLine, UpdateSymbolTable, AssembleWord,
           AssembleRef, Decompose, EndOfFile, EndOfUndefTable, WriteBinaryInstr,
           OpenOutputFails
  <2> DEFINE entry == undeftable[i+1]
             offset == Offset(GetLiteral(symtable, entry.label), entry.PC)
  <2>2. /\ i < Len(undeftable)
        /\ binaryInstr' = [binaryInstr EXCEPT ![entry.PC] =
                             PutOffset(@, entry.type, offset)]
    BY <2>1 DEF HandleUndefLabel
  <2>3. /\ i \in Nat /\ Len(undeftable) \in Nat /\ i + 1 \in 1..Len(undeftable)
        /\ undeftable \in Seq(UndefEntry) /\ binaryInstr \in [0..NumInstrs-1 -> Word]
    BY <2>2, LenProperties DEF IInv, TypeOK
  <2>4. p = entry.PC /\ binaryInstr'[p] = PutOffset(binaryInstr[p], entry.type, offset)
    <3> HIDE DEF entry, offset
    <3> QED BY <2>2, <2>3
  <2>5. PICK j \in 1..pos : file[j].t = "ref" /\ entry = EntryFor(file, j)
    BY <2>3 DEF IInv, UndefInv, Running
  <2>6. WordFate(file, j, binaryInstr, undeftable, i)
    BY <2>5 DEF IInv, WordsInv, EmitsWord, Running
  <2>7. p = TP!PcAt(file, j) /\ entry.type = file[j].kind
    BY <2>4, <2>5 DEF EntryFor
  <2>8. i + 1 \in i+1..Len(undeftable)
    BY <2>2, <2>3
  <2>9. binaryInstr[p].kind = entry.type
    BY <2>4, <2>6, <2>7, <2>8 DEF WordFate
  <2>10. entry \in UndefEntry
    BY <2>3, ElementOfSeq
  <2>11. entry.type \in RefKinds
    <3> HIDE DEF entry
    <3> QED BY <2>10 DEF UndefEntry
  <2>12. binaryInstr'[p].kind = binaryInstr[p].kind
    <3> HIDE DEF entry, offset
    <3>1. binaryInstr[p] \in Word
      BY <2>3
    <3> QED BY <2>4, <3>1 DEF PutOffset, Word
  <2> QED BY <2>4, <2>8, <2>9, <2>11, <2>12
<1>2. QED
  BY <1>1, Invariance, PTL DEF Spec, CompletionTouchesPendingOffsets
-----------------------------------------------------------------------------
\* With no entry left, the words in the array are the two-pass reading.
LEMMA OutputIsResult ==
  ASSUME IInv, status = "writing"
  PROVE  /\ TP!Accepted(file)
         /\ [k \in 1..PC |-> binaryInstr[k-1]] = TP!Result(file)
<1>1. /\ PositionInv /\ WordsInv /\ pos = Len(file) /\ i = Len(undeftable)
      /\ pos \in Nat /\ PC \in Nat /\ i \in Nat
  BY LenProperties, NumInstrsAssumption DEF IInv, TypeOK, PositionInv, Running
<1>2. TP!Accepted(file)
  BY <1>1 DEF TP!Accepted, PositionInv
<1>3. PC = TP!NumWords(file)
  BY <1>1 DEF TP!NumWords, PositionInv
<1>4. ASSUME NEW k \in 1..PC
      PROVE  binaryInstr[k-1] = TP!WordOf(file, TP!LineOf(file, k-1))
  <2>1. k - 1 \in 0..PC-1
    BY <1>1
  <2>2. PICK j \in 1..Len(file) : EmitsWord(file[j]) /\ TP!PcAt(file, j) = k-1
    BY <1>1, <2>1 DEF WordsInv
  <2> DEFINE c == TP!LineOf(file, k-1)
  <2>3. c \in 1..Len(file) /\ EmitsWord(file[c]) /\ TP!PcAt(file, c) = k-1
    BY <2>2, SameReading DEF TP!LineOf
  <2> HIDE DEF c
  <2>4. c = j
    <3>1. c \in Nat \ {0} /\ j \in Nat \ {0}
      BY <1>1, <2>2, <2>3
    <3> QED BY <2>2, <2>3, <3>1, PcAtInjective
  <2>5. WordFate(file, j, binaryInstr, undeftable, i)
    BY <1>1, <2>2 DEF WordsInv
  <2>6. i+1..Len(undeftable) = {}
    BY <1>1
  <2>7. binaryInstr[k-1] = TP!WordOf(file, j)
    BY <2>2, <2>5, <2>6 DEF WordFate
  <2> QED BY <2>4, <2>7 DEF c
<1> QED BY <1>2, <1>3, <1>4 DEF TP!Result

\* The line that stops the run is the one at which TwoPass stops.
LEMMA StopIsFirst ==
  ASSUME IInv, status = "reading", pos < Len(file), TP!StopsAt(file, pos + 1)
  PROVE  TP!FirstStop(file, pos + 1)
<1>1. pos \in Nat /\ pos + 1 \in 1..Len(file)
  BY ReadingFacts
<1>2. \A j \in 1..pos : ~TP!StopsAt(file, j)
  BY DEF IInv, PositionInv, Running
<1>3. \A k \in 1..(pos+1)-1 : ~TP!StopsAt(file, k)
  BY <1>1, <1>2
<1> QED BY <1>1, <1>3 DEF TP!FirstStop

\* A word that does not fit stops the run where TwoPass does.
LEMMA OverrunStep ==
  ASSUME IInv, status = "reading", pos < Len(file), EmitsWord(NextLine),
         PC >= NumInstrs, status' = "overrun", file' = file, out' = out
  PROVE  TP!TPNext
<1>1. /\ NextLine = file[pos+1] /\ PC = TP!PcAt(file, pos + 1)
      /\ pos + 1 \in 1..Len(file)
  BY ReadingFacts
<1>2. PC = NumInstrs
  BY NumInstrsAssumption DEF IInv, TypeOK
<1>3. TP!StopsAt(file, pos + 1)
  BY <1>1, <1>2, SameReading DEF TP!StopsAt
<1>4. TP!FirstStop(file, pos + 1)
  BY <1>3, StopIsFirst
<1>5. file[pos+1].t # "blank" /\ file[pos+1].t # "unsupported"
  BY <1>1 DEF EmitsWord
<1> QED BY <1>1, <1>4, <1>5 DEF TP!TPNext, TP!StopAt, Running

LEMMA RefinementStep ==
  IInv /\ [Next]_vars =>
    [TP!TPNext]_<<file, IF status \in Running THEN "running" ELSE status, out>>
<1> SUFFICES ASSUME IInv, [Next]_vars
             PROVE  \/ TP!TPNext
                    \/ /\ UNCHANGED <<file, out>>
                       /\ status' = status \/ (status \in Running /\ status' \in Running)
  OBVIOUS
<1>1. CASE EmptyLine
  BY <1>1 DEF EmptyLine
<1>2. CASE BlankLine
  <2>1. /\ status = "reading" /\ pos < Len(file) /\ NextLine.t = "blank"
        /\ status' = "crash" /\ UNCHANGED <<file, out>>
    BY <1>2 DEF BlankLine, Decompose
  <2>2. NextLine = file[pos+1] /\ pos + 1 \in 1..Len(file)
    BY <2>1, ReadingFacts
  <2>3. TP!FirstStop(file, pos + 1)
    BY <2>1, <2>2, StopIsFirst DEF TP!StopsAt
  <2> QED BY <2>1, <2>2, <2>3 DEF TP!TPNext, TP!StopAt, Running
<1>3. CASE UnsupportedLine
  <2>1. /\ status = "reading" /\ pos < Len(file) /\ NextLine.t = "unsupported"
        /\ status' = "exit" /\ UNCHANGED <<file, out>>
    BY <1>3 DEF UnsupportedLine, Decompose
  <2>2. NextLine = file[pos+1] /\ pos + 1 \in 1..Len(file)
    BY <2>1, ReadingFacts
  <2>3. TP!FirstStop(file, pos + 1)
    BY <2>1, <2>2, StopIsFirst DEF TP!StopsAt
  <2> QED BY <2>1, <2>2, <2>3 DEF TP!TPNext, TP!StopAt, Running
<1>4. CASE UpdateSymbolTable
  BY <1>4 DEF UpdateSymbolTable
<1>5. CASE AssembleWord
  <2>1. /\ status = "reading" /\ pos < Len(file) /\ EmitsWord(NextLine)
        /\ UNCHANGED <<file, out>>
    BY <1>5 DEF AssembleWord, Decompose, EmitsWord
  <2>2. CASE status' = status
    BY <2>1, <2>2
  <2>3. CASE PC >= NumInstrs /\ status' = "overrun"
    BY <2>1, <2>3, OverrunStep
  <2> QED BY <1>5, <2>2, <2>3 DEF AssembleWord, AddBinaryInstr
<1>6. CASE AssembleRef
  <2>1. /\ status = "reading" /\ pos < Len(file) /\ EmitsWord(NextLine)
        /\ UNCHANGED <<file, out>>
    BY <1>6 DEF AssembleRef, Decompose, EmitsWord
  <2>2. CASE status' = status
    BY <2>1, <2>2
  <2>3. CASE PC >= NumInstrs /\ status' = "overrun"
    BY <2>1, <2>3, OverrunStep
  <2> QED BY <1>6, <2>2, <2>3 DEF AssembleRef, AddBinaryInstr
<1>7. CASE EndOfFile
  BY <1>7 DEF EndOfFile, Running
<1>8. CASE HandleUndefLabel
  BY <1>8 DEF HandleUndefLabel
<1>9. CASE EndOfUndefTable
  BY <1>9 DEF EndOfUndefTable, Running
<1>10. CASE WriteBinaryInstr
  <2>1. TP!Accepted(file) /\ out' = TP!Result(file)
    BY <1>10, OutputIsResult DEF WriteBinaryInstr
  <2> QED BY <1>10, <2>1 DEF WriteBinaryInstr, TP!TPNext, TP!Assemble, Running
<1>11. CASE OpenOutputFails
  <2>1. TP!Accepted(file)
    BY <1>11, OutputIsResult DEF OpenOutputFails
  <2> QED BY <1>11, <2>1 DEF OpenOutputFails, TP!TPNext, TP!OutputNotOpened, Running
<1>12. CASE UNCHANGED vars
  BY <1>12 DEF vars
<1> QED BY <1>1, <1>2, <1>3, <1>4, <1>5, <1>6, <1>7, <1>8, <1>9, <1>10,
           <1>11, <1>12 DEF Next

\* For every file, every capacity and every field width, the one-pass assembler
\* is the two-pass assembler.
THEOREM Refinement == Spec => ImplementsTwoPass
<1>1. Init => TP!TPInit
  BY DEF Init, TP!TPInit, Running
<1> QED BY <1>1, RefinementStep, Invariance, PTL DEF Spec, ImplementsTwoPass, TP!TPSpec
=============================================================================
