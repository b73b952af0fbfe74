------------------------------ MODULE TwoPass -------------------------------
(***************************************************************************)
(* What an assembly file means, read the way a two-pass assembler reads    *)
(* it: every label is placed first and every word is encoded afterwards,   *)
(* with all the labels known.  The state machine at the end produces that  *)
(* result in one step, or stops for one of the reasons the file gives; it  *)
(* is what the one-pass assembler promises.                                *)
(***************************************************************************)
EXTENDS AssemblyFile, FiniteSets

\* Words emitted by the lines before line j of f: the PC of line j.
PcAt(f, j) == Cardinality({k \in 1..j-1 : EmitsWord(f[k])})

NumWords(f) == PcAt(f, Len(f) + 1)

\* Line d of f is the first definition of this label.
IsFirstDef(f, label, d) ==
  /\ d \in 1..Len(f)
  /\ f[d].t = "label" /\ f[d].label = label
  /\ \A k \in 1..d-1 : ~(f[k].t = "label" /\ f[k].label = label)

Defined(f, label) == \E d \in 1..Len(f) : IsFirstDef(f, label, d)

Literal(f, target) ==
  IF target \in Immediates THEN target
  ELSE IF Defined(f, target)
       THEN PcAt(f, CHOOSE d \in 1..Len(f) : IsFirstDef(f, target, d)) * InstrBytes
       ELSE Missing

\* The word of line j of f.
WordOf(f, j) ==
  IF f[j].t = "word" THEN [kind |-> "plain", bits |-> f[j].code]
  ELSE EncodeRef(f[j].kind, Offset(Literal(f, f[j].target), PcAt(f, j)))

LineOf(f, p) == CHOOSE j \in 1..Len(f) : EmitsWord(f[j]) /\ PcAt(f, j) = p

Result(f) == [k \in 1..NumWords(f) |-> WordOf(f, LineOf(f, k-1))]

\* Line j stops the assembler: no line before it does.
StopsAt(f, j) ==
  \/ f[j].t \in {"blank", "unsupported"}
  \/ EmitsWord(f[j]) /\ PcAt(f, j) = NumInstrs

FirstStop(f, j) ==
  /\ j \in 1..Len(f)
  /\ StopsAt(f, j)
  /\ \A k \in 1..j-1 : ~StopsAt(f, k)

Accepted(f) == \A j \in 1..Len(f) : ~StopsAt(f, j)
-----------------------------------------------------------------------------
VARIABLES file, status, out

TPInit ==
  /\ file \in Files
  /\ status = "running"
  /\ out = <<>>

Assemble ==
  /\ Accepted(file)
  /\ status' = "done"
  /\ out' = Result(file)

OutputNotOpened ==
  /\ Accepted(file)
  /\ status' = "exit"
  /\ out' = out

StopAt(j) ==
  /\ FirstStop(file, j)
  /\ status' = CASE file[j].t = "blank" -> "crash"
                 [] file[j].t = "unsupported" -> "exit"
                 [] OTHER -> "overrun"
  /\ out' = out

TPNext ==
  /\ status = "running"
  /\ file' = file
  /\ \/ Assemble
     \/ OutputNotOpened
     \/ \E j \in 1..Len(file) : StopAt(j)

TPSpec == TPInit /\ [][TPNext]_<<file, status, out>>
=============================================================================
