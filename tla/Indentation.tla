---------------------------- MODULE Indentation -----------------------------
(***************************************************************************)
(* The indentation stack of the lexer (extension/lexer.l): for each end of *)
(* line the rule "\n[ ]*" counts the spaces after it and returns at most   *)
(* one INDENT or DEDENT token, from which the parser makes its blocks      *)
(* (extension/parser.y).  A blank line is a line of indentation 0.         *)
(***************************************************************************)
EXTENDS Integers, Sequences, SequencesExt

CONSTANTS MAX_INDENT,   \* size of indent_stack
          Indents,      \* the indentations a line may have
          MaxLines      \* bound on the lines of a file

ASSUME IndentAssumption ==
  /\ MAX_INDENT \in Nat
  /\ Indents \subseteq Nat
  /\ MaxLines \in Nat

VARIABLES indent_stack,     \* the levels around the current one, indent_top of them
          current_indent,
          new_indent,       \* indentation of the last line
          token,            \* what the rule returned for it, "none" if it did not return
          blocks,           \* blocks the parser has begun and not ended
          phase,            \* "lexing", "failed" in push_indent, or the verdict at the end
          lines             \* end-of-line matches so far

vars == <<indent_stack, current_indent, new_indent, token, blocks, phase, lines>>

indent_top == Len(indent_stack)

Init ==
  /\ indent_stack = <<>>
  /\ current_indent = 0
  /\ new_indent = 0
  /\ token = "none"
  /\ blocks = 0
  /\ phase = "lexing"
  /\ lines = 0
-----------------------------------------------------------------------------
\* Mutant: one level more than indent_stack holds.
PushBeyond(n) ==
  /\ indent_top <= MAX_INDENT
  /\ indent_stack' = Append(indent_stack, current_indent)
  /\ current_indent' = n
  /\ token' = "INDENT"
  /\ blocks' = blocks + 1
  /\ UNCHANGED phase

\* Mutant: what is pushed is the new level, not the one to come back to.
PushNew(n) ==
  /\ indent_top < MAX_INDENT
  /\ indent_stack' = Append(indent_stack, n)
  /\ current_indent' = n
  /\ token' = "INDENT"
  /\ blocks' = blocks + 1
  /\ UNCHANGED phase

\* push_indent, whose caller then takes the level of the line.
Push(n) ==
  /\ indent_top < MAX_INDENT
  /\ indent_stack' = Append(indent_stack, current_indent)
  /\ current_indent' = n
  /\ token' = "INDENT"
  /\ blocks' = blocks + 1
  /\ UNCHANGED phase

\* push_indent with the stack full: the compiler exits.
PushFails ==
  /\ indent_top = MAX_INDENT
  /\ phase' = "failed"
  /\ UNCHANGED <<indent_stack, current_indent, token, blocks>>

\* Mutant: the level becomes the one of the line.
PopToLine ==
  /\ indent_top > 0
  /\ current_indent' = new_indent'
  /\ indent_stack' = Front(indent_stack)
  /\ token' = "DEDENT"
  /\ blocks' = blocks - 1
  /\ UNCHANGED phase

\* pop_indent: the level becomes the one that was saved, whatever the line's
\* is.  The exit of an empty stack is no step: PopNeverFails.
Pop ==
  /\ indent_top > 0
  /\ current_indent' = Last(indent_stack)
  /\ indent_stack' = Front(indent_stack)
  /\ token' = "DEDENT"
  /\ blocks' = blocks - 1
  /\ UNCHANGED phase

\* Mutant: a line at the current level closes its block too.
NewLineCloses(n) ==
  /\ phase = "lexing"
  /\ lines < MaxLines
  /\ lines' = lines + 1
  /\ new_indent' = n
  /\ \/ n > current_indent /\ (Push(n) \/ PushFails)
     \/ n <= current_indent /\ Pop

\* The action of "\n[ ]*" on a line of n spaces.
NewLine(n) ==
  /\ phase = "lexing"
  /\ lines < MaxLines
  /\ lines' = lines + 1
  /\ new_indent' = n
  /\ \/ n > current_indent /\ (Push(n) \/ PushFails)
     \/ n < current_indent /\ Pop
     \/ /\ n = current_indent
        /\ token' = "none"
        /\ UNCHANGED <<indent_stack, current_indent, blocks, phase>>

\* Mutant: the end of the input closes the blocks that are open.
EndCloses ==
  /\ phase = "lexing"
  /\ phase' = "accepted"
  /\ UNCHANGED <<indent_stack, current_indent, new_indent, token, blocks, lines>>

\* The end of the input returns no token: a block that is open is a syntax
\* error, so that only a file whose blocks are closed can be accepted.
EndOfFile ==
  /\ phase = "lexing"
  /\ phase' = IF blocks = 0 THEN "accepted" ELSE "rejected"
  /\ UNCHANGED <<indent_stack, current_indent, new_indent, token, blocks, lines>>

Next == (\E n \in Indents : NewLine(n)) \/ EndOfFile

Spec == Init /\ [][Next]_vars
-----------------------------------------------------------------------------
\* The levels of the open blocks, the current one last.
OpenLevels == Append(indent_stack, current_indent)

TypeOK ==
  /\ indent_stack \in Seq(Nat)
  /\ indent_top <= MAX_INDENT
  /\ current_indent \in Nat
  /\ new_indent \in Nat
  /\ token \in {"none", "INDENT", "DEDENT"}
  /\ blocks \in Nat
  /\ phase \in {"lexing", "failed", "accepted", "rejected"}
  /\ lines \in Nat

\* The open levels increase from 0: a block is always deeper than what is
\* around it, also after a line that comes back to a level no block has.
LevelsIncrease ==
  /\ OpenLevels[1] = 0
  /\ \A i, j \in DOMAIN OpenLevels : i < j => OpenLevels[i] < OpenLevels[j]

\* The parser has one block begun for each level on the stack, so that its
\* DEDENTs always end a block that an INDENT began.
BlocksAreLevels == blocks = indent_top

\* The exit of pop_indent is never taken, whatever the lines are: a line can
\* only be to the left of the current level when a level was saved.
PopNeverFails == \A n \in Indents : n < current_indent => indent_top > 0

IInv == TypeOK /\ LevelsIncrease /\ BlocksAreLevels /\ PopNeverFails

\* A file is accepted only if its last line is at the left margin: one that
\* ends inside a block, without a last empty line, never is.
AcceptedAtMargin == phase = "accepted" => current_indent = 0

\* A line at the level of an open block is never taken out of that block: a
\* line closes at most what is deeper than itself.
EnclosingKept ==
  [][\A k \in DOMAIN OpenLevels :
       new_indent' = OpenLevels[k] => k \in DOMAIN OpenLevels']_vars

\* A line that closes at most one block, down to a level that is open.
Gradual(n) ==
  \/ n >= current_indent
  \/ indent_top > 0 /\ n = Last(indent_stack)

Abstract == INSTANCE Layout WITH levels <- OpenLevels

\* Every line that leaves at most one block at a time does to the open levels
\* what a Python-like layout says, in whatever state earlier lines left the
\* stack; only a line that leaves several blocks at once does not, since the
\* rule returns a single DEDENT for it.
GradualLinesFollowLayout ==
  [][lines' # lines /\ Gradual(new_indent') /\ phase' = "lexing"
       => Abstract!Line(new_indent')]_vars
=============================================================================
