----------------------------- MODULE BitFields ------------------------------
(***************************************************************************)
(* A 32-bit instruction as the function that gives each of its bits, and   *)
(* the two accessors the assembler and the emulator share: putBits         *)
(* (utils_as.c) and getBits (utils_em.c).                                  *)
(***************************************************************************)
EXTENDS Integers, Sequences

WordBits == 0..31

EmptyWord == [b \in WordBits |-> 0]

\* The low n bits of v, in two's complement.
Bits(v, n) == [k \in 0..n-1 |-> (v \div 2^k) % 2]

\* The number that n bits stand for.
Unsigned(bits, n) ==
  LET upTo[k \in 0..n] == IF k = 0 THEN 0 ELSE upTo[k-1] + bits[k-1] * 2^(k-1)
  IN  upTo[n]

\* Mutant: the least number of n bits is left positive.
SignExtendNotLeast(v, n) == IF v > 2^(n-1) THEN v - 2^n ELSE v

\* signExtendTo32Bits of an n-bit field.
SignExtend(v, n) == IF v >= 2^(n-1) THEN v - 2^n ELSE v

\* A field of n bits from bit s on.
Span(s, n) == s .. s+n-1

PutBits(word, bits, s, n) ==
  [b \in WordBits |-> IF b \in Span(s, n) THEN bits[b - s] ELSE word[b]]

GetBits(word, s, n) == [k \in 0..n-1 |-> word[s + k]]
-----------------------------------------------------------------------------
\* A list of fields put one after the other: a field is [name, at, len].
Covers(f, b) == b \in Span(f.at, f.len)

\* The last field of the list that covers bit b.
IsLastCover(fields, b, k) ==
  /\ k \in 1..Len(fields)
  /\ Covers(fields[k], b)
  /\ \A m \in k+1..Len(fields) : ~Covers(fields[m], b)

\* What is left of word after the values are put: the last writer wins.
PutFields(word, fields, values) ==
  [b \in WordBits |->
     IF \E k \in 1..Len(fields) : IsLastCover(fields, b, k)
     THEN LET k == CHOOSE k \in 1..Len(fields) : IsLastCover(fields, b, k)
          IN  Bits(values[fields[k].name], fields[k].len)[b - fields[k].at]
     ELSE word[b]]
=============================================================================
