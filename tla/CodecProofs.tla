---------------------------- MODULE CodecProofs ----------------------------
(***************************************************************************)
(* Proofs about Codec.                                                     *)
(***************************************************************************)
EXTENDS Codec, SharedProofs

\* No bit belongs to both fields.
Apart(k, m) == k.at + k.len <= m.at \/ m.at + m.len <= k.at

IsField(k) == k.at \in Nat /\ k.len \in Nat \ {0} /\ k.at + k.len <= 32

\* A list of fields that share no bit.
IsList(s) ==
  /\ Len(s) \in Nat
  /\ DOMAIN s = 1..Len(s)
  /\ \A k \in 1..Len(s) : IsField(s[k])
  /\ \A k \in 1..Len(s) : \A m \in k+1..Len(s) : Apart(s[k], s[m])

\* The bits of the word where field k is are those of v.
Holds(w, k, v) == GetBits(w, k.at, k.len) = Bits(v, k.len)

\* The value can be read back from its field.
Fits(k, v) == v \in IF k.name \in SignedFields THEN SignedRange(k.len) ELSE UnsignedRange(k.len)
-----------------------------------------------------------------------------
LEMMA HoldsBits ==
  ASSUME NEW w, NEW k, NEW v, IsField(k),
         \A i \in 0 .. k.len - 1 : w[k.at + i] = Bits(v, k.len)[i]
  PROVE  Holds(w, k, v)
  BY DEF Holds, GetBits, Bits

LEMMA BitsHeld ==
  ASSUME NEW w, NEW k, NEW v, Holds(w, k, v), NEW i \in 0 .. k.len - 1
  PROVE  w[k.at + i] = Bits(v, k.len)[i]
<1>1. GetBits(w, k.at, k.len)[i] = w[k.at + i]
  BY DEF GetBits
<1> QED
  BY <1>1 DEF Holds

LEMMA FieldBit ==
  ASSUME NEW k, IsField(k), NEW i \in 0 .. k.len - 1
  PROVE  k.at + i \in WordBits /\ Covers(k, k.at + i) /\ (k.at + i) - k.at = i
  BY DEF IsField, WordBits, Covers, Span

LEMMA ApartBit ==
  ASSUME NEW k, NEW m, IsField(k), IsField(m), Apart(k, m) \/ Apart(m, k), NEW i \in 0 .. k.len - 1
  PROVE  ~Covers(m, k.at + i)
  BY DEF IsField, Apart, Covers, Span

\* A field of a list is in the word as it was put.
LEMMA Written ==
  ASSUME NEW w, NEW s, IsList(s), NEW f, NEW k \in 1..Len(s)
  PROVE  Holds(PutFields(w, s, f), s[k], f[s[k].name])
<1> DEFINE put == PutFields(w, s, f)
           g == s[k]
<1>1. IsField(g) /\ Len(s) \in Nat
  BY DEF IsList
<1>2. ASSUME NEW i \in 0 .. g.len - 1
      PROVE  put[g.at + i] = Bits(f[g.name], g.len)[i]
  <2> DEFINE b == g.at + i
             IsLast(c) == IsLastCover(s, b, c)
             c == CHOOSE c \in 1..Len(s) : IsLast(c)
  <2>1. b \in WordBits /\ Covers(g, b) /\ b - g.at = i
    BY <1>1, FieldBit
  <2>2. ASSUME NEW m \in 1..Len(s), Covers(s[m], b)
        PROVE  m = k
    <3>1. IsField(s[m])
      BY DEF IsList
    <3>2. ~(Apart(g, s[m]) \/ Apart(s[m], g))
      BY <1>1, <2>2, <3>1, ApartBit
    <3>3. ~(k < m) /\ ~(m < k)
      BY <1>1, <3>2 DEF IsList
    <3> QED
      BY <1>1, <3>3
  <2>3. IsLast(k)
    <3>1. ASSUME NEW m \in k+1..Len(s) PROVE ~Covers(s[m], b)
      BY <1>1, <2>2, <3>1
    <3> QED
      BY <2>1, <3>1 DEF IsLastCover
  <2>4. c \in 1..Len(s) /\ IsLast(c)
    <3> HIDE DEF IsLast
    <3> QED
      BY <2>3
  <2>5. c = k
    BY <2>2, <2>4 DEF IsLastCover
  <2>6. \E m \in 1..Len(s) : IsLastCover(s, b, m)
    BY <2>3
  <2>7. put[b] = Bits(f[s[c].name], s[c].len)[b - s[c].at]
    BY <2>1, <2>6 DEF PutFields
  <2> HIDE DEF c, b, put
  <2>8. put[b] = Bits(f[g.name], g.len)[b - g.at]
    BY <2>5, <2>7
  <2> QED
    BY <2>1, <2>8 DEF b
<1> HIDE DEF put
<1> QED
  BY <1>1, <1>2, HoldsBits DEF put

\* A bit that no field of the list covers stays.
LEMMA Unwritten ==
  ASSUME NEW w, NEW s, NEW f, NEW b \in WordBits, \A m \in 1..Len(s) : ~Covers(s[m], b)
  PROVE  PutFields(w, s, f)[b] = w[b]
  BY DEF PutFields, IsLastCover

\* A field apart from all of a list stays.
LEMMA Kept ==
  ASSUME NEW w, NEW s, IsList(s), NEW f, NEW k, IsField(k), NEW v, Holds(w, k, v),
         \A m \in 1..Len(s) : Apart(k, s[m])
  PROVE  Holds(PutFields(w, s, f), k, v)
<1>1. ASSUME NEW i \in 0 .. k.len - 1
      PROVE  PutFields(w, s, f)[k.at + i] = Bits(v, k.len)[i]
  <2>1. k.at + i \in WordBits
    BY FieldBit
  <2>2. ASSUME NEW m \in 1..Len(s) PROVE ~Covers(s[m], k.at + i)
    BY ApartBit DEF IsList
  <2>3. PutFields(w, s, f)[k.at + i] = w[k.at + i]
    BY <2>1, <2>2, Unwritten
  <2> QED
    BY <2>3, BitsHeld
<1> QED
  BY <1>1, HoldsBits

\* getBits gives back a value that fits.
LEMMA ValueRead ==
  ASSUME NEW k, IsField(k), NEW v, Fits(k, v)
  PROVE  LET value == Unsigned(Bits(v, k.len), k.len)
         IN  v = IF k.name \in SignedFields THEN SignExtend(value, k.len) ELSE value
<1>1. CASE k.name \in SignedFields
  <2>1. k.len \in Nat \ {0} /\ 2^(k.len - 1) \in Nat
    BY PowerPositive DEF IsField
  <2>2. v \in Int /\ -(2^(k.len-1)) <= v /\ v < 2^(k.len-1)
    BY <1>1, <2>1 DEF Fits, SignedRange
  <2> QED
    BY <1>1, <2>1, <2>2, SignedFieldHolds
<1>2. CASE k.name \notin SignedFields
  <2>1. k.len \in Nat /\ 2^k.len \in Nat
    BY PowerPositive DEF IsField
  <2>2. v \in Nat /\ v < 2^k.len
    BY <1>2, <2>1 DEF Fits, UnsignedRange
  <2> QED
    BY <1>2, <2>1, <2>2, FieldHolds
<1> QED
  BY <1>1, <1>2

\* The field that getBits of a list leaves in a name.
ReadLast(s, name) ==
  CHOOSE k \in ToSet(s) : k.name = name /\ \A o \in ToSet(s) : o.name = name => k.at <= o.at

LEMMA ReadLastIn ==
  ASSUME NEW s, IsList(s), NEW name, \E k \in 1..Len(s) : s[k].name = name
  PROVE  ReadLast(s, name) \in ToSet(s) /\ ReadLast(s, name).name = name
<1> DEFINE Places == {s[k].at : k \in {k \in 1..Len(s) : s[k].name = name}}
<1>1. Places \in SUBSET Nat /\ Places # {}
  BY DEF IsList, IsField
<1>2. PICK at \in Places : \A o \in Places : at <= o
  BY <1>1, Least
<1>3. PICK k \in 1..Len(s) : s[k].name = name /\ s[k].at = at
  BY <1>2
<1>4. \A o \in ToSet(s) : o.name = name => s[k].at <= o.at
  BY <1>2, <1>3 DEF ToSet, IsList
<1>5. s[k] \in ToSet(s)
  BY DEF ToSet, IsList
<1> QED
  BY <1>3, <1>4, <1>5 DEF ReadLast

\* The fields of a name are in the word, and their value fits.
Shows(w, s, name, v) ==
  \A k \in 1..Len(s) : s[k].name = name => Holds(w, s[k], v) /\ Fits(s[k], v)

\* The names of a list.
Names(s) == {s[k].name : k \in 1..Len(s)}

\* A name whose fields are in the word as they were put is read back.
LEMMA ReadBack ==
  ASSUME NEW w, NEW s, IsList(s), NEW name \in Names(s), NEW v, Shows(w, s, name, v)
  PROVE  name \in DOMAIN ReadFields(w, s) /\ ReadFields(w, s)[name] = v
<1> DEFINE k == ReadLast(s, name)
           value == Unsigned(GetBits(w, k.at, k.len), k.len)
<1>1. k \in ToSet(s) /\ k.name = name
  BY ReadLastIn DEF Names
<1>2. name \in {o.name : o \in ToSet(s)}
  BY <1>1
<1>3. ReadFields(w, s)[name] = IF name \in SignedFields THEN SignExtend(value, k.len) ELSE value
  BY <1>2 DEF ReadFields, ReadLast
<1>4. name \in DOMAIN ReadFields(w, s)
  BY <1>2 DEF ReadFields
<1>5. PICK i \in 1..Len(s) : k = s[i]
  BY <1>1 DEF ToSet, IsList
<1> HIDE DEF k
<1>6. IsField(k) /\ Holds(w, k, v) /\ Fits(k, v)
  BY <1>1, <1>5 DEF IsList, Shows
<1>7. GetBits(w, k.at, k.len) = Bits(v, k.len)
  BY <1>6 DEF Holds
<1>8. value = Unsigned(Bits(v, k.len), k.len)
  BY <1>7
<1> HIDE DEF value
<1>9. v = IF k.name \in SignedFields THEN SignExtend(value, k.len) ELSE value
  BY <1>6, <1>8, ValueRead
<1> QED
  BY <1>1, <1>3, <1>4, <1>9
-----------------------------------------------------------------------------

\* The fields that choose the others have values that decode knows.
Selected(class, f) ==
  \/ class = "DPI" /\ f.opi \in {2, 5}
  \/ class = "DPR" /\ f.m \in {0, 1}
  \/ class = "SDT" /\ f.mode = 0
  \/ class = "SDT" /\ f.mode = 1 /\ f.u = 1
  \/ class = "SDT" /\ f.mode = 1 /\ f.u = 0 /\ f.offmode \in {0, 1}
  \/ class = "B" /\ f.type \in {0, 1, 3}

\* The field cannot be seen in a word: imm12 is put over it.
Hidden(class, f, k) == class = "SDT" /\ f.mode = 1 /\ f.u = 1 /\ k.name = "offmode"

LEMMA FirstIsList ==
  ASSUME NEW class \in {"DPI", "DPR", "SDT", "B"}
  PROVE  IsList(FirstFields(class))
<1>1. CASE class = "DPI"
  BY <1>1 DEF FirstFields, F, IsList, IsField, Apart
<1>2. CASE class = "DPR"
  BY <1>2 DEF FirstFields, F, IsList, IsField, Apart
<1>3. CASE class = "SDT"
  BY <1>3 DEF FirstFields, F, IsList, IsField, Apart
<1>4. CASE class = "B"
  BY <1>4 DEF FirstFields, F, IsList, IsField, Apart
<1> QED
  BY <1>1, <1>2, <1>3, <1>4

LEMMA SecondIsList ==
  ASSUME NEW class, NEW f, Selected(class, f)
  PROVE  /\ IsList(SecondFields(class, f))
         /\ \A k \in 1..Len(FirstFields(class)) : \A m \in 1..Len(SecondFields(class, f)) :
              Apart(FirstFields(class)[k], SecondFields(class, f)[m])
<1>1. CASE class = "DPI" /\ f.opi = 2
  BY <1>1 DEF FirstFields, SecondFields, F, IsList, IsField, Apart
<1>2. CASE class = "DPI" /\ f.opi = 5
  BY <1>2 DEF FirstFields, SecondFields, F, IsList, IsField, Apart
<1>3. CASE class = "DPR" /\ f.m = 0
  BY <1>3 DEF FirstFields, SecondFields, F, IsList, IsField, Apart
<1>4. CASE class = "DPR" /\ f.m = 1
  BY <1>4 DEF FirstFields, SecondFields, F, IsList, IsField, Apart
<1>5. CASE class = "SDT" /\ f.mode = 0
  BY <1>5 DEF FirstFields, SecondFields, F, IsList, IsField, Apart
<1>6. CASE class = "SDT" /\ f.mode = 1
  BY <1>6 DEF FirstFields, SecondFields, F, IsList, IsField, Apart
<1>7. CASE class = "B" /\ f.type = 0
  BY <1>7 DEF FirstFields, SecondFields, F, IsList, IsField, Apart
<1>8. CASE class = "B" /\ f.type = 1
  BY <1>8 DEF FirstFields, SecondFields, F, IsList, IsField, Apart
<1>9. CASE class = "B" /\ f.type = 3
  BY <1>9 DEF FirstFields, SecondFields, F, IsList, IsField, Apart
<1> QED
  BY <1>1, <1>2, <1>3, <1>4, <1>5, <1>6, <1>7, <1>8, <1>9 DEF Selected

LEMMA ThirdIsList ==
  ASSUME NEW class, NEW f, Selected(class, f)
  PROVE  /\ IsList(ThirdFields(class, f))
         /\ \A k \in 1..Len(FirstFields(class)) : \A m \in 1..Len(ThirdFields(class, f)) :
              Apart(FirstFields(class)[k], ThirdFields(class, f)[m])
         /\ \A k \in 1..Len(SecondFields(class, f)) : \A m \in 1..Len(ThirdFields(class, f)) :
              ~Hidden(class, f, SecondFields(class, f)[k])
                => Apart(SecondFields(class, f)[k], ThirdFields(class, f)[m])
<1>1. CASE class # "SDT" \/ f.mode = 0
  BY <1>1 DEF ThirdFields, IsList
<1>2. CASE class = "SDT" /\ f.mode = 1 /\ f.u = 1
  BY <1>2 DEF FirstFields, SecondFields, ThirdFields, F, IsList, IsField, Apart, Hidden
<1>3. CASE class = "SDT" /\ f.mode = 1 /\ f.u = 0 /\ f.offmode = 0
  BY <1>3 DEF FirstFields, SecondFields, ThirdFields, F, IsList, IsField, Apart, Hidden
<1>4. CASE class = "SDT" /\ f.mode = 1 /\ f.u = 0 /\ f.offmode = 1
  BY <1>4 DEF FirstFields, SecondFields, ThirdFields, F, IsList, IsField, Apart, Hidden
<1> QED
  BY <1>1, <1>2, <1>3, <1>4 DEF Selected

\* The fields of an instruction that decode knows, each with a value that fits.
Shaped(class, f) ==
  /\ Selected(class, f)
  /\ \A k \in 1..Len(FirstFields(class)) :
       Fits(FirstFields(class)[k], f[FirstFields(class)[k].name])
  /\ \A k \in 1..Len(SecondFields(class, f)) :
       Fits(SecondFields(class, f)[k], f[SecondFields(class, f)[k].name])
  /\ \A k \in 1..Len(ThirdFields(class, f)) :
       Fits(ThirdFields(class, f)[k], f[ThirdFields(class, f)[k].name])

\* The word after each stage of decode with putBits.
Op0Word(class) == PutBits(EmptyWord, Bits(Op0[class], 4), 25, 4)
FirstWord(class, f) == PutFields(Op0Word(class), FirstFields(class), f)
SecondWord(class, f) == PutFields(FirstWord(class, f), SecondFields(class, f), f)

LEMMA Stages ==
  ASSUME NEW class, NEW f
  PROVE  Encoded(class, f) = PutFields(SecondWord(class, f), ThirdFields(class, f), f)
  BY DEF Encoded, SecondWord, FirstWord, Op0Word

LEMMA FirstHeld ==
  ASSUME NEW class, NEW f, Selected(class, f), NEW k \in 1..Len(FirstFields(class))
  PROVE  Holds(Encoded(class, f), FirstFields(class)[k], f[FirstFields(class)[k].name])
<1> DEFINE g == FirstFields(class)[k]
<1>1. class \in {"DPI", "DPR", "SDT", "B"}
  BY DEF Selected
<1>2. IsList(FirstFields(class)) /\ IsField(g)
  BY <1>1, FirstIsList DEF IsList
<1>3. Holds(FirstWord(class, f), g, f[g.name])
  BY <1>2, Written DEF FirstWord
<1>4. IsList(SecondFields(class, f)) /\ \A m \in 1..Len(SecondFields(class, f)) : Apart(g, SecondFields(class, f)[m])
  BY SecondIsList
<1>5. IsList(ThirdFields(class, f)) /\ \A m \in 1..Len(ThirdFields(class, f)) : Apart(g, ThirdFields(class, f)[m])
  BY ThirdIsList
<1> HIDE DEF g
<1>6. Holds(SecondWord(class, f), g, f[g.name])
  BY <1>2, <1>3, <1>4, Kept DEF SecondWord
<1>7. Holds(Encoded(class, f), g, f[g.name])
  BY <1>2, <1>5, <1>6, Kept, Stages
<1> QED
  BY <1>7 DEF g

LEMMA SecondHeld ==
  ASSUME NEW class, NEW f, Selected(class, f), NEW k \in 1..Len(SecondFields(class, f)),
         ~Hidden(class, f, SecondFields(class, f)[k])
  PROVE  Holds(Encoded(class, f), SecondFields(class, f)[k], f[SecondFields(class, f)[k].name])
<1> DEFINE g == SecondFields(class, f)[k]
<1>1. IsList(SecondFields(class, f)) /\ IsField(g)
  BY SecondIsList DEF IsList
<1>2. Holds(SecondWord(class, f), g, f[g.name])
  BY <1>1, Written DEF SecondWord
<1>3. IsList(ThirdFields(class, f)) /\ \A m \in 1..Len(ThirdFields(class, f)) : Apart(g, ThirdFields(class, f)[m])
  BY ThirdIsList
<1> HIDE DEF g
<1>4. Holds(Encoded(class, f), g, f[g.name])
  BY <1>1, <1>2, <1>3, Kept, Stages
<1> QED
  BY <1>4 DEF g

LEMMA ThirdHeld ==
  ASSUME NEW class, NEW f, Selected(class, f), NEW k \in 1..Len(ThirdFields(class, f))
  PROVE  Holds(Encoded(class, f), ThirdFields(class, f)[k], f[ThirdFields(class, f)[k].name])
  BY ThirdIsList, Written, Stages

\* Values that fit are numbers, and a word that numbers are put into has bits.
LEMMA FitsInt ==
  ASSUME NEW k, IsField(k), NEW v, Fits(k, v)
  PROVE  v \in Int
<1>1. 2^k.len \in Nat /\ 2^(k.len - 1) \in Nat
  BY PowerPositive DEF IsField
<1> QED
  BY <1>1 DEF Fits, SignedRange, UnsignedRange

Words == [WordBits -> {0, 1}]

LEMMA BitsIn ==
  ASSUME NEW v \in Int, NEW n \in Nat, NEW i \in 0 .. n - 1
  PROVE  Bits(v, n)[i] \in {0, 1}
  BY BitIn DEF Bits

LEMMA PutIn ==
  ASSUME NEW w \in Words, NEW s, IsList(s), NEW f,
         \A k \in 1..Len(s) : Fits(s[k], f[s[k].name])
  PROVE  PutFields(w, s, f) \in Words
<1> DEFINE put == PutFields(w, s, f)
<1>1. put = [b \in WordBits |-> put[b]]
  BY DEF PutFields
<1>2. ASSUME NEW b \in WordBits
      PROVE  put[b] \in {0, 1}
  <2>1. CASE \E m \in 1..Len(s) : Covers(s[m], b)
    <3>1. PICK m \in 1..Len(s) : Covers(s[m], b)
      BY <2>1
    <3> DEFINE i == b - s[m].at
    <3>2. IsField(s[m]) /\ i \in 0 .. s[m].len - 1 /\ s[m].at + i = b
      BY <3>1 DEF IsList, IsField, Covers, Span, WordBits
    <3>3. f[s[m].name] \in Int
      BY <3>2, FitsInt
    <3>4. Bits(f[s[m].name], s[m].len)[i] \in {0, 1}
      BY <3>2, <3>3, BitsIn DEF IsField
    <3>5. Holds(put, s[m], f[s[m].name])
      BY Written
    <3> HIDE DEF i, put
    <3>6. put[s[m].at + i] = Bits(f[s[m].name], s[m].len)[i]
      BY <3>2, <3>5, BitsHeld
    <3> QED
      BY <3>2, <3>4, <3>6
  <2>2. CASE ~(\E m \in 1..Len(s) : Covers(s[m], b))
    BY <2>2, Unwritten DEF Words
  <2> QED
    BY <2>1, <2>2
<1> HIDE DEF put
<1>3. put \in Words
  BY <1>1, <1>2 DEF Words
<1> QED
  BY <1>3 DEF put

LEMMA Op0In ==
  ASSUME NEW class \in {"DPI", "DPR", "SDT", "B"}
  PROVE  Op0Word(class) \in Words
<1>1. Op0[class] \in Int
  BY DEF Op0
<1>2. \A i \in 0..3 : Bits(Op0[class], 4)[i] \in {0, 1}
  BY <1>1, BitsIn
<1>3. \A b \in WordBits : b \in Span(25, 4) => b - 25 \in 0..3
  BY DEF WordBits, Span
<1> QED
  BY <1>2, <1>3 DEF Op0Word, PutBits, EmptyWord, Words

LEMMA EncodedIn ==
  ASSUME NEW class, NEW f, Shaped(class, f)
  PROVE  Encoded(class, f) \in Words
<1>1. class \in {"DPI", "DPR", "SDT", "B"} /\ Selected(class, f)
  BY DEF Shaped, Selected
<1>2. FirstWord(class, f) \in Words
  BY <1>1, Op0In, FirstIsList, PutIn DEF FirstWord, Shaped
<1>3. SecondWord(class, f) \in Words
  BY <1>1, <1>2, SecondIsList, PutIn DEF SecondWord, Shaped
<1> QED
  BY <1>1, <1>3, ThirdIsList, PutIn, Stages DEF Shaped
-----------------------------------------------------------------------------

\* Four bits as a number.
LEMMA FourBits ==
  ASSUME NEW bits, \A i \in 0..3 : bits[i] \in {0, 1}
  PROVE  Unsigned(bits, 4) = bits[0] + 2 * bits[1] + 4 * bits[2] + 8 * bits[3]
<1>0. 4 \in Nat
  OBVIOUS
<1>1. PICK f : /\ Unsigned(bits, 4) = f[4] /\ f[0] = 0
               /\ \A k \in 0 .. 4 - 1 : f[k+1] = f[k] + bits[k] * 2^k
  BY <1>0, UnsignedSums, Zenon
<1>2. 2^0 = 1 /\ 2^1 = 2 /\ 2^2 = 4 /\ 2^3 = 8
  OBVIOUS
<1>3. f[1] = f[0] + bits[0] * 2^0
  BY <1>1
<1>4. f[2] = f[1] + bits[1] * 2^1
  BY <1>1
<1>5. f[3] = f[2] + bits[2] * 2^2
  BY <1>1
<1>6. f[4] = f[3] + bits[3] * 2^3
  BY <1>1
<1>7. bits[0] \in {0, 1} /\ bits[1] \in {0, 1} /\ bits[2] \in {0, 1} /\ bits[3] \in {0, 1}
  OBVIOUS
<1> QED
  BY <1>1, <1>2, <1>3, <1>4, <1>5, <1>6, <1>7

\* The bits of op0 that no later field covers say the class.
LEMMA ClassOfBits ==
  ASSUME NEW class \in {"DPI", "DPR", "SDT", "B"}, NEW bits, \A i \in 0..3 : bits[i] \in {0, 1},
         \A i \in 0..3 : \/ bits[i] = Bits(Op0[class], 4)[i]
                         \/ i = 0 /\ class \in {"DPI", "B"}
                         \/ i = 3 /\ class = "DPR"
  PROVE  ClassOf(Unsigned(bits, 4)) = class
<1>1. Unsigned(bits, 4) = bits[0] + 2 * bits[1] + 4 * bits[2] + 8 * bits[3]
  BY FourBits
<1>2. 2^0 = 1 /\ 2^1 = 2 /\ 2^2 = 4 /\ 2^3 = 8
  OBVIOUS
<1>3. bits[0] \in {0, 1} /\ bits[1] \in {0, 1} /\ bits[2] \in {0, 1} /\ bits[3] \in {0, 1}
  OBVIOUS
<1>4. \A i \in 0..3 : Bits(Op0[class], 4)[i] = (Op0[class] \div 2^i) % 2
  BY DEF Bits
<1>5. CASE class = "DPI"
  <2>1. bits[1] = 0 /\ bits[2] = 0 /\ bits[3] = 1
    BY <1>2, <1>4, <1>5 DEF Op0
  <2> QED
    BY <1>1, <1>3, <1>5, <2>1 DEF ClassOf
<1>6. CASE class = "DPR"
  <2>1. bits[0] = 1 /\ bits[1] = 0 /\ bits[2] = 1
    BY <1>2, <1>4, <1>6 DEF Op0
  <2> QED
    BY <1>1, <1>3, <1>6, <2>1 DEF ClassOf
<1>7. CASE class = "SDT"
  <2>1. bits[0] = 0 /\ bits[1] = 0 /\ bits[2] = 1 /\ bits[3] = 1
    BY <1>2, <1>4, <1>7 DEF Op0
  <2> QED
    BY <1>1, <1>3, <1>7, <2>1 DEF ClassOf
<1>8. CASE class = "B"
  <2>1. bits[1] = 1 /\ bits[2] = 0 /\ bits[3] = 1
    BY <1>2, <1>4, <1>8 DEF Op0
  <2> QED
    BY <1>1, <1>3, <1>8, <2>1 DEF ClassOf
<1> QED
  BY <1>5, <1>6, <1>7, <1>8

\* A bit of op0, if no field of a later stage covers it.
LEMMA Op0Bit ==
  ASSUME NEW class, NEW f, Selected(class, f), NEW i \in 0..3,
         ~(i = 0 /\ class \in {"DPI", "B"}), ~(i = 3 /\ class = "DPR")
  PROVE  Encoded(class, f)[25 + i] = Bits(Op0[class], 4)[i]
<1> DEFINE b == 25 + i
<1>1. b \in WordBits /\ b \in Span(25, 4) /\ b - 25 = i
  BY DEF WordBits, Span
<1>2. Op0Word(class)[b] = Bits(Op0[class], 4)[i]
  BY <1>1 DEF Op0Word, PutBits
<1>3. \A k \in 1..Len(FirstFields(class)) : ~Covers(FirstFields(class)[k], b)
  BY DEF Selected, FirstFields, F, Covers, Span
<1>4. \A k \in 1..Len(SecondFields(class, f)) : ~Covers(SecondFields(class, f)[k], b)
  <2>1. CASE class = "DPI" /\ f.opi = 2
    BY <2>1 DEF SecondFields, F, Covers, Span
  <2>2. CASE class = "DPI" /\ f.opi = 5
    BY <2>2 DEF SecondFields, F, Covers, Span
  <2>3. CASE class = "DPR" /\ f.m = 0
    BY <2>3 DEF SecondFields, F, Covers, Span
  <2>4. CASE class = "DPR" /\ f.m = 1
    BY <2>4 DEF SecondFields, F, Covers, Span
  <2>5. CASE class = "SDT" /\ f.mode = 0
    BY <2>5 DEF SecondFields, F, Covers, Span
  <2>6. CASE class = "SDT" /\ f.mode = 1
    BY <2>6 DEF SecondFields, F, Covers, Span
  <2>7. CASE class = "B" /\ f.type = 0
    BY <2>7 DEF SecondFields, F, Covers, Span
  <2>8. CASE class = "B" /\ f.type = 1
    BY <2>8 DEF SecondFields, F, Covers, Span
  <2>9. CASE class = "B" /\ f.type = 3
    BY <2>9 DEF SecondFields, F, Covers, Span
  <2> QED
    BY <2>1, <2>2, <2>3, <2>4, <2>5, <2>6, <2>7, <2>8, <2>9 DEF Selected
<1>5. \A k \in 1..Len(ThirdFields(class, f)) : ~Covers(ThirdFields(class, f)[k], b)
  <2>1. CASE class # "SDT" \/ f.mode = 0
    BY <2>1 DEF ThirdFields
  <2>2. CASE class = "SDT" /\ f.mode = 1 /\ f.u = 1
    BY <2>2 DEF ThirdFields, F, Covers, Span
  <2>3. CASE class = "SDT" /\ f.mode = 1 /\ f.u = 0 /\ f.offmode = 0
    BY <2>3 DEF ThirdFields, F, Covers, Span
  <2>4. CASE class = "SDT" /\ f.mode = 1 /\ f.u = 0 /\ f.offmode = 1
    BY <2>4 DEF ThirdFields, F, Covers, Span
  <2> QED
    BY <2>1, <2>2, <2>3, <2>4 DEF Selected
<1> HIDE DEF b
<1>6. FirstWord(class, f)[b] = Op0Word(class)[b]
  BY <1>1, <1>3, Unwritten DEF FirstWord
<1>7. SecondWord(class, f)[b] = FirstWord(class, f)[b]
  BY <1>1, <1>4, Unwritten DEF SecondWord
<1>8. Encoded(class, f)[b] = SecondWord(class, f)[b]
  BY <1>1, <1>5, Unwritten, Stages
<1> QED
  BY <1>2, <1>6, <1>7, <1>8 DEF b

LEMMA ClassRead ==
  ASSUME NEW class, NEW f, Shaped(class, f)
  PROVE  ClassOf(Unsigned(GetBits(Encoded(class, f), 25, 4), 4)) = class
<1> DEFINE bits == GetBits(Encoded(class, f), 25, 4)
<1>1. class \in {"DPI", "DPR", "SDT", "B"} /\ Selected(class, f)
  BY DEF Shaped, Selected
<1>2. \A i \in 0..3 : bits[i] = Encoded(class, f)[25 + i] /\ 25 + i \in WordBits
  BY DEF GetBits, WordBits
<1>3. \A i \in 0..3 : bits[i] \in {0, 1}
  BY <1>2, EncodedIn DEF Words
<1>4. \A i \in 0..3 : \/ bits[i] = Bits(Op0[class], 4)[i]
                      \/ i = 0 /\ class \in {"DPI", "B"}
                      \/ i = 3 /\ class = "DPR"
  BY <1>1, <1>2, Op0Bit
<1> HIDE DEF bits
<1>5. ClassOf(Unsigned(bits, 4)) = class
  BY <1>1, <1>3, <1>4, ClassOfBits
<1> QED
  BY <1>5 DEF bits
-----------------------------------------------------------------------------

\* The later lists depend on the fields of the earlier ones alone.
LEMMA SecondSame ==
  ASSUME NEW class, NEW f, NEW g, Selected(class, f),
         \A k \in 1..Len(FirstFields(class)) :
           g[FirstFields(class)[k].name] = f[FirstFields(class)[k].name]
  PROVE  SecondFields(class, g) = SecondFields(class, f)
<1>1. CASE class = "DPI"
  <2>1. FirstFields(class)[3].name = "opi" /\ 3 \in 1..Len(FirstFields(class))
    BY <1>1 DEF FirstFields, F
  <2>2. g.opi = f.opi
    BY <2>1
  <2> QED
    BY <1>1, <2>2 DEF SecondFields
<1>2. CASE class = "DPR"
  <2>1. FirstFields(class)[3].name = "m" /\ 3 \in 1..Len(FirstFields(class))
    BY <1>2 DEF FirstFields, F
  <2>2. g.m = f.m
    BY <2>1
  <2> QED
    BY <1>2, <2>2 DEF SecondFields
<1>3. CASE class = "SDT"
  <2>1. FirstFields(class)[3].name = "mode" /\ 3 \in 1..Len(FirstFields(class))
    BY <1>3 DEF FirstFields, F
  <2>2. g.mode = f.mode
    BY <2>1
  <2> QED
    BY <1>3, <2>2 DEF SecondFields
<1>4. CASE class = "B"
  <2>1. FirstFields(class)[1].name = "type" /\ 1 \in 1..Len(FirstFields(class))
    BY <1>4 DEF FirstFields, F
  <2>2. g.type = f.type
    BY <2>1
  <2> QED
    BY <1>4, <2>2 DEF SecondFields
<1> QED
  BY <1>1, <1>2, <1>3, <1>4 DEF Selected

LEMMA ThirdSame ==
  ASSUME NEW class, NEW f, NEW g, Selected(class, f),
         class = "SDT" => g.mode = f.mode,
         class = "SDT" /\ f.mode = 1 => g.u = f.u,
         class = "SDT" /\ f.mode = 1 /\ f.u = 0 => g.offmode = f.offmode
  PROVE  ThirdFields(class, g) = ThirdFields(class, f)
  BY DEF Selected, ThirdFields

LEMMA BesideIn ==
  ASSUME NEW f, NEW g, NEW x \in DOMAIN f
  PROVE  x \in DOMAIN (f ++ g) /\ (f ++ g)[x] = f[x]
  BY DEF ++

LEMMA BesideOut ==
  ASSUME NEW f, NEW g, NEW x \in DOMAIN g, x \notin DOMAIN f
  PROVE  x \in DOMAIN (f ++ g) /\ (f ++ g)[x] = g[x]
  BY DEF ++

\* No name is in two of the lists, and a name that occurs twice in one has one
\* value to fit.
LEMMA NamesOnce ==
  ASSUME NEW class, NEW f, Selected(class, f)
  PROVE  /\ Names(FirstFields(class)) \cap Names(SecondFields(class, f)) = {}
         /\ Names(FirstFields(class)) \cap Names(ThirdFields(class, f)) = {}
         /\ Names(SecondFields(class, f)) \cap Names(ThirdFields(class, f)) = {}
<1>1. CASE class = "DPI" /\ f.opi = 2
  BY <1>1 DEF FirstFields, SecondFields, ThirdFields, F, Names
<1>2. CASE class = "DPI" /\ f.opi = 5
  BY <1>2 DEF FirstFields, SecondFields, ThirdFields, F, Names
<1>3. CASE class = "DPR" /\ f.m = 0
  BY <1>3 DEF FirstFields, SecondFields, ThirdFields, F, Names
<1>4. CASE class = "DPR" /\ f.m = 1
  BY <1>4 DEF FirstFields, SecondFields, ThirdFields, F, Names
<1>5. CASE class = "SDT" /\ f.mode = 0
  BY <1>5 DEF FirstFields, SecondFields, ThirdFields, F, Names
<1>6. CASE class = "SDT" /\ f.mode = 1 /\ f.u = 1
  BY <1>6 DEF FirstFields, SecondFields, ThirdFields, F, Names
<1>7. CASE class = "SDT" /\ f.mode = 1 /\ f.u = 0 /\ f.offmode = 0
  BY <1>7 DEF FirstFields, SecondFields, ThirdFields, F, Names
<1>8. CASE class = "SDT" /\ f.mode = 1 /\ f.u = 0 /\ f.offmode = 1
  BY <1>8 DEF FirstFields, SecondFields, ThirdFields, F, Names
<1>9. CASE class = "B" /\ f.type = 0
  BY <1>9 DEF FirstFields, SecondFields, ThirdFields, F, Names
<1>10. CASE class = "B" /\ f.type = 1
  BY <1>10 DEF FirstFields, SecondFields, ThirdFields, F, Names
<1>11. CASE class = "B" /\ f.type = 3
  BY <1>11 DEF FirstFields, SecondFields, ThirdFields, F, Names
<1> QED
  BY <1>1, <1>2, <1>3, <1>4, <1>5, <1>6, <1>7, <1>8, <1>9, <1>10, <1>11 DEF Selected

LEMMA ReadNames ==
  ASSUME NEW w, NEW s, IsList(s)
  PROVE  DOMAIN ReadFields(w, s) = Names(s)
  BY DEF ReadFields, ToSet, IsList, Names

\* The three readings of decode with getBits, of the word that was put.
FirstRead(class, f) == ReadFields(Encoded(class, f), FirstFields(class))
SecondRead(class, f) ==
  FirstRead(class, f) ++ ReadFields(Encoded(class, f), SecondFields(class, f))
ThirdRead(class, f) ==
  SecondRead(class, f) ++ ReadFields(Encoded(class, f), ThirdFields(class, f))

LEMMA FirstReadBack ==
  ASSUME NEW class, NEW f, Shaped(class, f), NEW name \in Names(FirstFields(class))
  PROVE  name \in DOMAIN FirstRead(class, f) /\ FirstRead(class, f)[name] = f[name]
<1>1. Selected(class, f) /\ class \in {"DPI", "DPR", "SDT", "B"}
  BY DEF Shaped, Selected
<1>2. IsList(FirstFields(class))
  BY <1>1, FirstIsList
<1>3. Shows(Encoded(class, f), FirstFields(class), name, f[name])
  BY <1>1, FirstHeld DEF Shaped, Shows
<1> QED
  BY <1>2, <1>3, ReadBack DEF FirstRead

LEMMA SecondReadBack ==
  ASSUME NEW class, NEW f, Shaped(class, f), NEW name \in Names(SecondFields(class, f)),
         ~(class = "SDT" /\ f.mode = 1 /\ f.u = 1 /\ name = "offmode")
  PROVE  name \in DOMAIN SecondRead(class, f) /\ SecondRead(class, f)[name] = f[name]
<1> DEFINE read == ReadFields(Encoded(class, f), SecondFields(class, f))
<1>1. Selected(class, f) /\ class \in {"DPI", "DPR", "SDT", "B"}
  BY DEF Shaped, Selected
<1>2. IsList(SecondFields(class, f))
  BY <1>1, SecondIsList
<1>3. Shows(Encoded(class, f), SecondFields(class, f), name, f[name])
  BY <1>1, SecondHeld DEF Shaped, Shows, Hidden
<1>4. name \in DOMAIN read /\ read[name] = f[name]
  BY <1>2, <1>3, ReadBack
<1>5. name \notin DOMAIN FirstRead(class, f)
  <2>1. DOMAIN FirstRead(class, f) = Names(FirstFields(class))
    BY <1>1, FirstIsList, ReadNames DEF FirstRead
  <2> QED
    BY <1>1, <2>1, NamesOnce
<1>6. SecondRead(class, f) = FirstRead(class, f) ++ read
  BY DEF SecondRead
<1> HIDE DEF read
<1> QED
  BY <1>4, <1>5, <1>6, BesideOut

LEMMA ThirdReadBack ==
  ASSUME NEW class, NEW f, Shaped(class, f), NEW name \in Names(ThirdFields(class, f))
  PROVE  name \in DOMAIN ThirdRead(class, f) /\ ThirdRead(class, f)[name] = f[name]
<1> DEFINE read == ReadFields(Encoded(class, f), ThirdFields(class, f))
<1>1. Selected(class, f) /\ class \in {"DPI", "DPR", "SDT", "B"}
  BY DEF Shaped, Selected
<1>2. IsList(ThirdFields(class, f))
  BY <1>1, ThirdIsList
<1>3. Shows(Encoded(class, f), ThirdFields(class, f), name, f[name])
  BY <1>1, ThirdHeld DEF Shaped, Shows
<1>4. name \in DOMAIN read /\ read[name] = f[name]
  BY <1>2, <1>3, ReadBack
<1>5. name \notin DOMAIN SecondRead(class, f)
  <2>1. DOMAIN FirstRead(class, f) = Names(FirstFields(class))
    BY <1>1, FirstIsList, ReadNames DEF FirstRead
  <2>2. DOMAIN ReadFields(Encoded(class, f), SecondFields(class, f)) = Names(SecondFields(class, f))
    BY <1>1, SecondIsList, ReadNames
  <2>3. name \notin Names(FirstFields(class)) /\ name \notin Names(SecondFields(class, f))
    BY <1>1, NamesOnce
  <2> QED
    BY <2>1, <2>2, <2>3 DEF SecondRead, ++
<1>6. ThirdRead(class, f) = SecondRead(class, f) ++ read
  BY DEF ThirdRead
<1> HIDE DEF read
<1> QED
  BY <1>4, <1>5, <1>6, BesideOut

\* decode with getBits chooses the lists that decode with putBits chose.
LEMMA ReadingsAre ==
  ASSUME NEW class, NEW f, Shaped(class, f)
  PROVE  Decoded(Encoded(class, f)) = [class |-> class, f |-> ThirdRead(class, f)]
<1> DEFINE w == Encoded(class, f)
           first == FirstRead(class, f)
           second == SecondRead(class, f)
<1>1. Selected(class, f)
  BY DEF Shaped
<1>2. SecondFields(class, first) = SecondFields(class, f)
  BY <1>1, FirstReadBack, SecondSame DEF Names
<1>3. class = "SDT" => second.mode = f.mode
  <2> SUFFICES ASSUME class = "SDT" PROVE second.mode = f.mode
    OBVIOUS
  <2>1. "mode" \in Names(FirstFields(class))
    BY DEF FirstFields, F, Names
  <2>2. "mode" \in DOMAIN first /\ first.mode = f.mode
    BY <2>1, FirstReadBack
  <2> HIDE DEF first
  <2>3. second = first ++ ReadFields(w, SecondFields(class, f))
    BY DEF SecondRead, first
  <2> QED
    BY <2>2, <2>3, BesideIn
<1>4. class = "SDT" /\ f.mode = 1 => second.u = f.u
  <2> SUFFICES ASSUME class = "SDT", f.mode = 1 PROVE second.u = f.u
    OBVIOUS
  <2>1. "u" \in Names(SecondFields(class, f))
    BY DEF SecondFields, F, Names
  <2> QED
    BY <2>1, SecondReadBack
<1>5. class = "SDT" /\ f.mode = 1 /\ f.u = 0 => second.offmode = f.offmode
  <2> SUFFICES ASSUME class = "SDT", f.mode = 1, f.u = 0 PROVE second.offmode = f.offmode
    OBVIOUS
  <2>1. "offmode" \in Names(SecondFields(class, f))
    BY DEF SecondFields, F, Names
  <2> QED
    BY <2>1, SecondReadBack
<1>6. ThirdFields(class, second) = ThirdFields(class, f)
  BY <1>1, <1>3, <1>4, <1>5, ThirdSame
<1>7. ClassOf(Unsigned(GetBits(w, 25, 4), 4)) = class
  BY ClassRead
<1>8. first = ReadFields(w, FirstFields(class))
  BY DEF FirstRead
<1>9. second = first ++ ReadFields(w, SecondFields(class, first))
  BY <1>2 DEF SecondRead
<1>10. ThirdRead(class, f) = second ++ ReadFields(w, ThirdFields(class, second))
  BY <1>6 DEF ThirdRead
<1> HIDE DEF w, first, second
<1> QED
  BY <1>7, <1>8, <1>9, <1>10 DEF Decoded, w

\* The names of the fields that a word shows.
Shown(class, f) ==
  Names(FirstFields(class)) \cup Names(ThirdFields(class, f))
    \cup {name \in Names(SecondFields(class, f)) :
            ~(class = "SDT" /\ f.mode = 1 /\ f.u = 1 /\ name = "offmode")}

\* What was put is what is read.
LEMMA ShownAreRead ==
  ASSUME NEW class, NEW f, Shaped(class, f), NEW name \in Shown(class, f)
  PROVE  LET dec_ == Decoded(Encoded(class, f))
         IN  dec_.class = class /\ name \in DOMAIN dec_.f /\ dec_.f[name] = f[name]
<1>1. name \in DOMAIN ThirdRead(class, f) /\ ThirdRead(class, f)[name] = f[name]
  <2>1. CASE name \in Names(FirstFields(class))
    <3>1. name \in DOMAIN FirstRead(class, f) /\ FirstRead(class, f)[name] = f[name]
      BY <2>1, FirstReadBack
    <3>2. name \in DOMAIN SecondRead(class, f) /\ SecondRead(class, f)[name] = f[name]
      BY <3>1, BesideIn DEF SecondRead
    <3> QED
      BY <3>2, BesideIn DEF ThirdRead
  <2>2. CASE name \in Names(ThirdFields(class, f))
    BY <2>2, ThirdReadBack
  <2>3. CASE /\ name \in Names(SecondFields(class, f))
             /\ ~(class = "SDT" /\ f.mode = 1 /\ f.u = 1 /\ name = "offmode")
    <3>1. name \in DOMAIN SecondRead(class, f) /\ SecondRead(class, f)[name] = f[name]
      BY <2>3, SecondReadBack
    <3> QED
      BY <3>1, BesideIn DEF ThirdRead
  <2> QED
    BY <2>1, <2>2, <2>3 DEF Shown
<1> QED
  BY <1>1, ReadingsAre
-----------------------------------------------------------------------------

\* The values of a line's tokens.
LEMMA TokenValues ==
  /\ \A r \in Register : r.n \in 0..31 /\ r.x \in BOOLEAN /\ r.k = "reg" /\ GetMode(r) \in {0, 1}
  /\ \A V : \A r \in Immediate(V) : r.v \in V /\ r.k = "imm"
  /\ \A V : \A r \in ShiftName(V) : r.v \in V /\ r.k = "shift"
  BY DEF Register, Immediate, ShiftName, GetMode

LEMMA ArithmeticImmediateTokens ==
  ASSUME NEW l \in ArithmeticImmediates
  PROVE  /\ l.t = "dp" /\ l.name \in ToSet(Arithmetics) /\ IsImmediateOp(l)
         /\ GetMode(l.tokens[1]) \in 0..1 /\ l.tokens[1].n \in 0..31 /\ l.tokens[2].n \in 0..31
         /\ l.tokens[3].v \in UnsignedRange(12)
         /\ Len(l.tokens) > 3 => l.tokens[5].v \in {0, 12}
<1>1. l.t = "dp" /\ l.name \in ToSet(Arithmetics) /\ l.tokens \in ImmediateTokens
  BY DEF ArithmeticImmediates
<1>2. CASE l.tokens \in Register \X Register \X Immediate(UnsignedRange(12))
  <2>1. /\ l.tokens[1] \in Register /\ l.tokens[2] \in Register /\ Len(l.tokens) = 3
        /\ l.tokens[3] \in Immediate(UnsignedRange(12))
    BY <1>2
  <2> QED
    BY <1>1, <2>1, TokenValues DEF IsImmediateOp
<1>3. CASE l.tokens \in Register \X Register \X Immediate(UnsignedRange(12))
                         \X ShiftName({0}) \X Immediate({0, 12})
  <2>1. /\ l.tokens[1] \in Register /\ l.tokens[2] \in Register
        /\ l.tokens[3] \in Immediate(UnsignedRange(12)) /\ l.tokens[5] \in Immediate({0, 12})
    BY <1>3
  <2> QED
    BY <1>1, <2>1, TokenValues DEF IsImmediateOp
<1> QED
  BY <1>1, <1>2, <1>3 DEF ImmediateTokens

LEMMA WideMoveLineTokens ==
  ASSUME NEW l \in WideMoveLines
  PROVE  /\ l.t = "dp" /\ l.name \in {"movn", "movz", "movk"} /\ IsImmediateOp(l)
         /\ GetMode(l.tokens[1]) \in 0..1 /\ l.tokens[1].n \in 0..31
         /\ l.tokens[2].v \in UnsignedRange(16)
         /\ Len(l.tokens) > 2 => l.tokens[4].v \in {0, 16, 32, 48}
<1>1. l.t = "dp" /\ l.name \in {"movn", "movz", "movk"} /\ l.tokens \in WideMoveTokens
  BY DEF WideMoveLines
<1>2. CASE l.tokens \in Register \X Immediate(UnsignedRange(16))
  <2>1. /\ l.tokens[1] \in Register /\ Len(l.tokens) = 2
        /\ l.tokens[2] \in Immediate(UnsignedRange(16))
    BY <1>2
  <2> QED
    BY <1>1, <2>1, TokenValues DEF IsImmediateOp
<1>3. CASE l.tokens \in Register \X Immediate(UnsignedRange(16))
                         \X ShiftName({0}) \X Immediate({0, 16, 32, 48})
  <2>1. /\ l.tokens[1] \in Register /\ l.tokens[2] \in Immediate(UnsignedRange(16))
        /\ l.tokens[3] \in ShiftName({0}) /\ l.tokens[4] \in Immediate({0, 16, 32, 48})
    BY <1>3
  <2>2. l.tokens[3].k = "shift" /\ l.tokens[3].v = 0
    BY <2>1, TokenValues
  <2>3. IsImmediateOp(l)
    BY <2>2 DEF IsImmediateOp
  <2>4. /\ GetMode(l.tokens[1]) \in 0..1 /\ l.tokens[1].n \in 0..31
        /\ l.tokens[2].v \in UnsignedRange(16) /\ l.tokens[4].v \in {0, 16, 32, 48}
    BY <2>1, TokenValues
  <2> QED
    BY <1>1, <2>3, <2>4
<1> QED
  BY <1>1, <1>2, <1>3 DEF WideMoveTokens

LEMMA ShiftedLineTokens ==
  ASSUME NEW l \in ShiftedLines
  PROVE  /\ l.t = "dp" /\ l.name \in ToSet(Arithmetics) \cup ToSet(Logical) /\ ~IsImmediateOp(l)
         /\ GetMode(l.tokens[1]) \in 0..1 /\ l.tokens[1].n \in 0..31 /\ l.tokens[2].n \in 0..31
         /\ l.tokens[3].n \in 0..31
         /\ Len(l.tokens) > 3 => l.tokens[4].v \in 0..3 /\ l.tokens[5].v \in UnsignedRange(6)
<1>1. /\ l.t = "dp" /\ l.name \in ToSet(Arithmetics) \cup ToSet(Logical)
      /\ l.tokens \in RegisterTokens
  BY DEF ShiftedLines
<1>2. CASE l.tokens \in Register \X Register \X Register
  <2>1. /\ l.tokens[1] \in Register /\ l.tokens[2] \in Register /\ l.tokens[3] \in Register
        /\ Len(l.tokens) = 3
    BY <1>2
  <2> QED
    BY <1>1, <2>1, TokenValues DEF IsImmediateOp
<1>3. CASE l.tokens \in Register \X Register \X Register
                         \X ShiftName(0..3) \X Immediate(UnsignedRange(6))
  <2>1. /\ l.tokens[1] \in Register /\ l.tokens[2] \in Register /\ l.tokens[3] \in Register
        /\ l.tokens[4] \in ShiftName(0..3) /\ l.tokens[5] \in Immediate(UnsignedRange(6))
        /\ Len(l.tokens) = 5
    BY <1>3
  <2> QED
    BY <1>1, <2>1, TokenValues DEF IsImmediateOp
<1> QED
  BY <1>1, <1>2, <1>3 DEF RegisterTokens

LEMMA MultiplyLineTokens ==
  ASSUME NEW l \in MultiplyLines
  PROVE  /\ l.t = "dp" /\ l.name \in ToSet(Multiply) /\ ~IsImmediateOp(l)
         /\ GetMode(l.tokens[1]) \in 0..1 /\ l.tokens[1].n \in 0..31 /\ l.tokens[2].n \in 0..31
         /\ l.tokens[3].n \in 0..31 /\ l.tokens[4].n \in 0..31
<1>1. /\ l.t = "dp" /\ l.name \in ToSet(Multiply)
      /\ l.tokens \in Register \X Register \X Register \X Register
  BY DEF MultiplyLines
<1>2. /\ l.tokens[1] \in Register /\ l.tokens[2] \in Register /\ l.tokens[3] \in Register
      /\ l.tokens[4] \in Register /\ Len(l.tokens) = 4
  BY <1>1
<1> QED
  BY <1>1, <1>2, TokenValues DEF IsImmediateOp

LEMMA ZeroTokens ==
  ASSUME NEW l \in ZeroLines
  PROVE  /\ l.t = "ls" /\ l.name \in Mnemonics /\ l.form = "zero"
         /\ GetMode(l.rt) \in 0..1 /\ l.rt.n \in 0..31 /\ l.xn.n \in 0..31
  BY TokenValues DEF ZeroLines

LEMMA UnsignedTokens ==
  ASSUME NEW l \in UnsignedLines
  PROVE  /\ l.t = "ls" /\ l.name \in Mnemonics /\ l.form = "unsigned"
         /\ GetMode(l.rt) \in 0..1 /\ l.rt.n \in 0..31 /\ l.xn.n \in 0..31
         /\ l.v \in 0 .. 8 * (2^12 - 1)
<1>1. /\ l.t = "ls" /\ l.name \in Mnemonics /\ l.form = "unsigned"
      /\ l.rt \in Register /\ l.xn \in Register
  BY DEF UnsignedLines
<1>2. l.v \in 0 .. 8 * (2^12 - 1)
  BY DEF UnsignedLines
<1> QED
  BY <1>1, <1>2, TokenValues

LEMMA RegisterOffsetTokens ==
  ASSUME NEW l \in RegisterOffsetLines
  PROVE  /\ l.t = "ls" /\ l.name \in Mnemonics /\ l.form = "register"
         /\ GetMode(l.rt) \in 0..1 /\ l.rt.n \in 0..31 /\ l.xn.n \in 0..31 /\ l.xm.n \in 0..31
  BY TokenValues DEF RegisterOffsetLines

LEMMA IndexTokens ==
  ASSUME NEW l \in IndexLines
  PROVE  /\ l.t = "ls" /\ l.name \in Mnemonics /\ l.form \in {"pre", "post"}
         /\ GetMode(l.rt) \in 0..1 /\ l.rt.n \in 0..31 /\ l.xn.n \in 0..31
         /\ l.v \in SignedRange(9)
  BY TokenValues DEF IndexLines

LEMMA LiteralTokens ==
  ASSUME NEW l \in LiteralLines
  PROVE  /\ l.t = "ls" /\ l.form = "literal"
         /\ GetMode(l.rt) \in 0..1 /\ l.rt.n \in 0..31 /\ l.off \in SignedRange(19)
  BY TokenValues DEF LiteralLines

LEMMA UnconditionalTokens ==
  ASSUME NEW l \in UnconditionalLines
  PROVE  l.t = "b" /\ l.form = "bu" /\ l.off \in SignedRange(26)
  BY DEF UnconditionalLines

LEMMA BranchRegisterTokens ==
  ASSUME NEW l \in BranchRegisterLines
  PROVE  l.t = "b" /\ l.form = "br" /\ l.xn.n \in 0..31
  BY TokenValues DEF BranchRegisterLines

LEMMA ConditionalTokens ==
  ASSUME NEW l \in ConditionalLines
  PROVE  /\ l.t = "b" /\ l.form = "bc" /\ l.off \in SignedRange(19)
         /\ Cond[l.cond][1] \in 0..7 /\ Cond[l.cond][2] \in 0..1
<1>1. l.t = "b" /\ l.form = "bc" /\ l.off \in SignedRange(19) /\ l.cond \in DOMAIN Cond
  BY DEF ConditionalLines
<1>2. Cond[l.cond] \in (0..7) \X (0..1)
  BY <1>1 DEF Cond
<1> QED
  BY <1>1, <1>2

\* The position of a name in the arrays of names.
LEMMA ArithmeticPositions ==
  \A name \in ToSet(Arithmetics) : Position(name, Arithmetics) \in 0..3
  BY DEF ToSet, Arithmetics, Position

LEMMA LogicalPositions ==
  \A name \in ToSet(Logical) : Position(name, Logical) \in 0..7
  BY DEF ToSet, Logical, Position

LEMMA WideMovePositions ==
  \A name \in {"movn", "movz", "movk"} : Position(name, WideMoves) \in 0..3
<1>1. Len(WideMoves) = 4
  BY DEF WideMoves
<1>2. ASSUME NEW name \in {"movn", "movz", "movk"}
      PROVE  Position(name, WideMoves) \in 0..3
  <2>1. WideMoves[1] = "movn" /\ WideMoves[3] = "movz" /\ WideMoves[4] = "movk"
    BY DEF WideMoves
  <2>2. \E k \in 1..Len(WideMoves) : WideMoves[k] = name
    BY <1>1, <2>1
  <2>3. (CHOOSE k \in 1..Len(WideMoves) : WideMoves[k] = name) \in 1..4
    BY <1>1, <2>2
  <2> QED
    BY <2>3 DEF Position
<1> QED
  BY <1>2

LEMMA MultiplyPositions ==
  \A name \in ToSet(Multiply) : Position(name, Multiply) \in 0..1
  BY DEF ToSet, Multiply, Position

LEMMA ZeroFits == 0 \in UnsignedRange(12) /\ 0 \in UnsignedRange(6)
<1>1. 12 \in Nat /\ 6 \in Nat
  OBVIOUS
<1>2. 2^12 \in Nat \ {0} /\ 2^6 \in Nat \ {0}
  BY <1>1, PowerPositive
<1> QED
  BY <1>2 DEF UnsignedRange

LEMMA ScaledFits ==
  ASSUME NEW v \in 0 .. 8 * (2^12 - 1)
  PROVE  v \div 8 \in UnsignedRange(12)
<1> DEFINE p == 2^12
<1>1. 12 \in Nat
  OBVIOUS
<1>2. p \in Nat \ {0}
  BY <1>1, PowerPositive
<1> HIDE DEF p
<1>3. v \div 8 \in 0 .. p - 1
  BY <1>2 DEF p
<1> QED
  BY <1>3 DEF UnsignedRange, p

\* Values that fields of these lengths hold.
LEMMA FitsIn ==
  ASSUME NEW name, name \notin SignedFields, NEW at
  PROVE  /\ \A v \in 0..1 : Fits(F(name, at, 1), v)
         /\ \A v \in 0..3 : Fits(F(name, at, 2), v)
         /\ \A v \in 0..7 : Fits(F(name, at, 3), v)
         /\ \A v \in 0..15 : Fits(F(name, at, 4), v)
         /\ \A v \in 0..31 : Fits(F(name, at, 5), v)
         /\ \A v \in 0..63 : Fits(F(name, at, 6), v)
  BY DEF Fits, F, UnsignedRange

LEMMA FitsLong ==
  ASSUME NEW name, name \notin SignedFields, NEW at, NEW n, NEW v \in UnsignedRange(n)
  PROVE  Fits(F(name, at, n), v)
  BY DEF Fits, F

LEMMA FitsSigned ==
  ASSUME NEW name \in SignedFields, NEW at, NEW n, NEW v \in SignedRange(n)
  PROVE  Fits(F(name, at, n), v)
  BY DEF Fits, F

\* The fields that a line assigns fit, and they are the ones that its word shows.
Made(class, f, stale) ==
  /\ Shaped(class, f ++ [offmode |-> stale])
  /\ DOMAIN f = Shown(class, f ++ [offmode |-> stale])

LEMMA FieldName == \A name, at, len : F(name, at, len).name = name
  BY DEF F

LEMMA FirstDPI ==
  /\ \A f : /\ Fits(F("sf", 31, 1), f.sf) /\ Fits(F("opc", 29, 2), f.opc)
             /\ Fits(F("opi", 23, 3), f.opi) /\ Fits(F("rd", 0, 5), f.rd)
             => \A k \in 1..Len(FirstFields("DPI")) :
                  Fits(FirstFields("DPI")[k], f[FirstFields("DPI")[k].name])
  /\ Names(FirstFields("DPI")) = {"sf", "opc", "opi", "rd"}
<1>1. FirstFields("DPI") = <<F("sf", 31, 1), F("opc", 29, 2), F("opi", 23, 3), F("rd", 0, 5)>>
  BY DEF FirstFields
<1>2. Len(FirstFields("DPI")) = 4
  BY <1>1
<1>3. \A k \in 1..4 : k = 1 \/ k = 2 \/ k = 3 \/ k = 4
  OBVIOUS
<1>4. /\ FirstFields("DPI")[1] = F("sf", 31, 1) /\ FirstFields("DPI")[2] = F("opc", 29, 2)
      /\ FirstFields("DPI")[3] = F("opi", 23, 3) /\ FirstFields("DPI")[4] = F("rd", 0, 5)
  BY <1>1
<1>5. ASSUME NEW f,
             Fits(F("sf", 31, 1), f.sf), Fits(F("opc", 29, 2), f.opc), Fits(F("opi", 23, 3), f.opi),
             Fits(F("rd", 0, 5), f.rd)
      PROVE  \A k \in 1..Len(FirstFields("DPI")) :
               Fits(FirstFields("DPI")[k], f[FirstFields("DPI")[k].name])
  BY <1>2, <1>3, <1>4, <1>5, FieldName
<1>6. Names(FirstFields("DPI")) = {"sf", "opc", "opi", "rd"}
  BY DEF FirstFields, F, Names
<1> QED
  BY <1>5, <1>6

LEMMA FirstDPR ==
  /\ \A f : /\ Fits(F("sf", 31, 1), f.sf) /\ Fits(F("opc", 29, 2), f.opc) /\ Fits(F("m", 28, 1), f.m)
             /\ Fits(F("rm", 16, 5), f.rm) /\ Fits(F("rn", 5, 5), f.rn)
             /\ Fits(F("rd", 0, 5), f.rd)
             => \A k \in 1..Len(FirstFields("DPR")) :
                  Fits(FirstFields("DPR")[k], f[FirstFields("DPR")[k].name])
  /\ Names(FirstFields("DPR")) = {"sf", "opc", "m", "rm", "rn", "rd"}
<1>1. FirstFields("DPR") = <<F("sf", 31, 1), F("opc", 29, 2), F("m", 28, 1), F("rm", 16, 5), F("rn", 5, 5),
         F("rd", 0, 5)>>
  BY DEF FirstFields
<1>2. Len(FirstFields("DPR")) = 6
  BY <1>1
<1>3. \A k \in 1..6 : k = 1 \/ k = 2 \/ k = 3 \/ k = 4 \/ k = 5 \/ k = 6
  OBVIOUS
<1>4. /\ FirstFields("DPR")[1] = F("sf", 31, 1) /\ FirstFields("DPR")[2] = F("opc", 29, 2)
      /\ FirstFields("DPR")[3] = F("m", 28, 1) /\ FirstFields("DPR")[4] = F("rm", 16, 5)
      /\ FirstFields("DPR")[5] = F("rn", 5, 5) /\ FirstFields("DPR")[6] = F("rd", 0, 5)
  BY <1>1
<1>5. ASSUME NEW f,
             Fits(F("sf", 31, 1), f.sf), Fits(F("opc", 29, 2), f.opc), Fits(F("m", 28, 1), f.m),
             Fits(F("rm", 16, 5), f.rm), Fits(F("rn", 5, 5), f.rn), Fits(F("rd", 0, 5), f.rd)
      PROVE  \A k \in 1..Len(FirstFields("DPR")) :
               Fits(FirstFields("DPR")[k], f[FirstFields("DPR")[k].name])
  BY <1>2, <1>3, <1>4, <1>5, FieldName
<1>6. Names(FirstFields("DPR")) = {"sf", "opc", "m", "rm", "rn", "rd"}
  BY DEF FirstFields, F, Names
<1> QED
  BY <1>5, <1>6

LEMMA FirstSDT ==
  /\ \A f : /\ Fits(F("mode", 31, 1), f.mode) /\ Fits(F("sf", 30, 1), f.sf)
             /\ Fits(F("mode", 29, 1), f.mode) /\ Fits(F("rt", 0, 5), f.rt)
             => \A k \in 1..Len(FirstFields("SDT")) :
                  Fits(FirstFields("SDT")[k], f[FirstFields("SDT")[k].name])
  /\ Names(FirstFields("SDT")) = {"mode", "sf", "rt"}
<1>1. FirstFields("SDT") = <<F("mode", 31, 1), F("sf", 30, 1), F("mode", 29, 1), F("rt", 0, 5)>>
  BY DEF FirstFields
<1>2. Len(FirstFields("SDT")) = 4
  BY <1>1
<1>3. \A k \in 1..4 : k = 1 \/ k = 2 \/ k = 3 \/ k = 4
  OBVIOUS
<1>4. /\ FirstFields("SDT")[1] = F("mode", 31, 1) /\ FirstFields("SDT")[2] = F("sf", 30, 1)
      /\ FirstFields("SDT")[3] = F("mode", 29, 1) /\ FirstFields("SDT")[4] = F("rt", 0, 5)
  BY <1>1
<1>5. ASSUME NEW f,
             Fits(F("mode", 31, 1), f.mode), Fits(F("sf", 30, 1), f.sf), Fits(F("mode", 29, 1), f.mode),
             Fits(F("rt", 0, 5), f.rt)
      PROVE  \A k \in 1..Len(FirstFields("SDT")) :
               Fits(FirstFields("SDT")[k], f[FirstFields("SDT")[k].name])
  BY <1>2, <1>3, <1>4, <1>5, FieldName
<1>6. Names(FirstFields("SDT")) = {"mode", "sf", "rt"}
  BY DEF FirstFields, F, Names
<1> QED
  BY <1>5, <1>6

LEMMA FirstB ==
  /\ \A f : /\ Fits(F("type", 30, 2), f.type)
             => \A k \in 1..Len(FirstFields("B")) :
                  Fits(FirstFields("B")[k], f[FirstFields("B")[k].name])
  /\ Names(FirstFields("B")) = {"type"}
<1>1. FirstFields("B") = <<F("type", 30, 2)>>
  BY DEF FirstFields
<1>2. Len(FirstFields("B")) = 1
  BY <1>1
<1>3. \A k \in 1..1 : k = 1
  OBVIOUS
<1>4. /\ FirstFields("B")[1] = F("type", 30, 2)
  BY <1>1
<1>5. ASSUME NEW f,
             Fits(F("type", 30, 2), f.type)
      PROVE  \A k \in 1..Len(FirstFields("B")) :
               Fits(FirstFields("B")[k], f[FirstFields("B")[k].name])
  BY <1>2, <1>3, <1>4, <1>5, FieldName
<1>6. Names(FirstFields("B")) = {"type"}
  BY DEF FirstFields, F, Names
<1> QED
  BY <1>5, <1>6

LEMMA ArithmeticImmediateMade ==
  ASSUME NEW l \in ArithmeticImmediates, NEW stale \in 0..1
  PROVE  Made("DPI", DPIArithmetic(l), stale)
<1> DEFINE g == DPIArithmetic(l)
           f == g ++ [offmode |-> stale]
<1>1. /\ g.sf \in 0..1 /\ g.rd \in 0..31 /\ g.opc \in 0..3 /\ g.opi = 2 /\ g.rn \in 0..31
      /\ g.imm12 \in UnsignedRange(12) /\ g.sh \in 0..1
  BY ArithmeticImmediateTokens, ArithmeticPositions DEF DPIArithmetic
<1>2. DOMAIN g = {"sf", "rd", "opc", "opi", "rn", "imm12", "sh"}
  BY ArithmeticImmediateTokens, ArithmeticPositions DEF DPIArithmetic
<1> HIDE DEF g
<1>3. \A name \in DOMAIN g : f[name] = g[name]
  BY BesideIn
<1> HIDE DEF f
<1>5. /\ f.sf \in 0..1 /\ f.rd \in 0..31 /\ f.opc \in 0..3 /\ f.opi = 2 /\ f.rn \in 0..31
      /\ f.imm12 \in UnsignedRange(12) /\ f.sh \in 0..1
  BY <1>1, <1>2, <1>3
<1>7. SecondFields("DPI", f) = <<F("sh", 22, 1), F("imm12", 10, 12), F("rn", 5, 5)>>
  BY <1>5 DEF SecondFields
<1>8. ThirdFields("DPI", f) = <<>>
  BY <1>5 DEF ThirdFields
<1>9. /\ Fits(F("sf", 31, 1), f.sf) /\ Fits(F("opc", 29, 2), f.opc) /\ Fits(F("opi", 23, 3), f.opi)
      /\ Fits(F("rd", 0, 5), f.rd) /\ Fits(F("sh", 22, 1), f.sh)
      /\ Fits(F("imm12", 10, 12), f.imm12) /\ Fits(F("rn", 5, 5), f.rn)
  BY <1>5, FitsIn, FitsLong, FitsSigned DEF SignedFields
<1>10. \A k \in 1..Len(FirstFields("DPI")) :
         Fits(FirstFields("DPI")[k], f[FirstFields("DPI")[k].name])
  BY <1>9, FirstDPI
<1>11. \A k \in 1..Len(SecondFields("DPI", f)) :
         Fits(SecondFields("DPI", f)[k], f[SecondFields("DPI", f)[k].name])
  BY <1>7, <1>9, FieldName
<1>12. \A k \in 1..Len(ThirdFields("DPI", f)) :
         Fits(ThirdFields("DPI", f)[k], f[ThirdFields("DPI", f)[k].name])
  BY <1>8, <1>9, FieldName
<1>13. Shaped("DPI", f)
  BY <1>5, <1>10, <1>11, <1>12 DEF Shaped, Selected
<1>14. Names(FirstFields("DPI")) = {"sf", "opc", "opi", "rd"}
  BY FirstDPI
<1>15. Names(SecondFields("DPI", f)) = {"sh", "imm12", "rn"}
  BY <1>7, FieldName DEF Names
<1>16. Names(ThirdFields("DPI", f)) = {}
  BY <1>8, FieldName DEF Names
<1>17. DOMAIN g = Shown("DPI", f)
  BY <1>2, <1>5, <1>14, <1>15, <1>16 DEF Shown
<1> QED
  BY <1>13, <1>17 DEF Made, f, g

LEMMA WideMoveMade ==
  ASSUME NEW l \in WideMoveLines, NEW stale \in 0..1
  PROVE  Made("DPI", DPIWideMove(l), stale)
<1> DEFINE g == DPIWideMove(l)
           f == g ++ [offmode |-> stale]
<1>1. /\ g.sf \in 0..1 /\ g.rd \in 0..31 /\ g.opc \in 0..3 /\ g.opi = 5 /\ g.hw \in 0..3
      /\ g.imm16 \in UnsignedRange(16)
  BY WideMoveLineTokens, WideMovePositions DEF DPIWideMove
<1>2. DOMAIN g = {"sf", "rd", "opc", "opi", "hw", "imm16"}
  BY WideMoveLineTokens, WideMovePositions DEF DPIWideMove
<1> HIDE DEF g
<1>3. \A name \in DOMAIN g : f[name] = g[name]
  BY BesideIn
<1> HIDE DEF f
<1>5. /\ f.sf \in 0..1 /\ f.rd \in 0..31 /\ f.opc \in 0..3 /\ f.opi = 5 /\ f.hw \in 0..3
      /\ f.imm16 \in UnsignedRange(16)
  BY <1>1, <1>2, <1>3
<1>7. SecondFields("DPI", f) = <<F("hw", 21, 2), F("imm16", 5, 16)>>
  BY <1>5 DEF SecondFields
<1>8. ThirdFields("DPI", f) = <<>>
  BY <1>5 DEF ThirdFields
<1>9. /\ Fits(F("sf", 31, 1), f.sf) /\ Fits(F("opc", 29, 2), f.opc) /\ Fits(F("opi", 23, 3), f.opi)
      /\ Fits(F("rd", 0, 5), f.rd) /\ Fits(F("hw", 21, 2), f.hw)
      /\ Fits(F("imm16", 5, 16), f.imm16)
  BY <1>5, FitsIn, FitsLong, FitsSigned DEF SignedFields
<1>10. \A k \in 1..Len(FirstFields("DPI")) :
         Fits(FirstFields("DPI")[k], f[FirstFields("DPI")[k].name])
  BY <1>9, FirstDPI
<1>11. \A k \in 1..Len(SecondFields("DPI", f)) :
         Fits(SecondFields("DPI", f)[k], f[SecondFields("DPI", f)[k].name])
  BY <1>7, <1>9, FieldName
<1>12. \A k \in 1..Len(ThirdFields("DPI", f)) :
         Fits(ThirdFields("DPI", f)[k], f[ThirdFields("DPI", f)[k].name])
  BY <1>8, <1>9, FieldName
<1>13. Shaped("DPI", f)
  BY <1>5, <1>10, <1>11, <1>12 DEF Shaped, Selected
<1>14. Names(FirstFields("DPI")) = {"sf", "opc", "opi", "rd"}
  BY FirstDPI
<1>15. Names(SecondFields("DPI", f)) = {"hw", "imm16"}
  BY <1>7, FieldName DEF Names
<1>16. Names(ThirdFields("DPI", f)) = {}
  BY <1>8, FieldName DEF Names
<1>17. DOMAIN g = Shown("DPI", f)
  BY <1>2, <1>5, <1>14, <1>15, <1>16 DEF Shown
<1> QED
  BY <1>13, <1>17 DEF Made, f, g

LEMMA MultiplicationMade ==
  ASSUME NEW l \in MultiplyLines, NEW stale \in 0..1
  PROVE  Made("DPR", DPRMultiply(l), stale)
<1> DEFINE g == DPRMultiply(l)
           f == g ++ [offmode |-> stale]
<1>1. /\ g.sf \in 0..1 /\ g.rm \in 0..31 /\ g.rn \in 0..31 /\ g.rd \in 0..31 /\ g.opc = 0 /\ g.m = 1
      /\ g.opr = 8 /\ g.x \in 0..1 /\ g.ra \in 0..31
  BY MultiplyLineTokens, MultiplyPositions DEF DPRMultiply, DPRRegisters, ++
<1>2. DOMAIN g = {"sf", "rm", "rn", "rd", "opc", "m", "opr", "x", "ra"}
  BY MultiplyLineTokens, MultiplyPositions DEF DPRMultiply, DPRRegisters, ++
<1> HIDE DEF g
<1>3. \A name \in DOMAIN g : f[name] = g[name]
  BY BesideIn
<1> HIDE DEF f
<1>5. /\ f.sf \in 0..1 /\ f.rm \in 0..31 /\ f.rn \in 0..31 /\ f.rd \in 0..31 /\ f.opc = 0 /\ f.m = 1
      /\ f.opr = 8 /\ f.x \in 0..1 /\ f.ra \in 0..31
  BY <1>1, <1>2, <1>3
<1>7. SecondFields("DPR", f) = <<F("opr", 21, 4), F("x", 15, 1), F("ra", 10, 5)>>
  BY <1>5 DEF SecondFields
<1>8. ThirdFields("DPR", f) = <<>>
  BY <1>5 DEF ThirdFields
<1>9. /\ Fits(F("sf", 31, 1), f.sf) /\ Fits(F("opc", 29, 2), f.opc) /\ Fits(F("m", 28, 1), f.m)
      /\ Fits(F("rm", 16, 5), f.rm) /\ Fits(F("rn", 5, 5), f.rn) /\ Fits(F("rd", 0, 5), f.rd)
      /\ Fits(F("opr", 21, 4), f.opr) /\ Fits(F("x", 15, 1), f.x) /\ Fits(F("ra", 10, 5), f.ra)
  BY <1>5, FitsIn, FitsLong, FitsSigned DEF SignedFields
<1>10. \A k \in 1..Len(FirstFields("DPR")) :
         Fits(FirstFields("DPR")[k], f[FirstFields("DPR")[k].name])
  BY <1>9, FirstDPR
<1>11. \A k \in 1..Len(SecondFields("DPR", f)) :
         Fits(SecondFields("DPR", f)[k], f[SecondFields("DPR", f)[k].name])
  BY <1>7, <1>9, FieldName
<1>12. \A k \in 1..Len(ThirdFields("DPR", f)) :
         Fits(ThirdFields("DPR", f)[k], f[ThirdFields("DPR", f)[k].name])
  BY <1>8, <1>9, FieldName
<1>13. Shaped("DPR", f)
  BY <1>5, <1>10, <1>11, <1>12 DEF Shaped, Selected
<1>14. Names(FirstFields("DPR")) = {"sf", "opc", "m", "rm", "rn", "rd"}
  BY FirstDPR
<1>15. Names(SecondFields("DPR", f)) = {"opr", "x", "ra"}
  BY <1>7, FieldName DEF Names
<1>16. Names(ThirdFields("DPR", f)) = {}
  BY <1>8, FieldName DEF Names
<1>17. DOMAIN g = Shown("DPR", f)
  BY <1>2, <1>5, <1>14, <1>15, <1>16 DEF Shown
<1> QED
  BY <1>13, <1>17 DEF Made, f, g

LEMMA ShiftedMade ==
  ASSUME NEW l \in ShiftedLines, NEW stale \in 0..1
  PROVE  Made("DPR", DPRShifted(l), stale)
<1> DEFINE g == DPRShifted(l)
           f == g ++ [offmode |-> stale]
<1>1. /\ g.sf \in 0..1 /\ g.rm \in 0..31 /\ g.rn \in 0..31 /\ g.rd \in 0..31 /\ g.m = 0
      /\ g.shift \in 0..3 /\ g.operand \in UnsignedRange(6) /\ g.opc \in 0..3
      /\ g.armOrLog \in 0..1 /\ g.n \in 0..1
  <2> DEFINE r == DPRRegisters(l)
             a == [m |-> 0,
                   shift |-> IF Len(l.tokens) > 3 THEN l.tokens[4].v ELSE 0,
                   operand |-> IF Len(l.tokens) > 3 THEN l.tokens[5].v ELSE 0]
             b == IF l.name \in ToSet(Arithmetics)
                  THEN [opc |-> Position(l.name, Arithmetics), armOrLog |-> 1, n |-> 0]
                  ELSE [opc |-> Position(l.name, Logical) \div 2, armOrLog |-> 0,
                        n |-> Position(l.name, Logical) % 2]
  <2>1. /\ DOMAIN r = {"sf", "rm", "rn", "rd"}
        /\ r.sf \in 0..1 /\ r.rm \in 0..31 /\ r.rn \in 0..31 /\ r.rd \in 0..31
    BY ShiftedLineTokens DEF DPRRegisters
  <2>2. /\ DOMAIN a = {"m", "shift", "operand"}
        /\ a.m = 0 /\ a.shift \in 0..3 /\ a.operand \in UnsignedRange(6)
    BY ShiftedLineTokens, ZeroFits
  <2>3. /\ DOMAIN b = {"opc", "armOrLog", "n"}
        /\ b.opc \in 0..3 /\ b.armOrLog \in 0..1 /\ b.n \in 0..1
    <3>1. CASE l.name \in ToSet(Arithmetics)
      BY <3>1, ArithmeticPositions
    <3>2. CASE l.name \notin ToSet(Arithmetics)
      <4>1. Position(l.name, Logical) \in 0..7
        BY <3>2, ShiftedLineTokens, LogicalPositions
      <4> QED
        BY <3>2, <4>1
    <3> QED
      BY <3>1, <3>2
  <2>4. g = (r ++ a) ++ b
    BY DEF DPRShifted
  <2> HIDE DEF r, a, b, g
  <2> QED
    BY <2>1, <2>2, <2>3, <2>4 DEF ++
<1>2. DOMAIN g = {"sf", "rm", "rn", "rd", "m", "shift", "operand", "opc", "armOrLog", "n"}
  BY ShiftedLineTokens, ArithmeticPositions, LogicalPositions DEF DPRShifted, DPRRegisters, ++
<1> HIDE DEF g
<1>3. \A name \in DOMAIN g : f[name] = g[name]
  BY BesideIn
<1> HIDE DEF f
<1>5. /\ f.sf \in 0..1 /\ f.rm \in 0..31 /\ f.rn \in 0..31 /\ f.rd \in 0..31 /\ f.m = 0
      /\ f.shift \in 0..3 /\ f.operand \in UnsignedRange(6) /\ f.opc \in 0..3
      /\ f.armOrLog \in 0..1 /\ f.n \in 0..1
  BY <1>1, <1>2, <1>3
<1>7. SecondFields("DPR", f) = <<F("armOrLog", 24, 1), F("shift", 22, 2), F("n", 21, 1), F("operand", 10, 6)>>
  BY <1>5 DEF SecondFields
<1>8. ThirdFields("DPR", f) = <<>>
  BY <1>5 DEF ThirdFields
<1>9. /\ Fits(F("sf", 31, 1), f.sf) /\ Fits(F("opc", 29, 2), f.opc) /\ Fits(F("m", 28, 1), f.m)
      /\ Fits(F("rm", 16, 5), f.rm) /\ Fits(F("rn", 5, 5), f.rn) /\ Fits(F("rd", 0, 5), f.rd)
      /\ Fits(F("armOrLog", 24, 1), f.armOrLog) /\ Fits(F("shift", 22, 2), f.shift)
      /\ Fits(F("n", 21, 1), f.n) /\ Fits(F("operand", 10, 6), f.operand)
  BY <1>5, FitsIn, FitsLong, FitsSigned DEF SignedFields
<1>10. \A k \in 1..Len(FirstFields("DPR")) :
         Fits(FirstFields("DPR")[k], f[FirstFields("DPR")[k].name])
  BY <1>9, FirstDPR
<1>11. \A k \in 1..Len(SecondFields("DPR", f)) :
         Fits(SecondFields("DPR", f)[k], f[SecondFields("DPR", f)[k].name])
  BY <1>7, <1>9, FieldName
<1>12. \A k \in 1..Len(ThirdFields("DPR", f)) :
         Fits(ThirdFields("DPR", f)[k], f[ThirdFields("DPR", f)[k].name])
  BY <1>8, <1>9, FieldName
<1>13. Shaped("DPR", f)
  BY <1>5, <1>10, <1>11, <1>12 DEF Shaped, Selected
<1>14. Names(FirstFields("DPR")) = {"sf", "opc", "m", "rm", "rn", "rd"}
  BY FirstDPR
<1>15. Names(SecondFields("DPR", f)) = {"armOrLog", "shift", "n", "operand"}
  BY <1>7, FieldName DEF Names
<1>16. Names(ThirdFields("DPR", f)) = {}
  BY <1>8, FieldName DEF Names
<1>17. DOMAIN g = Shown("DPR", f)
  BY <1>2, <1>5, <1>14, <1>15, <1>16 DEF Shown
<1> QED
  BY <1>13, <1>17 DEF Made, f, g

LEMMA ZeroMade ==
  ASSUME NEW l \in ZeroLines, NEW stale \in 0..1
  PROVE  Made("SDT", Transfer(l), stale)
<1> DEFINE g == Transfer(l)
           f == g ++ [offmode |-> stale]
<1>1. /\ g.sf \in 0..1 /\ g.rt \in 0..31 /\ g.mode = 1 /\ g.l \in 0..1 /\ g.xn \in 0..31 /\ g.u = 1
      /\ g.imm12 \in UnsignedRange(12)
  BY ZeroTokens, ZeroFits DEF Transfer, ++
<1>2. DOMAIN g = {"sf", "rt", "mode", "l", "xn", "u", "imm12"}
  BY ZeroTokens, ZeroFits DEF Transfer, ++
<1> HIDE DEF g
<1>3. \A name \in DOMAIN g : f[name] = g[name]
  BY BesideIn
<1>4. f.offmode \in 0..1
  BY <1>2, BesideOut
<1> HIDE DEF f
<1>5. /\ f.sf \in 0..1 /\ f.rt \in 0..31 /\ f.mode = 1 /\ f.l \in 0..1 /\ f.xn \in 0..31 /\ f.u = 1
      /\ f.imm12 \in UnsignedRange(12)
  BY <1>1, <1>2, <1>3
<1>7. SecondFields("SDT", f) = <<F("u", 24, 1), F("l", 22, 1), F("offmode", 21, 1), F("xn", 5, 5)>>
  BY <1>5 DEF SecondFields
<1>8. ThirdFields("SDT", f) = <<F("imm12", 10, 12)>>
  BY <1>5 DEF ThirdFields
<1>9. /\ Fits(F("mode", 31, 1), f.mode) /\ Fits(F("sf", 30, 1), f.sf)
      /\ Fits(F("mode", 29, 1), f.mode) /\ Fits(F("rt", 0, 5), f.rt) /\ Fits(F("u", 24, 1), f.u)
      /\ Fits(F("l", 22, 1), f.l) /\ Fits(F("offmode", 21, 1), f.offmode)
      /\ Fits(F("xn", 5, 5), f.xn) /\ Fits(F("imm12", 10, 12), f.imm12)
  BY <1>4, <1>5, FitsIn, FitsLong, FitsSigned DEF SignedFields
<1>10. \A k \in 1..Len(FirstFields("SDT")) :
         Fits(FirstFields("SDT")[k], f[FirstFields("SDT")[k].name])
  BY <1>9, FirstSDT
<1>11. \A k \in 1..Len(SecondFields("SDT", f)) :
         Fits(SecondFields("SDT", f)[k], f[SecondFields("SDT", f)[k].name])
  BY <1>7, <1>9, FieldName
<1>12. \A k \in 1..Len(ThirdFields("SDT", f)) :
         Fits(ThirdFields("SDT", f)[k], f[ThirdFields("SDT", f)[k].name])
  BY <1>8, <1>9, FieldName
<1>13. Shaped("SDT", f)
  BY <1>5, <1>10, <1>11, <1>12 DEF Shaped, Selected
<1>14. Names(FirstFields("SDT")) = {"mode", "sf", "rt"}
  BY FirstSDT
<1>15. Names(SecondFields("SDT", f)) = {"u", "l", "offmode", "xn"}
  BY <1>7, FieldName DEF Names
<1>16. Names(ThirdFields("SDT", f)) = {"imm12"}
  BY <1>8, FieldName DEF Names
<1>17. DOMAIN g = Shown("SDT", f)
  BY <1>2, <1>5, <1>14, <1>15, <1>16 DEF Shown
<1> QED
  BY <1>13, <1>17 DEF Made, f, g

LEMMA UnsignedMade ==
  ASSUME NEW l \in UnsignedLines, NEW stale \in 0..1
  PROVE  Made("SDT", Transfer(l), stale)
<1> DEFINE g == Transfer(l)
           f == g ++ [offmode |-> stale]
<1>1. /\ g.sf \in 0..1 /\ g.rt \in 0..31 /\ g.mode = 1 /\ g.l \in 0..1 /\ g.xn \in 0..31 /\ g.u = 1
      /\ g.imm12 \in UnsignedRange(12)
  <2>1. l.v \div 8 \in UnsignedRange(12)
    BY UnsignedTokens, ScaledFits
  <2> QED
    BY <2>1, UnsignedTokens DEF Transfer, UnsignedOffset, ++
<1>2. DOMAIN g = {"sf", "rt", "mode", "l", "xn", "u", "imm12"}
  BY UnsignedTokens, ScaledFits DEF Transfer, UnsignedOffset, ++
<1> HIDE DEF g
<1>3. \A name \in DOMAIN g : f[name] = g[name]
  BY BesideIn
<1>4. f.offmode \in 0..1
  BY <1>2, BesideOut
<1> HIDE DEF f
<1>5. /\ f.sf \in 0..1 /\ f.rt \in 0..31 /\ f.mode = 1 /\ f.l \in 0..1 /\ f.xn \in 0..31 /\ f.u = 1
      /\ f.imm12 \in UnsignedRange(12)
  BY <1>1, <1>2, <1>3
<1>7. SecondFields("SDT", f) = <<F("u", 24, 1), F("l", 22, 1), F("offmode", 21, 1), F("xn", 5, 5)>>
  BY <1>5 DEF SecondFields
<1>8. ThirdFields("SDT", f) = <<F("imm12", 10, 12)>>
  BY <1>5 DEF ThirdFields
<1>9. /\ Fits(F("mode", 31, 1), f.mode) /\ Fits(F("sf", 30, 1), f.sf)
      /\ Fits(F("mode", 29, 1), f.mode) /\ Fits(F("rt", 0, 5), f.rt) /\ Fits(F("u", 24, 1), f.u)
      /\ Fits(F("l", 22, 1), f.l) /\ Fits(F("offmode", 21, 1), f.offmode)
      /\ Fits(F("xn", 5, 5), f.xn) /\ Fits(F("imm12", 10, 12), f.imm12)
  BY <1>4, <1>5, FitsIn, FitsLong, FitsSigned DEF SignedFields
<1>10. \A k \in 1..Len(FirstFields("SDT")) :
         Fits(FirstFields("SDT")[k], f[FirstFields("SDT")[k].name])
  BY <1>9, FirstSDT
<1>11. \A k \in 1..Len(SecondFields("SDT", f)) :
         Fits(SecondFields("SDT", f)[k], f[SecondFields("SDT", f)[k].name])
  BY <1>7, <1>9, FieldName
<1>12. \A k \in 1..Len(ThirdFields("SDT", f)) :
         Fits(ThirdFields("SDT", f)[k], f[ThirdFields("SDT", f)[k].name])
  BY <1>8, <1>9, FieldName
<1>13. Shaped("SDT", f)
  BY <1>5, <1>10, <1>11, <1>12 DEF Shaped, Selected
<1>14. Names(FirstFields("SDT")) = {"mode", "sf", "rt"}
  BY FirstSDT
<1>15. Names(SecondFields("SDT", f)) = {"u", "l", "offmode", "xn"}
  BY <1>7, FieldName DEF Names
<1>16. Names(ThirdFields("SDT", f)) = {"imm12"}
  BY <1>8, FieldName DEF Names
<1>17. DOMAIN g = Shown("SDT", f)
  BY <1>2, <1>5, <1>14, <1>15, <1>16 DEF Shown
<1> QED
  BY <1>13, <1>17 DEF Made, f, g

LEMMA RegisterOffsetMade ==
  ASSUME NEW l \in RegisterOffsetLines, NEW stale \in 0..1
  PROVE  Made("SDT", Transfer(l), stale)
<1> DEFINE g == Transfer(l)
           f == g ++ [offmode |-> stale]
<1>1. /\ g.sf \in 0..1 /\ g.rt \in 0..31 /\ g.mode = 1 /\ g.l \in 0..1 /\ g.xn \in 0..31 /\ g.u = 0
      /\ g.offmode = 1 /\ g.roff1 = 3 /\ g.roff2 = 2 /\ g.xm \in 0..31
  BY RegisterOffsetTokens DEF Transfer, ++
<1>2. DOMAIN g = {"sf", "rt", "mode", "l", "xn", "u", "offmode", "roff1", "roff2", "xm"}
  BY RegisterOffsetTokens DEF Transfer, ++
<1> HIDE DEF g
<1>3. \A name \in DOMAIN g : f[name] = g[name]
  BY BesideIn
<1> HIDE DEF f
<1>5. /\ f.sf \in 0..1 /\ f.rt \in 0..31 /\ f.mode = 1 /\ f.l \in 0..1 /\ f.xn \in 0..31 /\ f.u = 0
      /\ f.offmode = 1 /\ f.roff1 = 3 /\ f.roff2 = 2 /\ f.xm \in 0..31
  BY <1>1, <1>2, <1>3
<1>7. SecondFields("SDT", f) = <<F("u", 24, 1), F("l", 22, 1), F("offmode", 21, 1), F("xn", 5, 5)>>
  BY <1>5 DEF SecondFields
<1>8. ThirdFields("SDT", f) = <<F("xm", 16, 5), F("roff1", 13, 2), F("roff2", 10, 2)>>
  BY <1>5 DEF ThirdFields
<1>9. /\ Fits(F("mode", 31, 1), f.mode) /\ Fits(F("sf", 30, 1), f.sf)
      /\ Fits(F("mode", 29, 1), f.mode) /\ Fits(F("rt", 0, 5), f.rt) /\ Fits(F("u", 24, 1), f.u)
      /\ Fits(F("l", 22, 1), f.l) /\ Fits(F("offmode", 21, 1), f.offmode)
      /\ Fits(F("xn", 5, 5), f.xn) /\ Fits(F("xm", 16, 5), f.xm)
      /\ Fits(F("roff1", 13, 2), f.roff1) /\ Fits(F("roff2", 10, 2), f.roff2)
  BY <1>5, FitsIn, FitsLong, FitsSigned DEF SignedFields
<1>10. \A k \in 1..Len(FirstFields("SDT")) :
         Fits(FirstFields("SDT")[k], f[FirstFields("SDT")[k].name])
  BY <1>9, FirstSDT
<1>11. \A k \in 1..Len(SecondFields("SDT", f)) :
         Fits(SecondFields("SDT", f)[k], f[SecondFields("SDT", f)[k].name])
  BY <1>7, <1>9, FieldName
<1>12. \A k \in 1..Len(ThirdFields("SDT", f)) :
         Fits(ThirdFields("SDT", f)[k], f[ThirdFields("SDT", f)[k].name])
  BY <1>8, <1>9, FieldName
<1>13. Shaped("SDT", f)
  BY <1>5, <1>10, <1>11, <1>12 DEF Shaped, Selected
<1>14. Names(FirstFields("SDT")) = {"mode", "sf", "rt"}
  BY FirstSDT
<1>15. Names(SecondFields("SDT", f)) = {"u", "l", "offmode", "xn"}
  BY <1>7, FieldName DEF Names
<1>16. Names(ThirdFields("SDT", f)) = {"xm", "roff1", "roff2"}
  BY <1>8, FieldName DEF Names
<1>17. DOMAIN g = Shown("SDT", f)
  BY <1>2, <1>5, <1>14, <1>15, <1>16 DEF Shown
<1> QED
  BY <1>13, <1>17 DEF Made, f, g

LEMMA IndexMade ==
  ASSUME NEW l \in IndexLines, NEW stale \in 0..1
  PROVE  Made("SDT", Transfer(l), stale)
<1> DEFINE g == Transfer(l)
           f == g ++ [offmode |-> stale]
<1>1. /\ g.sf \in 0..1 /\ g.rt \in 0..31 /\ g.mode = 1 /\ g.l \in 0..1 /\ g.xn \in 0..31 /\ g.u = 0
      /\ g.offmode = 0 /\ g.i \in 0..1 /\ g.simm9 \in SignedRange(9) /\ g.bit = 1
  BY IndexTokens DEF Transfer, ++
<1>2. DOMAIN g = {"sf", "rt", "mode", "l", "xn", "u", "offmode", "i", "simm9", "bit"}
  BY IndexTokens DEF Transfer, ++
<1> HIDE DEF g
<1>3. \A name \in DOMAIN g : f[name] = g[name]
  BY BesideIn
<1> HIDE DEF f
<1>5. /\ f.sf \in 0..1 /\ f.rt \in 0..31 /\ f.mode = 1 /\ f.l \in 0..1 /\ f.xn \in 0..31 /\ f.u = 0
      /\ f.offmode = 0 /\ f.i \in 0..1 /\ f.simm9 \in SignedRange(9) /\ f.bit = 1
  BY <1>1, <1>2, <1>3
<1>7. SecondFields("SDT", f) = <<F("u", 24, 1), F("l", 22, 1), F("offmode", 21, 1), F("xn", 5, 5)>>
  BY <1>5 DEF SecondFields
<1>8. ThirdFields("SDT", f) = <<F("simm9", 12, 9), F("i", 11, 1), F("bit", 10, 1)>>
  BY <1>5 DEF ThirdFields
<1>9. /\ Fits(F("mode", 31, 1), f.mode) /\ Fits(F("sf", 30, 1), f.sf)
      /\ Fits(F("mode", 29, 1), f.mode) /\ Fits(F("rt", 0, 5), f.rt) /\ Fits(F("u", 24, 1), f.u)
      /\ Fits(F("l", 22, 1), f.l) /\ Fits(F("offmode", 21, 1), f.offmode)
      /\ Fits(F("xn", 5, 5), f.xn) /\ Fits(F("simm9", 12, 9), f.simm9)
      /\ Fits(F("i", 11, 1), f.i) /\ Fits(F("bit", 10, 1), f.bit)
  BY <1>5, FitsIn, FitsLong, FitsSigned DEF SignedFields
<1>10. \A k \in 1..Len(FirstFields("SDT")) :
         Fits(FirstFields("SDT")[k], f[FirstFields("SDT")[k].name])
  BY <1>9, FirstSDT
<1>11. \A k \in 1..Len(SecondFields("SDT", f)) :
         Fits(SecondFields("SDT", f)[k], f[SecondFields("SDT", f)[k].name])
  BY <1>7, <1>9, FieldName
<1>12. \A k \in 1..Len(ThirdFields("SDT", f)) :
         Fits(ThirdFields("SDT", f)[k], f[ThirdFields("SDT", f)[k].name])
  BY <1>8, <1>9, FieldName
<1>13. Shaped("SDT", f)
  BY <1>5, <1>10, <1>11, <1>12 DEF Shaped, Selected
<1>14. Names(FirstFields("SDT")) = {"mode", "sf", "rt"}
  BY FirstSDT
<1>15. Names(SecondFields("SDT", f)) = {"u", "l", "offmode", "xn"}
  BY <1>7, FieldName DEF Names
<1>16. Names(ThirdFields("SDT", f)) = {"simm9", "i", "bit"}
  BY <1>8, FieldName DEF Names
<1>17. DOMAIN g = Shown("SDT", f)
  BY <1>2, <1>5, <1>14, <1>15, <1>16 DEF Shown
<1> QED
  BY <1>13, <1>17 DEF Made, f, g

LEMMA LiteralMade ==
  ASSUME NEW l \in LiteralLines, NEW stale \in 0..1
  PROVE  Made("SDT", LoadLiteral(l), stale)
<1> DEFINE g == LoadLiteral(l)
           f == g ++ [offmode |-> stale]
<1>1. /\ g.sf \in 0..1 /\ g.rt \in 0..31 /\ g.mode = 0 /\ g.simm19 \in SignedRange(19)
  BY LiteralTokens DEF LoadLiteral
<1>2. DOMAIN g = {"sf", "rt", "mode", "simm19"}
  BY LiteralTokens DEF LoadLiteral
<1> HIDE DEF g
<1>3. \A name \in DOMAIN g : f[name] = g[name]
  BY BesideIn
<1> HIDE DEF f
<1>5. /\ f.sf \in 0..1 /\ f.rt \in 0..31 /\ f.mode = 0 /\ f.simm19 \in SignedRange(19)
  BY <1>1, <1>2, <1>3
<1>7. SecondFields("SDT", f) = <<F("simm19", 5, 19)>>
  BY <1>5 DEF SecondFields
<1>8. ThirdFields("SDT", f) = <<>>
  BY <1>5 DEF ThirdFields
<1>9. /\ Fits(F("mode", 31, 1), f.mode) /\ Fits(F("sf", 30, 1), f.sf)
      /\ Fits(F("mode", 29, 1), f.mode) /\ Fits(F("rt", 0, 5), f.rt)
      /\ Fits(F("simm19", 5, 19), f.simm19)
  BY <1>5, FitsIn, FitsLong, FitsSigned DEF SignedFields
<1>10. \A k \in 1..Len(FirstFields("SDT")) :
         Fits(FirstFields("SDT")[k], f[FirstFields("SDT")[k].name])
  BY <1>9, FirstSDT
<1>11. \A k \in 1..Len(SecondFields("SDT", f)) :
         Fits(SecondFields("SDT", f)[k], f[SecondFields("SDT", f)[k].name])
  BY <1>7, <1>9, FieldName
<1>12. \A k \in 1..Len(ThirdFields("SDT", f)) :
         Fits(ThirdFields("SDT", f)[k], f[ThirdFields("SDT", f)[k].name])
  BY <1>8, <1>9, FieldName
<1>13. Shaped("SDT", f)
  BY <1>5, <1>10, <1>11, <1>12 DEF Shaped, Selected
<1>14. Names(FirstFields("SDT")) = {"mode", "sf", "rt"}
  BY FirstSDT
<1>15. Names(SecondFields("SDT", f)) = {"simm19"}
  BY <1>7, FieldName DEF Names
<1>16. Names(ThirdFields("SDT", f)) = {}
  BY <1>8, FieldName DEF Names
<1>17. DOMAIN g = Shown("SDT", f)
  BY <1>2, <1>5, <1>14, <1>15, <1>16 DEF Shown
<1> QED
  BY <1>13, <1>17 DEF Made, f, g

LEMMA BranchUnconditionalMade ==
  ASSUME NEW l \in UnconditionalLines, NEW stale \in 0..1
  PROVE  Made("B", Branch(l), stale)
<1> DEFINE g == Branch(l)
           f == g ++ [offmode |-> stale]
<1>1. /\ g.type = 0 /\ g.simm26 \in SignedRange(26)
  BY UnconditionalTokens DEF Branch
<1>2. DOMAIN g = {"type", "simm26"}
  BY UnconditionalTokens DEF Branch
<1> HIDE DEF g
<1>3. \A name \in DOMAIN g : f[name] = g[name]
  BY BesideIn
<1> HIDE DEF f
<1>5. /\ f.type = 0 /\ f.simm26 \in SignedRange(26)
  BY <1>1, <1>2, <1>3
<1>7. SecondFields("B", f) = <<F("simm26", 0, 26)>>
  BY <1>5 DEF SecondFields
<1>8. ThirdFields("B", f) = <<>>
  BY <1>5 DEF ThirdFields
<1>9. /\ Fits(F("type", 30, 2), f.type) /\ Fits(F("simm26", 0, 26), f.simm26)
  BY <1>5, FitsIn, FitsLong, FitsSigned DEF SignedFields
<1>10. \A k \in 1..Len(FirstFields("B")) :
         Fits(FirstFields("B")[k], f[FirstFields("B")[k].name])
  BY <1>9, FirstB
<1>11. \A k \in 1..Len(SecondFields("B", f)) :
         Fits(SecondFields("B", f)[k], f[SecondFields("B", f)[k].name])
  BY <1>7, <1>9, FieldName
<1>12. \A k \in 1..Len(ThirdFields("B", f)) :
         Fits(ThirdFields("B", f)[k], f[ThirdFields("B", f)[k].name])
  BY <1>8, <1>9, FieldName
<1>13. Shaped("B", f)
  BY <1>5, <1>10, <1>11, <1>12 DEF Shaped, Selected
<1>14. Names(FirstFields("B")) = {"type"}
  BY FirstB
<1>15. Names(SecondFields("B", f)) = {"simm26"}
  BY <1>7, FieldName DEF Names
<1>16. Names(ThirdFields("B", f)) = {}
  BY <1>8, FieldName DEF Names
<1>17. DOMAIN g = Shown("B", f)
  BY <1>2, <1>5, <1>14, <1>15, <1>16 DEF Shown
<1> QED
  BY <1>13, <1>17 DEF Made, f, g

LEMMA BranchRegisterMade ==
  ASSUME NEW l \in BranchRegisterLines, NEW stale \in 0..1
  PROVE  Made("B", Branch(l), stale)
<1> DEFINE g == Branch(l)
           f == g ++ [offmode |-> stale]
<1>1. /\ g.type = 3 /\ g.bit = 1 /\ g.reg = 31 /\ g.xn \in 0..31
  BY BranchRegisterTokens DEF Branch
<1>2. DOMAIN g = {"type", "bit", "reg", "xn"}
  BY BranchRegisterTokens DEF Branch
<1> HIDE DEF g
<1>3. \A name \in DOMAIN g : f[name] = g[name]
  BY BesideIn
<1> HIDE DEF f
<1>5. /\ f.type = 3 /\ f.bit = 1 /\ f.reg = 31 /\ f.xn \in 0..31
  BY <1>1, <1>2, <1>3
<1>7. SecondFields("B", f) = <<F("bit", 25, 1), F("reg", 16, 5), F("xn", 5, 5)>>
  BY <1>5 DEF SecondFields
<1>8. ThirdFields("B", f) = <<>>
  BY <1>5 DEF ThirdFields
<1>9. /\ Fits(F("type", 30, 2), f.type) /\ Fits(F("bit", 25, 1), f.bit)
      /\ Fits(F("reg", 16, 5), f.reg) /\ Fits(F("xn", 5, 5), f.xn)
  BY <1>5, FitsIn, FitsLong, FitsSigned DEF SignedFields
<1>10. \A k \in 1..Len(FirstFields("B")) :
         Fits(FirstFields("B")[k], f[FirstFields("B")[k].name])
  BY <1>9, FirstB
<1>11. \A k \in 1..Len(SecondFields("B", f)) :
         Fits(SecondFields("B", f)[k], f[SecondFields("B", f)[k].name])
  BY <1>7, <1>9, FieldName
<1>12. \A k \in 1..Len(ThirdFields("B", f)) :
         Fits(ThirdFields("B", f)[k], f[ThirdFields("B", f)[k].name])
  BY <1>8, <1>9, FieldName
<1>13. Shaped("B", f)
  BY <1>5, <1>10, <1>11, <1>12 DEF Shaped, Selected
<1>14. Names(FirstFields("B")) = {"type"}
  BY FirstB
<1>15. Names(SecondFields("B", f)) = {"bit", "reg", "xn"}
  BY <1>7, FieldName DEF Names
<1>16. Names(ThirdFields("B", f)) = {}
  BY <1>8, FieldName DEF Names
<1>17. DOMAIN g = Shown("B", f)
  BY <1>2, <1>5, <1>14, <1>15, <1>16 DEF Shown
<1> QED
  BY <1>13, <1>17 DEF Made, f, g

LEMMA BranchConditionalMade ==
  ASSUME NEW l \in ConditionalLines, NEW stale \in 0..1
  PROVE  Made("B", Branch(l), stale)
<1> DEFINE g == Branch(l)
           f == g ++ [offmode |-> stale]
<1>1. /\ g.type = 1 /\ g.tag \in 0..7 /\ g.neg \in 0..1 /\ g.simm19 \in SignedRange(19)
  BY ConditionalTokens DEF Branch
<1>2. DOMAIN g = {"type", "tag", "neg", "simm19"}
  BY ConditionalTokens DEF Branch
<1> HIDE DEF g
<1>3. \A name \in DOMAIN g : f[name] = g[name]
  BY BesideIn
<1> HIDE DEF f
<1>5. /\ f.type = 1 /\ f.tag \in 0..7 /\ f.neg \in 0..1 /\ f.simm19 \in SignedRange(19)
  BY <1>1, <1>2, <1>3
<1>7. SecondFields("B", f) = <<F("simm19", 5, 19), F("tag", 1, 3), F("neg", 0, 1)>>
  BY <1>5 DEF SecondFields
<1>8. ThirdFields("B", f) = <<>>
  BY <1>5 DEF ThirdFields
<1>9. /\ Fits(F("type", 30, 2), f.type) /\ Fits(F("simm19", 5, 19), f.simm19)
      /\ Fits(F("tag", 1, 3), f.tag) /\ Fits(F("neg", 0, 1), f.neg)
  BY <1>5, FitsIn, FitsLong, FitsSigned DEF SignedFields
<1>10. \A k \in 1..Len(FirstFields("B")) :
         Fits(FirstFields("B")[k], f[FirstFields("B")[k].name])
  BY <1>9, FirstB
<1>11. \A k \in 1..Len(SecondFields("B", f)) :
         Fits(SecondFields("B", f)[k], f[SecondFields("B", f)[k].name])
  BY <1>7, <1>9, FieldName
<1>12. \A k \in 1..Len(ThirdFields("B", f)) :
         Fits(ThirdFields("B", f)[k], f[ThirdFields("B", f)[k].name])
  BY <1>8, <1>9, FieldName
<1>13. Shaped("B", f)
  BY <1>5, <1>10, <1>11, <1>12 DEF Shaped, Selected
<1>14. Names(FirstFields("B")) = {"type"}
  BY FirstB
<1>15. Names(SecondFields("B", f)) = {"simm19", "tag", "neg"}
  BY <1>7, FieldName DEF Names
<1>16. Names(ThirdFields("B", f)) = {}
  BY <1>8, FieldName DEF Names
<1>17. DOMAIN g = Shown("B", f)
  BY <1>2, <1>5, <1>14, <1>15, <1>16 DEF Shown
<1> QED
  BY <1>13, <1>17 DEF Made, f, g

-----------------------------------------------------------------------------
\* The mnemonics of the four kinds of data processing are apart.
LEMMA NamesApart ==
  /\ \A name \in {"movn", "movz", "movk"} : name \notin ToSet(Arithmetics)
  /\ \A name \in ToSet(Arithmetics) \cup ToSet(Logical) : name \notin ToSet(Multiply)
  BY DEF ToSet, Arithmetics, Logical, Multiply

\* Every line of the language gives fields that fit their word.
LEMMA LineMade ==
  ASSUME NEW given, Plain(given) \in PlainLines, NEW stale \in 0..1
  PROVE  LET d == Disassembled(given)
         IN  d = [class |-> d.class, f |-> d.f] /\ Made(d.class, d.f, stale)
<1> DEFINE l == Plain(given)
           d == Disassembled(given)
<1>1. CASE l \in ArithmeticImmediates
  <2>1. l.t = "dp" /\ IsImmediateOp(l) /\ l.name \in ToSet(Arithmetics)
    BY <1>1, ArithmeticImmediateTokens
  <2>2. d = [class |-> "DPI", f |-> DPIArithmetic(l)]
    BY <2>1 DEF Disassembled
  <2> QED
    BY <1>1, <2>2, ArithmeticImmediateMade
<1>2. CASE l \in WideMoveLines
  <2>1. l.t = "dp" /\ IsImmediateOp(l) /\ l.name \notin ToSet(Arithmetics)
    BY <1>2, WideMoveLineTokens, NamesApart
  <2>2. d = [class |-> "DPI", f |-> DPIWideMove(l)]
    BY <2>1 DEF Disassembled
  <2> QED
    BY <1>2, <2>2, WideMoveMade
<1>3. CASE l \in ShiftedLines
  <2>1. l.t = "dp" /\ ~IsImmediateOp(l) /\ l.name \notin ToSet(Multiply)
    BY <1>3, ShiftedLineTokens, NamesApart
  <2>2. d = [class |-> "DPR", f |-> DPRShifted(l)]
    BY <2>1 DEF Disassembled
  <2> QED
    BY <1>3, <2>2, ShiftedMade
<1>4. CASE l \in MultiplyLines
  <2>1. l.t = "dp" /\ ~IsImmediateOp(l) /\ l.name \in ToSet(Multiply)
    BY <1>4, MultiplyLineTokens
  <2>2. d = [class |-> "DPR", f |-> DPRMultiply(l)]
    BY <2>1 DEF Disassembled
  <2> QED
    BY <1>4, <2>2, MultiplicationMade
<1>5. CASE l \in ZeroLines \cup UnsignedLines \cup RegisterOffsetLines \cup IndexLines
  <2>1. l.t = "ls" /\ l.form # "literal"
    BY <1>5, ZeroTokens, UnsignedTokens, RegisterOffsetTokens, IndexTokens
  <2>2. d = [class |-> "SDT", f |-> Transfer(l)]
    BY <2>1 DEF Disassembled
  <2> QED
    BY <1>5, <2>2, ZeroMade, UnsignedMade, RegisterOffsetMade, IndexMade
<1>6. CASE l \in LiteralLines
  <2>1. l.t = "ls" /\ l.form = "literal"
    BY <1>6, LiteralTokens
  <2>2. d = [class |-> "SDT", f |-> LoadLiteral(l)]
    BY <2>1 DEF Disassembled
  <2> QED
    BY <1>6, <2>2, LiteralMade
<1>7. CASE l \in UnconditionalLines \cup BranchRegisterLines \cup ConditionalLines
  <2>1. l.t = "b"
    BY <1>7, UnconditionalTokens, BranchRegisterTokens, ConditionalTokens
  <2>2. d = [class |-> "B", f |-> Branch(l)]
    BY <2>1 DEF Disassembled
  <2> QED
    BY <1>7, <2>2, BranchUnconditionalMade, BranchRegisterMade, BranchConditionalMade
<1> QED
  BY <1>1, <1>2, <1>3, <1>4, <1>5, <1>6, <1>7 DEF PlainLines, ReferenceLines
-----------------------------------------------------------------------------
\* The fields of a list that cover a bit have the same values in f and g.
Agree(s, f, g, b) == \A k \in 1..Len(s) : Covers(s[k], b) => g[s[k].name] = f[s[k].name]

Bare(s, b) == \A k \in 1..Len(s) : ~Covers(s[k], b)

\* If the list does not cover the bit, it is the same in w and in u.
SameBelow(w, u, s, b) == Bare(s, b) => w[b] = u[b]

\* Two structures that agree on the fields that a bit shows give the same bit.
LEMMA SameBit ==
  ASSUME NEW w, NEW u, NEW s, IsList(s), NEW f, NEW g, NEW b \in WordBits,
         Agree(s, f, g, b), SameBelow(w, u, s, b)
  PROVE  PutFields(w, s, g)[b] = PutFields(u, s, f)[b]
<1>1. CASE \E k \in 1..Len(s) : Covers(s[k], b)
  <2>1. PICK k \in 1..Len(s) : Covers(s[k], b)
    BY <1>1
  <2> DEFINE v == f[s[k].name]
             i == b - s[k].at
             left == PutFields(w, s, g)
             right == PutFields(u, s, f)
  <2>2. i \in 0 .. s[k].len - 1 /\ s[k].at + i = b
    BY <2>1 DEF IsList, IsField, Covers, Span, WordBits
  <2>3. g[s[k].name] = v
    BY <2>1 DEF Agree
  <2>4. Holds(left, s[k], v) /\ Holds(right, s[k], v)
    BY <2>3, Written
  <2> HIDE DEF v, i, left, right
  <2>5. left[s[k].at + i] = right[s[k].at + i]
    BY <2>2, <2>4, BitsHeld
  <2> QED
    BY <2>2, <2>5 DEF left, right
<1>2. CASE ~(\E k \in 1..Len(s) : Covers(s[k], b))
  <2>1. Bare(s, b)
    BY <1>2 DEF Bare
  <2> QED
    BY <2>1, Unwritten DEF Bare, SameBelow
<1> QED
  BY <1>1, <1>2

LEMMA EncodedBit ==
  ASSUME NEW class, NEW f, NEW g, Selected(class, f), NEW b \in WordBits,
         SecondFields(class, g) = SecondFields(class, f),
         ThirdFields(class, g) = ThirdFields(class, f),
         Agree(FirstFields(class), f, g, b),
         Bare(ThirdFields(class, f), b) => Agree(SecondFields(class, f), f, g, b),
         Agree(ThirdFields(class, f), f, g, b)
  PROVE  Encoded(class, g)[b] = Encoded(class, f)[b]
<1>1. IsList(FirstFields(class)) /\ IsList(SecondFields(class, f)) /\ IsList(ThirdFields(class, f))
  BY FirstIsList, SecondIsList, ThirdIsList DEF Selected
<1>2. FirstWord(class, g)[b] = FirstWord(class, f)[b]
  <2> DEFINE w == Op0Word(class)
             s == FirstFields(class)
  <2>1. IsList(s) /\ Agree(s, f, g, b) /\ SameBelow(w, w, s, b)
    BY <1>1 DEF SameBelow
  <2> HIDE DEF w, s
  <2>2. PutFields(w, s, g)[b] = PutFields(w, s, f)[b]
    BY <2>1, SameBit
  <2> QED
    BY <2>2 DEF FirstWord, w, s
<1>3. Bare(ThirdFields(class, f), b) => SecondWord(class, g)[b] = SecondWord(class, f)[b]
  <2> SUFFICES ASSUME Bare(ThirdFields(class, f), b)
               PROVE  SecondWord(class, g)[b] = SecondWord(class, f)[b]
    OBVIOUS
  <2> DEFINE w == FirstWord(class, g)
             u == FirstWord(class, f)
             s == SecondFields(class, f)
  <2>1. IsList(s) /\ Agree(s, f, g, b) /\ SameBelow(w, u, s, b)
    BY <1>1, <1>2 DEF SameBelow
  <2> HIDE DEF w, u, s
  <2>2. PutFields(w, s, g)[b] = PutFields(u, s, f)[b]
    BY <2>1, SameBit
  <2> QED
    BY <2>2 DEF SecondWord, w, u, s
<1>4. PutFields(SecondWord(class, g), ThirdFields(class, f), g)[b]
        = PutFields(SecondWord(class, f), ThirdFields(class, f), f)[b]
  <2> DEFINE w == SecondWord(class, g)
             u == SecondWord(class, f)
             s == ThirdFields(class, f)
  <2>1. IsList(s) /\ Agree(s, f, g, b) /\ SameBelow(w, u, s, b)
    BY <1>1, <1>3 DEF SameBelow
  <2> HIDE DEF w, u, s
  <2>2. PutFields(w, s, g)[b] = PutFields(u, s, f)[b]
    BY <2>1, SameBit
  <2> QED
    BY <2>2 DEF w, u, s
<1> QED
  BY <1>4, Stages

\* The bits of a word are all there is of it.
LEMMA EncodedFunction ==
  ASSUME NEW class, NEW f
  PROVE  Encoded(class, f) = [b \in WordBits |-> Encoded(class, f)[b]]
  BY Stages DEF PutFields

\* The bits of a hidden offmode are under imm12.
LEMMA HiddenBits ==
  ASSUME NEW class, NEW f, NEW k \in 1..Len(SecondFields(class, f)), NEW b \in WordBits,
         Hidden(class, f, SecondFields(class, f)[k]), Covers(SecondFields(class, f)[k], b)
  PROVE  \E m \in 1..Len(ThirdFields(class, f)) : Covers(ThirdFields(class, f)[m], b)
  BY DEF Hidden, SecondFields, ThirdFields, F, Covers, Span

\* What a word does not show is not in it.
LEMMA EncodedSame ==
  ASSUME NEW class, NEW f, NEW g, Selected(class, f),
         \A name \in Shown(class, f) : g[name] = f[name]
  PROVE  Encoded(class, g) = Encoded(class, f)
<1>1. \A k \in 1..Len(FirstFields(class)) :
        g[FirstFields(class)[k].name] = f[FirstFields(class)[k].name]
  BY DEF Shown, Names
<1>2. \A k \in 1..Len(SecondFields(class, f)) : ~Hidden(class, f, SecondFields(class, f)[k])
        => g[SecondFields(class, f)[k].name] = f[SecondFields(class, f)[k].name]
  BY DEF Shown, Names, Hidden
<1>3. \A k \in 1..Len(ThirdFields(class, f)) :
        g[ThirdFields(class, f)[k].name] = f[ThirdFields(class, f)[k].name]
  BY DEF Shown, Names
<1>4. SecondFields(class, g) = SecondFields(class, f)
  BY <1>1, SecondSame
<1>5. ThirdFields(class, g) = ThirdFields(class, f)
  <2>1. class = "SDT" => g.mode = f.mode
    <3> SUFFICES ASSUME class = "SDT" PROVE g.mode = f.mode
      OBVIOUS
    <3>1. "mode" \in Names(FirstFields(class))
      BY FirstSDT
    <3> QED
      BY <3>1 DEF Shown
  <2>2. class = "SDT" /\ f.mode = 1 => g.u = f.u
    <3> SUFFICES ASSUME class = "SDT", f.mode = 1 PROVE g.u = f.u
      OBVIOUS
    <3>1. "u" \in Names(SecondFields(class, f))
      BY DEF SecondFields, F, Names
    <3> QED
      BY <3>1 DEF Shown
  <2>3. class = "SDT" /\ f.mode = 1 /\ f.u = 0 => g.offmode = f.offmode
    <3> SUFFICES ASSUME class = "SDT", f.mode = 1, f.u = 0 PROVE g.offmode = f.offmode
      OBVIOUS
    <3>1. "offmode" \in Names(SecondFields(class, f))
      BY DEF SecondFields, F, Names
    <3> QED
      BY <3>1 DEF Shown
  <2> QED
    BY <2>1, <2>2, <2>3, ThirdSame
<1>6. ASSUME NEW b \in WordBits PROVE Encoded(class, g)[b] = Encoded(class, f)[b]
  <2>1. Agree(FirstFields(class), f, g, b) /\ Agree(ThirdFields(class, f), f, g, b)
    BY <1>1, <1>3 DEF Agree
  <2>2. Bare(ThirdFields(class, f), b) => Agree(SecondFields(class, f), f, g, b)
    BY <1>2, HiddenBits DEF Agree, Bare
  <2> QED
    BY <1>4, <1>5, <2>1, <2>2, EncodedBit
<1>7. [b \in WordBits |-> Encoded(class, g)[b]] = [b \in WordBits |-> Encoded(class, f)[b]]
  BY <1>6
<1> QED
  BY <1>7, EncodedFunction


\* A structure that differs in one field gives the word with that field put
\* over the other's.
LEMMA Completion ==
  ASSUME NEW class, NEW f, NEW g, Selected(class, f), Selected(class, g),
         class # "SDT" \/ f.mode = 0,
         NEW k \in 1..Len(SecondFields(class, f)),
         \A m \in 1..Len(SecondFields(class, f)) :
           SecondFields(class, f)[m].name = SecondFields(class, f)[k].name => m = k,
         \A name \in Shown(class, f) :
           name # SecondFields(class, f)[k].name => g[name] = f[name]
  PROVE  LET field == SecondFields(class, f)[k]
         IN  Encoded(class, g)
               = PutBits(Encoded(class, f), Bits(g[field.name], field.len), field.at, field.len)
<1> DEFINE s == SecondFields(class, f)
           field == s[k]
           put == PutBits(Encoded(class, f), Bits(g[field.name], field.len), field.at, field.len)
<1>1. IsList(s) /\ IsField(field)
  BY SecondIsList DEF IsList
<1>2. field.name \in Names(s)
  BY DEF Names
<1>3. \A name \in Names(FirstFields(class)) : g[name] = f[name]
  BY <1>2, NamesOnce DEF Shown
<1>4. SecondFields(class, g) = s
  BY <1>3, SecondSame DEF Names
<1>5. ThirdFields(class, f) = <<>> /\ ThirdFields(class, g) = <<>>
  <2>1. class = "SDT" => g.mode = f.mode
    BY <1>3, FirstSDT
  <2> QED
    BY <2>1 DEF ThirdFields
<1>6. \A m \in 1..Len(s) : m # k => g[s[m].name] = f[s[m].name]
  <2>1. \A m \in 1..Len(s) : s[m].name \in Shown(class, f)
    BY DEF Shown, Names
  <2> QED
    BY <2>1
<1>7. ASSUME NEW b \in WordBits, Covers(field, b)
      PROVE  Encoded(class, g)[b] = put[b]
  <2> DEFINE i == b - field.at
             v == g[field.name]
             w == Encoded(class, g)
  <2>1. i \in 0 .. field.len - 1 /\ field.at + i = b
    BY <1>1, <1>7 DEF IsField, Covers, Span, WordBits
  <2>2. ~Hidden(class, g, field)
    BY <1>3, FirstSDT DEF Hidden
  <2>3. Holds(w, field, v)
    BY <1>4, <2>2, SecondHeld
  <2>4. put[b] = Bits(v, field.len)[i]
    BY <1>7 DEF PutBits, Covers
  <2> HIDE DEF w, v, i, field, put
  <2>5. w[field.at + i] = Bits(v, field.len)[i]
    BY <2>1, <2>3, BitsHeld
  <2> QED
    BY <2>1, <2>4, <2>5 DEF w
<1>8. ASSUME NEW b \in WordBits, ~Covers(field, b)
      PROVE  Encoded(class, g)[b] = put[b]
  <2>1. put[b] = Encoded(class, f)[b]
    BY <1>8 DEF PutBits, Covers
  <2>2. Agree(s, f, g, b)
    BY <1>6, <1>8 DEF Agree
  <2>3. Agree(FirstFields(class), f, g, b)
    BY <1>3 DEF Agree, Names
  <2>4. Agree(ThirdFields(class, f), f, g, b)
    BY <1>5 DEF Agree
  <2>5. Encoded(class, g)[b] = Encoded(class, f)[b]
    BY <1>4, <1>5, <2>2, <2>3, <2>4, EncodedBit
  <2> QED
    BY <2>1, <2>5
<1>9. [b \in WordBits |-> Encoded(class, g)[b]] = [b \in WordBits |-> put[b]]
  BY <1>7, <1>8
<1>10. put = [b \in WordBits |-> put[b]]
  BY DEF PutBits
<1> HIDE DEF put
<1>11. Encoded(class, g) = put
  BY <1>9, <1>10, EncodedFunction
<1> QED
  BY <1>11 DEF put

\* The structure of a line, beside what is left of the lines before.
LEMMA Beside ==
  ASSUME NEW f, NEW h, DOMAIN h = DOMAIN f \cup {"offmode"}
  PROVE  f ++ h = f ++ [offmode |-> h.offmode]
  BY DEF ++

LEMMA Reference ==
  ASSUME NEW l, Plain(l) \in PlainLines, IsReference(l)
  PROVE  l \in ReferenceLines /\ Plain(l) = l
<1>1. l.t # "als" /\ Plain(l) = l
  BY DEF IsReference, Plain
<1>2. l \notin ArithmeticImmediates \cup WideMoveLines \cup ShiftedLines \cup MultiplyLines
  BY ArithmeticImmediateTokens, WideMoveLineTokens, ShiftedLineTokens, MultiplyLineTokens
     DEF IsReference
<1>3. l \notin ZeroLines \cup UnsignedLines \cup RegisterOffsetLines \cup IndexLines
  BY ZeroTokens, UnsignedTokens, RegisterOffsetTokens, IndexTokens DEF IsReference
<1>4. l \notin BranchRegisterLines
  BY BranchRegisterTokens DEF IsReference
<1> QED
  BY <1>1, <1>2, <1>3, <1>4 DEF PlainLines

\* Completing a line changes the one field of its offset.
LEMMA CompletedLine ==
  ASSUME NEW l \in ReferenceLines, NEW off \in SignedRange(OffsetField(l).len)
  PROVE  LET n == [l EXCEPT !.off = off]
             field == OffsetField(l)
             d == Disassembled(l)
             e == Disassembled(n)
         IN  /\ n \in ReferenceLines /\ Plain(n) = n /\ Plain(l) = l
             /\ e.class = d.class /\ DOMAIN e.f = DOMAIN d.f
             /\ field.name \in DOMAIN d.f /\ e.f[field.name] = off
             /\ \A name \in DOMAIN d.f : name # field.name => e.f[name] = d.f[name]
             /\ \A f : \/ d.class = "SDT" /\ f.mode = d.f.mode
                       \/ d.class = "B" /\ f.type = d.f.type
                       => /\ SecondFields(d.class, f)[1] = field
                          /\ Len(SecondFields(d.class, f)) \in 1..3
             /\ \/ d.class = "SDT" /\ d.f.mode = 0
                \/ d.class = "B" /\ d.f.type \in {0, 1}
<1> DEFINE n == [l EXCEPT !.off = off]
<1>1. CASE l \in LiteralLines
  <2>1. l.t = "ls" /\ l.form = "literal" /\ OffsetField(l) = F("simm19", 5, 19)
    BY <1>1, LiteralTokens DEF OffsetField
  <2>2. off \in SignedRange(19)
    BY <2>1 DEF F
  <2>3. n \in LiteralLines /\ n.off = off /\ n.rt = l.rt
    BY <1>1, <2>2 DEF LiteralLines
  <2>4. n.t = "ls" /\ n.form = "literal"
    BY <2>3, LiteralTokens
  <2> HIDE DEF n
  <2>5. Plain(n) = n /\ Plain(l) = l
    BY <2>1, <2>4 DEF Plain
  <2>6. Disassembled(l) = [class |-> "SDT", f |-> [sf |-> GetMode(l.rt), rt |-> l.rt.n,
                                                   mode |-> 0, simm19 |-> l.off]]
    BY <2>1, <2>5 DEF Disassembled, LoadLiteral
  <2>7. Disassembled(n) = [class |-> "SDT", f |-> [sf |-> GetMode(l.rt), rt |-> l.rt.n,
                                                   mode |-> 0, simm19 |-> off]]
    BY <2>3, <2>4, <2>5 DEF Disassembled, LoadLiteral
  <2>8. \A f : f.mode = 0 => SecondFields("SDT", f) = <<F("simm19", 5, 19)>>
    BY DEF SecondFields
  <2>9. LET d == Disassembled(l)
            e == Disassembled(n)
        IN  /\ e.class = d.class /\ DOMAIN e.f = DOMAIN d.f
            /\ "simm19" \in DOMAIN d.f /\ e.f.simm19 = off
            /\ \A name \in DOMAIN d.f : name # "simm19" => e.f[name] = d.f[name]
    BY <2>6, <2>7
  <2>10. Disassembled(l).class = "SDT" /\ Disassembled(l).f.mode = 0
    BY <2>6
  <2>11. OffsetField(l).name = "simm19"
    BY <2>1 DEF F
  <2>12. \A f : f.mode = 0 => /\ SecondFields("SDT", f)[1] = OffsetField(l)
                              /\ Len(SecondFields("SDT", f)) \in 1..3
    BY <2>1, <2>8
  <2>13. n \in ReferenceLines
    BY <2>3 DEF ReferenceLines
  <2>14. \A f : \/ Disassembled(l).class = "SDT" /\ f.mode = Disassembled(l).f.mode
                \/ Disassembled(l).class = "B" /\ f.type = Disassembled(l).f.type
                => /\ SecondFields(Disassembled(l).class, f)[1] = OffsetField(l)
                   /\ Len(SecondFields(Disassembled(l).class, f)) \in 1..3
    BY <2>10, <2>12
  <2> QED
    BY <2>5, <2>9, <2>10, <2>11, <2>13, <2>14 DEF n
<1>2. CASE l \in UnconditionalLines
  <2>1. l.t = "b" /\ l.form = "bu" /\ OffsetField(l) = F("simm26", 0, 26)
    BY <1>2, UnconditionalTokens DEF OffsetField
  <2>2. off \in SignedRange(26)
    BY <2>1 DEF F
  <2>3. n \in UnconditionalLines /\ n.off = off
    BY <1>2, <2>2 DEF UnconditionalLines
  <2>4. n.t = "b" /\ n.form = "bu"
    BY <2>3, UnconditionalTokens
  <2> HIDE DEF n
  <2>5. Plain(n) = n /\ Plain(l) = l
    BY <2>1, <2>4 DEF Plain
  <2>6. Disassembled(l) = [class |-> "B", f |-> [type |-> 0, simm26 |-> l.off]]
    BY <2>1, <2>5 DEF Disassembled, Branch
  <2>7. Disassembled(n) = [class |-> "B", f |-> [type |-> 0, simm26 |-> n.off]]
    BY <2>4, <2>5 DEF Disassembled, Branch
  <2>8. \A f : f.type = 0 => SecondFields("B", f) = <<F("simm26", 0, 26)>>
    BY DEF SecondFields
  <2> QED
    BY <2>1, <2>3, <2>5, <2>6, <2>7, <2>8 DEF F, ReferenceLines, n
<1>3. CASE l \in ConditionalLines
  <2>1. l.t = "b" /\ l.form = "bc" /\ OffsetField(l) = F("simm19", 5, 19)
    BY <1>3, ConditionalTokens DEF OffsetField
  <2>2. off \in SignedRange(19)
    BY <2>1 DEF F
  <2>3. n \in ConditionalLines /\ n.off = off /\ n.cond = l.cond
    BY <1>3, <2>2 DEF ConditionalLines
  <2>4. n.t = "b" /\ n.form = "bc"
    BY <2>3, ConditionalTokens
  <2> HIDE DEF n
  <2>5. Plain(n) = n /\ Plain(l) = l
    BY <2>1, <2>4 DEF Plain
  <2>6. Disassembled(l) = [class |-> "B", f |-> [type |-> 1, tag |-> Cond[l.cond][1],
                                                 neg |-> Cond[l.cond][2], simm19 |-> l.off]]
    BY <2>1, <2>5 DEF Disassembled, Branch
  <2>7. Disassembled(n) = [class |-> "B", f |-> [type |-> 1, tag |-> Cond[l.cond][1],
                                                 neg |-> Cond[l.cond][2], simm19 |-> off]]
    BY <2>3, <2>4, <2>5 DEF Disassembled, Branch
  <2>8. \A f : f.type = 1 => SecondFields("B", f) = <<F("simm19", 5, 19), F("tag", 1, 3), F("neg", 0, 1)>>
    BY DEF SecondFields
  <2> QED
    BY <2>1, <2>3, <2>5, <2>6, <2>7, <2>8 DEF F, ReferenceLines, n
<1> QED
  BY <1>1, <1>2, <1>3 DEF ReferenceLines

-----------------------------------------------------------------------------
(* Types. *)

\* Each field has the length of its name.
IsMeasured(s) ==
  \A k \in 1..Len(s) : s[k].len = Length(s[k].name)

LEMMA ListsMeasured ==
  ASSUME NEW class, NEW f, Selected(class, f)
  PROVE  /\ IsMeasured(FirstFields(class)) /\ IsMeasured(SecondFields(class, f))
         /\ IsMeasured(ThirdFields(class, f))
<1>1. IsMeasured(FirstFields(class))
  BY DEF Selected, FirstFields, F, IsMeasured, Length
<1>2. IsMeasured(SecondFields(class, f))
  <2>1. CASE class = "DPI" /\ f.opi = 2
    BY <2>1 DEF SecondFields, F, IsMeasured, Length
  <2>2. CASE class = "DPI" /\ f.opi = 5
    BY <2>2 DEF SecondFields, F, IsMeasured, Length
  <2>3. CASE class = "DPR" /\ f.m = 0
    BY <2>3 DEF SecondFields, F, IsMeasured, Length
  <2>4. CASE class = "DPR" /\ f.m = 1
    BY <2>4 DEF SecondFields, F, IsMeasured, Length
  <2>5. CASE class = "SDT" /\ f.mode = 0
    BY <2>5 DEF SecondFields, F, IsMeasured, Length
  <2>6. CASE class = "SDT" /\ f.mode = 1
    BY <2>6 DEF SecondFields, F, IsMeasured, Length
  <2>7. CASE class = "B" /\ f.type = 0
    BY <2>7 DEF SecondFields, F, IsMeasured, Length
  <2>8. CASE class = "B" /\ f.type = 1
    BY <2>8 DEF SecondFields, F, IsMeasured, Length
  <2>9. CASE class = "B" /\ f.type = 3
    BY <2>9 DEF SecondFields, F, IsMeasured, Length
  <2> QED
    BY <2>1, <2>2, <2>3, <2>4, <2>5, <2>6, <2>7, <2>8, <2>9 DEF Selected
<1>3. IsMeasured(ThirdFields(class, f))
  <2>1. CASE class # "SDT" \/ f.mode = 0
    BY <2>1 DEF ThirdFields, IsMeasured
  <2>2. CASE class = "SDT" /\ f.mode = 1 /\ f.u = 1
    BY <2>2 DEF ThirdFields, F, IsMeasured, Length
  <2>3. CASE class = "SDT" /\ f.mode = 1 /\ f.u = 0 /\ f.offmode = 0
    BY <2>3 DEF ThirdFields, F, IsMeasured, Length
  <2>4. CASE class = "SDT" /\ f.mode = 1 /\ f.u = 0 /\ f.offmode = 1
    BY <2>4 DEF ThirdFields, F, IsMeasured, Length
  <2> QED
    BY <2>1, <2>2, <2>3, <2>4 DEF Selected
<1> QED
  BY <1>1, <1>2, <1>3

LEMMA FitsRange ==
  ASSUME NEW k, k.len = Length(k.name), NEW v, Fits(k, v)
  PROVE  v \in ValueRange(k.name)
  BY DEF Fits, ValueRange

\* Whatever the bits, what getBits reads fits the field it is read from.
LEMMA ReadFits ==
  ASSUME NEW w \in Words, NEW k, IsField(k)
  PROVE  LET value == Unsigned(GetBits(w, k.at, k.len), k.len)
         IN  Fits(k, IF k.name \in SignedFields THEN SignExtend(value, k.len) ELSE value)
<1> DEFINE bits == GetBits(w, k.at, k.len)
           value == Unsigned(bits, k.len)
           p == 2^(k.len - 1)
           q == 2^k.len
<1>1. k.len \in Nat /\ k.len - 1 \in Nat /\ (k.len - 1) + 1 = k.len
  BY DEF IsField
<1>2. \A i \in 0 .. k.len - 1 : bits[i] \in {0, 1}
  <2>1. \A i \in 0 .. k.len - 1 : k.at + i \in WordBits
    BY FieldBit
  <2> QED
    BY <2>1 DEF GetBits, Words
<1>3. value \in 0 .. q - 1
  BY <1>1, <1>2, UnsignedIn
<1>4. q = 2 * p /\ p \in Nat \ {0}
  BY <1>1, PowerNext, PowerPositive
<1> HIDE DEF bits, value, p, q
<1>5. CASE k.name \in SignedFields
  <2>1. SignExtend(value, k.len) = IF value >= p THEN value - q ELSE value
    BY DEF SignExtend, p, q
  <2>2. SignExtend(value, k.len) \in -p .. p - 1
    BY <1>3, <1>4, <2>1
  <2> QED
    BY <1>5, <2>2 DEF Fits, SignedRange, value, bits, p
<1>6. CASE k.name \notin SignedFields
  BY <1>3, <1>6 DEF Fits, UnsignedRange, value, bits, q
<1> QED
  BY <1>5, <1>6

LEMMA ReadRange ==
  ASSUME NEW w \in Words, NEW s, IsList(s), IsMeasured(s), NEW name \in Names(s)
  PROVE  ReadFields(w, s)[name] \in ValueRange(name)
<1> DEFINE k == ReadLast(s, name)
           value == Unsigned(GetBits(w, k.at, k.len), k.len)
           read == IF k.name \in SignedFields THEN SignExtend(value, k.len) ELSE value
<1>1. k \in ToSet(s) /\ k.name = name
  BY ReadLastIn DEF Names
<1>2. name \in {o.name : o \in ToSet(s)}
  BY <1>1
<1>3. ReadFields(w, s)[name] = IF name \in SignedFields THEN SignExtend(value, k.len) ELSE value
  BY <1>2 DEF ReadFields, ReadLast
<1>4. PICK i \in 1..Len(s) : k = s[i]
  BY <1>1 DEF ToSet, IsList
<1> HIDE DEF k
<1>5. IsField(k) /\ k.len = Length(k.name)
  BY <1>4 DEF IsList, IsMeasured
<1>6. Fits(k, read)
  BY <1>5, ReadFits
<1>7. read = ReadFields(w, s)[name]
  BY <1>1, <1>3
<1> HIDE DEF read
<1>8. read \in ValueRange(k.name)
  BY <1>5, <1>6, FitsRange
<1> QED
  BY <1>1, <1>7, <1>8

\* The fields of a structure are in the range of their names.
LEMMA MadeRange ==
  ASSUME NEW class, NEW f, Shaped(class, f), NEW name \in Shown(class, f)
  PROVE  f[name] \in ValueRange(name)
<1>1. class \in {"DPI", "DPR", "SDT", "B"} /\ Selected(class, f)
  BY DEF Shaped, Selected
<1>2. CASE name \in Names(FirstFields(class))
  <2>1. PICK k \in 1..Len(FirstFields(class)) : name = FirstFields(class)[k].name
    BY <1>2 DEF Names
  <2> DEFINE g == FirstFields(class)[k]
  <2>2. IsField(g) /\ Fits(g, f[g.name]) /\ g.len = Length(g.name)
    BY <1>1, FirstIsList, ListsMeasured DEF IsList, IsMeasured, Shaped
  <2>3. g.name = name
    BY <2>1
  <2> HIDE DEF g
  <2> QED
    BY <2>2, <2>3, FitsRange
<1>3. CASE name \in Names(SecondFields(class, f))
  <2>1. PICK k \in 1..Len(SecondFields(class, f)) : name = SecondFields(class, f)[k].name
    BY <1>3 DEF Names
  <2> DEFINE g == SecondFields(class, f)[k]
  <2>2. IsField(g) /\ Fits(g, f[g.name]) /\ g.len = Length(g.name)
    BY <1>1, SecondIsList, ListsMeasured DEF IsList, IsMeasured, Shaped
  <2>3. g.name = name
    BY <2>1
  <2> HIDE DEF g
  <2> QED
    BY <2>2, <2>3, FitsRange
<1>4. CASE name \in Names(ThirdFields(class, f))
  <2>1. PICK k \in 1..Len(ThirdFields(class, f)) : name = ThirdFields(class, f)[k].name
    BY <1>4 DEF Names
  <2> DEFINE g == ThirdFields(class, f)[k]
  <2>2. IsField(g) /\ Fits(g, f[g.name]) /\ g.len = Length(g.name)
    BY <1>1, ThirdIsList, ListsMeasured DEF IsList, IsMeasured, Shaped
  <2>3. g.name = name
    BY <2>1
  <2> HIDE DEF g
  <2> QED
    BY <2>2, <2>3, FitsRange
<1> QED
  BY <1>2, <1>3, <1>4 DEF Shown

LEMMA DecodedRange ==
  ASSUME NEW class, NEW f, Shaped(class, f)
  PROVE  LET r == Decoded(Encoded(class, f))
         IN  r.class = class /\ \A name \in DOMAIN r.f : r.f[name] \in ValueRange(name)
<1> DEFINE w == Encoded(class, f)
           first == ReadFields(w, FirstFields(class))
           second == ReadFields(w, SecondFields(class, f))
           third == ReadFields(w, ThirdFields(class, f))
<1>1. class \in {"DPI", "DPR", "SDT", "B"} /\ Selected(class, f)
  BY DEF Shaped, Selected
<1>2. w \in Words
  BY EncodedIn
<1>3. \A name \in DOMAIN first : first[name] \in ValueRange(name)
  BY <1>1, <1>2, FirstIsList, ListsMeasured, ReadNames, ReadRange
<1>4. \A name \in DOMAIN second : second[name] \in ValueRange(name)
  BY <1>1, <1>2, SecondIsList, ListsMeasured, ReadNames, ReadRange
<1>5. \A name \in DOMAIN third : third[name] \in ValueRange(name)
  BY <1>1, <1>2, ThirdIsList, ListsMeasured, ReadNames, ReadRange
<1>6. ThirdRead(class, f) = (first ++ second) ++ third
  BY DEF ThirdRead, SecondRead, FirstRead
<1> HIDE DEF first, second, third
<1>7. \A name \in DOMAIN ThirdRead(class, f) : ThirdRead(class, f)[name] \in ValueRange(name)
  BY <1>3, <1>4, <1>5, <1>6 DEF ++
<1> QED
  BY <1>7, ReadingsAre


\* offmode is one bit.
LEMMA OffmodeRange == ValueRange("offmode") = 0..1
<1>1. ValueRange("offmode") = 0 .. 2^(0 + 1) - 1
  BY DEF ValueRange, SignedFields, Length, UnsignedRange
<1> QED
  BY <1>1, PowerNext

\* A line with an offset to complete has one field of its name.
LEMMA SecondOnce ==
  ASSUME NEW class, NEW f,
         (class = "SDT" /\ f.mode = 0) \/ (class = "B" /\ f.type \in {0, 1})
  PROVE  \A m \in 1..Len(SecondFields(class, f)) :
           SecondFields(class, f)[m].name = SecondFields(class, f)[1].name => m = 1
<1>1. CASE class = "SDT" /\ f.mode = 0
  BY <1>1 DEF SecondFields
<1>2. CASE class = "B" /\ f.type = 0
  BY <1>2 DEF SecondFields
<1>3. CASE class = "B" /\ f.type = 1
  BY <1>3 DEF SecondFields, F
<1> QED
  BY <1>1, <1>2, <1>3

-----------------------------------------------------------------------------
(***************************************************************************)
(* The specification.  The structure holds what the line assigns, beside   *)
(* an offmode of the lines before; the word is the one of these fields,    *)
(* and still is when its offset has been completed, for then the line is   *)
(* the one that names the new offset.                                      *)
(***************************************************************************)
StructureInv ==
  LET d == Disassembled(line)
  IN  /\ ins.class = d.class
      /\ DOMAIN ins.f = DOMAIN d.f \cup {"offmode"} /\ ins.f.offmode \in 0..1
      /\ \A name \in DOMAIN ins.f : ins.f[name] \in ValueRange(name)

WordInv == LET d == Disassembled(line) IN word = Encoded(d.class, d.f ++ ins.f)

IInv ==
  /\ Plain(line) \in PlainLines
  /\ step \in {"line", "fields", "word", "complete", "decoded"}
  /\ step = "line" => ins = NoFields
  /\ step \in {"line", "fields"} => word = EmptyWord
  /\ step # "decoded" => dec = NoFields
  /\ step # "line" => StructureInv
  /\ step \in {"fields", "word"} => Disassembled(line).f ++ ins.f = ins.f
  /\ step \in {"word", "complete", "decoded"} => WordInv
  /\ step = "decoded" => dec = Decoded(word)

LEMMA InitInv ==
  ASSUME Init
  PROVE  IInv
  BY LinesAssumption DEF Init, IInv

LEMMA DisassembleInv ==
  ASSUME IInv, Disassemble
  PROVE  IInv'
<1> DEFINE d == Disassembled(line)
<1>1. PICK stale \in {0, 1} : ins' = [d EXCEPT !.f = @ ++ [offmode |-> stale]]
  BY DEF Disassemble
<1>2. d = [class |-> d.class, f |-> d.f] /\ Made(d.class, d.f, stale)
  BY LineMade DEF IInv
<1>3. line' = line /\ word' = word /\ dec' = dec /\ step = "line" /\ step' = "fields"
  BY DEF Disassemble
<1>4. DOMAIN d.f = Shown(d.class, d.f ++ [offmode |-> stale]) /\ Shaped(d.class, d.f ++ [offmode |-> stale])
  BY <1>2 DEF Made
<1>5. Disassembled(line)' = d
  BY <1>3
<1> HIDE DEF d
<1>6. ins' = [class |-> d.class, f |-> d.f ++ [offmode |-> stale]]
  BY <1>1, <1>2
<1> DEFINE f == d.f ++ [offmode |-> stale]
<1>7. DOMAIN f = DOMAIN d.f \cup {"offmode"} /\ d.f ++ f = f
  BY DEF ++
<1>8. \A name \in DOMAIN d.f : f[name] \in ValueRange(name)
  BY <1>4, MadeRange
<1>9. f.offmode \in 0..1 /\ f.offmode \in ValueRange("offmode")
  <2>1. CASE "offmode" \in DOMAIN d.f
    BY <2>1, <1>8, OffmodeRange
  <2>2. CASE "offmode" \notin DOMAIN d.f
    BY <2>2, BesideOut, OffmodeRange
  <2> QED
    BY <2>1, <2>2
<1> HIDE DEF f
<1>10. \A name \in DOMAIN f : f[name] \in ValueRange(name)
  BY <1>7, <1>8, <1>9
<1>11. StructureInv'
  BY <1>5, <1>6, <1>7, <1>9, <1>10 DEF StructureInv, f
<1>12. (Disassembled(line).f ++ ins.f = ins.f)'
  BY <1>5, <1>6, <1>7 DEF f
<1> QED
  BY <1>3, <1>11, <1>12 DEF IInv

LEMMA EncodeInv ==
  ASSUME IInv, Encode
  PROVE  IInv'
<1>1. /\ step = "fields" /\ step' = "word" /\ line' = line /\ ins' = ins /\ dec' = dec
      /\ word' = Encoded(ins.class, ins.f)
  BY DEF Encode
<1>2. StructureInv /\ Disassembled(line).f ++ ins.f = ins.f
  BY <1>1 DEF IInv
<1>3. Disassembled(line)' = Disassembled(line)
  BY <1>1
<1>4. WordInv'
  BY <1>1, <1>2, <1>3 DEF WordInv, StructureInv
<1>5. StructureInv'
  BY <1>1, <1>2, <1>3 DEF StructureInv
<1> QED
  BY <1>1, <1>2, <1>3, <1>4, <1>5 DEF IInv

LEMMA CompleteInv ==
  ASSUME IInv, Complete
  PROVE  IInv'
<1> DEFINE field == OffsetField(line)
           d == Disassembled(line)
<1>1. /\ step = "word" /\ step' = "complete" /\ ins' = ins /\ dec' = dec /\ IsReference(line)
  BY DEF Complete
<1>2. PICK off \in Offsets[field.len] :
        /\ word' = PutBits(word, Bits(off, field.len), field.at, field.len)
        /\ line' = [line EXCEPT !.off = off]
  BY DEF Complete
<1>3. line \in ReferenceLines
  BY <1>1, Reference DEF IInv
<1>4. field.len \in {19, 26}
  BY <1>3, LiteralTokens, UnconditionalTokens, ConditionalTokens DEF ReferenceLines, OffsetField, F
<1>5. off \in SignedRange(field.len)
  BY <1>4, OffsetsAssumption
<1> DEFINE n == [line EXCEPT !.off = off]
           e == Disassembled(n)
           f == d.f ++ ins.f
           g == e.f ++ ins.f
<1>6. /\ n \in ReferenceLines /\ Plain(n) = n /\ e.class = d.class /\ DOMAIN e.f = DOMAIN d.f
      /\ field.name \in DOMAIN d.f /\ e.f[field.name] = off
      /\ \A name \in DOMAIN d.f : name # field.name => e.f[name] = d.f[name]
  BY <1>3, <1>5, CompletedLine
<1>7. \/ d.class = "SDT" /\ d.f.mode = 0
      \/ d.class = "B" /\ d.f.type \in {0, 1}
  BY <1>3, <1>5, CompletedLine
<1>8. \A h : \/ d.class = "SDT" /\ h.mode = d.f.mode
             \/ d.class = "B" /\ h.type = d.f.type
             => /\ SecondFields(d.class, h)[1] = field
                /\ Len(SecondFields(d.class, h)) \in 1..3
  BY <1>3, <1>5, CompletedLine
<1>9. StructureInv /\ WordInv
  BY <1>1 DEF IInv
<1> DEFINE stale == ins.f.offmode
<1>10. stale \in 0..1 /\ DOMAIN ins.f = DOMAIN d.f \cup {"offmode"}
  BY <1>9 DEF StructureInv
<1>11. f = d.f ++ [offmode |-> stale] /\ g = e.f ++ [offmode |-> stale]
  BY <1>6, <1>10, Beside
<1>12. Made(d.class, d.f, stale)
  BY <1>10, LineMade DEF IInv
<1>13. Plain(n) \in PlainLines
  BY <1>6 DEF PlainLines
<1>14. Made(e.class, e.f, stale)
  BY <1>10, <1>13, LineMade
<1>15. Selected(d.class, f) /\ DOMAIN d.f = Shown(d.class, f)
  BY <1>11, <1>12 DEF Made, Shaped
<1>16. Selected(d.class, g)
  BY <1>6, <1>11, <1>14 DEF Made, Shaped
<1>17. /\ \A name \in DOMAIN d.f : f[name] = d.f[name]
       /\ \A name \in DOMAIN d.f : g[name] = e.f[name]
  BY <1>6, BesideIn
<1>18. Disassembled(line)' = e
  BY <1>2
<1>19. word = Encoded(d.class, f)
  BY <1>9 DEF WordInv
<1> HIDE DEF d, e, f, g, field, n, stale
<1>20. \/ d.class = "SDT" /\ f.mode = 0 /\ f.mode = d.f.mode
       \/ d.class = "B" /\ f.type \in {0, 1} /\ f.type = d.f.type
  <2>1. CASE d.class = "SDT" /\ d.f.mode = 0
    <3>1. "mode" \in Shown(d.class, f)
      BY <2>1, FirstSDT DEF Shown
    <3> QED
      BY <2>1, <3>1, <1>15, <1>17
  <2>2. CASE d.class = "B" /\ d.f.type \in {0, 1}
    <3>1. "type" \in Shown(d.class, f)
      BY <2>2, FirstB DEF Shown
    <3> QED
      BY <2>2, <3>1, <1>15, <1>17
  <2> QED
    BY <1>7, <2>1, <2>2
<1>21. SecondFields(d.class, f)[1] = field /\ 1 \in 1..Len(SecondFields(d.class, f))
  BY <1>8, <1>20
<1>22. \A m \in 1..Len(SecondFields(d.class, f)) :
         SecondFields(d.class, f)[m].name = SecondFields(d.class, f)[1].name => m = 1
  <2>1. (d.class = "SDT" /\ f.mode = 0) \/ (d.class = "B" /\ f.type \in {0, 1})
    BY <1>20
  <2> QED
    BY <2>1, SecondOnce
<1>23. \A name \in Shown(d.class, f) : name # field.name => g[name] = f[name]
  BY <1>6, <1>15, <1>17
<1>24. g[field.name] = off
  BY <1>6, <1>17
<1>25. Encoded(d.class, g)
         = PutBits(Encoded(d.class, f), Bits(g[field.name], field.len), field.at, field.len)
  BY <1>15, <1>16, <1>20, <1>21, <1>22, <1>23, Completion
<1>26. word' = Encoded(d.class, g)
  BY <1>2, <1>19, <1>24, <1>25 DEF field
<1>27. WordInv'
  BY <1>1, <1>6, <1>18, <1>26 DEF WordInv, g
<1>28. StructureInv'
  BY <1>1, <1>6, <1>9, <1>18 DEF StructureInv, d
<1>29. (Plain(line) \in PlainLines)'
  BY <1>2, <1>13 DEF n
<1> QED
  BY <1>1, <1>27, <1>28, <1>29 DEF IInv

LEMMA DecodeInv ==
  ASSUME IInv, Decode
  PROVE  IInv'
<1>1. /\ step \in {"word", "complete"} /\ step' = "decoded"
      /\ line' = line /\ ins' = ins /\ word' = word /\ dec' = Decoded(word)
  BY DEF Decode
<1>2. StructureInv /\ WordInv
  BY <1>1 DEF IInv
<1>3. StructureInv' /\ WordInv'
  BY <1>1, <1>2 DEF StructureInv, WordInv
<1> QED
  BY <1>1, <1>3 DEF IInv

LEMMA Invariance == Spec => []IInv
<1>1. Init => IInv
  BY InitInv
<1>2. IInv /\ [Next]_vars => IInv'
  <2> SUFFICES ASSUME IInv, [Next]_vars
               PROVE  IInv'
    OBVIOUS
  <2>1. CASE Disassemble
    BY <2>1, DisassembleInv
  <2>2. CASE Encode
    BY <2>2, EncodeInv
  <2>3. CASE Complete
    BY <2>3, CompleteInv
  <2>4. CASE Decode
    BY <2>4, DecodeInv
  <2>5. CASE UNCHANGED vars
    BY <2>5 DEF vars, IInv, StructureInv, WordInv
  <2> QED
    BY <2>1, <2>2, <2>3, <2>4, <2>5 DEF Next
<1> QED
  BY <1>1, <1>2, PTL DEF Spec
-----------------------------------------------------------------------------
\* What a word was made of.
LEMMA WordMade ==
  ASSUME IInv, step \in {"word", "complete", "decoded"}
  PROVE  LET d == Disassembled(line)
             f == d.f ++ [offmode |-> ins.f.offmode]
         IN  /\ d.f ++ ins.f = f /\ word = Encoded(d.class, f)
             /\ Shaped(d.class, f) /\ DOMAIN d.f = Shown(d.class, f)
<1> DEFINE d == Disassembled(line)
           stale == ins.f.offmode
<1>1. StructureInv /\ WordInv
  BY DEF IInv
<1>2. stale \in 0..1 /\ DOMAIN ins.f = DOMAIN d.f \cup {"offmode"}
  BY <1>1 DEF StructureInv
<1>3. d.f ++ ins.f = d.f ++ [offmode |-> stale]
  BY <1>2, Beside
<1>4. Made(d.class, d.f, stale)
  BY <1>2, LineMade DEF IInv
<1> QED
  BY <1>1, <1>3, <1>4 DEF WordInv, Made

\* The words are 32 bits, and every member of a structure, put or read, fits the
\* bits it has in a word (structs.h, instructions.h): putBits cuts nothing.
THEOREM TypeCorrect == Spec => []TypeOK
<1>1. IInv => TypeOK
  <2> SUFFICES ASSUME IInv
               PROVE  TypeOK
    OBVIOUS
  <2> DEFINE d == Disassembled(line)
             f == d.f ++ [offmode |-> ins.f.offmode]
  <2>1. word \in Words
    <3>1. CASE step \in {"line", "fields"}
      BY <3>1 DEF IInv, EmptyWord, Words
    <3>2. CASE step \in {"word", "complete", "decoded"}
      BY <3>2, WordMade, EncodedIn
    <3> QED
      BY <3>1, <3>2 DEF IInv
  <2>2. /\ ins.class \in {"none", "DPI", "DPR", "SDT", "B"}
        /\ \A name \in DOMAIN ins.f : ins.f[name] \in ValueRange(name)
    <3>1. CASE step = "line"
      BY <3>1 DEF IInv, NoFields
    <3>2. CASE step # "line"
      <4>1. StructureInv
        BY <3>2 DEF IInv
      <4>2. Made(d.class, d.f, 0)
        BY LineMade DEF IInv
      <4> QED
        BY <4>1, <4>2 DEF StructureInv, Made, Shaped, Selected
    <3> QED
      BY <3>1, <3>2
  <2>3. /\ dec.class \in {"none", "DPI", "DPR", "SDT", "B"}
        /\ \A name \in DOMAIN dec.f : dec.f[name] \in ValueRange(name)
    <3>1. CASE step # "decoded"
      BY <3>1 DEF IInv, NoFields
    <3>2. CASE step = "decoded"
      <4>1. dec = Decoded(Encoded(d.class, f)) /\ Shaped(d.class, f)
        BY <3>2, WordMade DEF IInv
      <4>2. d.class \in {"DPI", "DPR", "SDT", "B"}
        BY <4>1 DEF Shaped, Selected
      <4> HIDE DEF d, f
      <4> QED
        BY <4>1, <4>2, DecodedRange
    <3> QED
      BY <3>1, <3>2
  <2>4. step \in {"line", "fields", "word", "complete", "decoded"}
    BY DEF IInv
  <2> QED
    BY <2>1, <2>2, <2>3, <2>4 DEF TypeOK, Words
<1> QED
  BY <1>1, Invariance, PTL

\* The emulator reads back the class of the line and every field that the
\* disassembler gave it, of every line of the language and for every offset
\* that fits, known in time or completed (decoders.c, onepass.c).
THEOREM ReadAsWritten == Spec => []RoundTrip
<1>1. IInv => RoundTrip
  <2> SUFFICES ASSUME IInv, step = "decoded"
               PROVE  LET given == Disassembled(line)
                      IN  /\ dec.class = given.class
                          /\ \A name \in DOMAIN given.f :
                               name \in DOMAIN dec.f /\ dec.f[name] = given.f[name]
    BY DEF RoundTrip
  <2> DEFINE d == Disassembled(line)
             f == d.f ++ [offmode |-> ins.f.offmode]
  <2>1. /\ dec = Decoded(Encoded(d.class, f)) /\ Shaped(d.class, f)
        /\ DOMAIN d.f = Shown(d.class, f)
    BY WordMade DEF IInv
  <2>2. \A name \in DOMAIN d.f : f[name] = d.f[name]
    BY BesideIn
  <2> HIDE DEF d, f
  <2>3. dec.class = d.class
    BY <2>1, DecodedRange
  <2>4. \A name \in DOMAIN d.f : name \in DOMAIN dec.f /\ dec.f[name] = d.f[name]
    BY <2>1, <2>2, ShownAreRead
  <2> QED
    BY <2>3, <2>4 DEF d
<1> QED
  BY <1>1, Invariance, PTL

\* Whatever an earlier line left in the byte of offmode, the word is the same
\* (the order of putBits in decodeSDT).
THEOREM StaleUnseen == Spec => []StaleInvisible
<1>1. IInv => StaleInvisible
  <2> SUFFICES ASSUME IInv, step = "word", NEW stale \in {0, 1}
               PROVE  word = Encoded(Disassembled(line).class,
                                     Disassembled(line).f ++ [offmode |-> stale])
    BY DEF StaleInvisible
  <2> DEFINE d == Disassembled(line)
             f == d.f ++ [offmode |-> ins.f.offmode]
             g == d.f ++ [offmode |-> stale]
  <2>1. word = Encoded(d.class, f) /\ Shaped(d.class, f) /\ DOMAIN d.f = Shown(d.class, f)
    BY WordMade
  <2>2. \A name \in DOMAIN d.f : g[name] = f[name]
    BY BesideIn
  <2> HIDE DEF d, f, g
  <2>3. Encoded(d.class, g) = Encoded(d.class, f)
    BY <2>1, <2>2, EncodedSame DEF Shaped
  <2> QED
    BY <2>1, <2>3 DEF d, g
<1> QED
  BY <1>1, Invariance, PTL

\* Completing an offset gives the word of the same line with its label known
\* (handleUndefLabel, onepass.c).
THEOREM CompletedAsKnown == Spec => []CompletionAgrees
<1>1. IInv => CompletionAgrees
  BY DEF IInv, WordInv, CompletionAgrees
<1> QED
  BY <1>1, Invariance, PTL
=============================================================================
