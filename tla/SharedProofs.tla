---------------------------- MODULE SharedProofs ----------------------------
(***************************************************************************)
(* What several components rest on: the first of a set of numbers or of a  *)
(* sequence's entries, numbers and their bits, and the accessors of the    *)
(* fields of a word.                                                       *)
(***************************************************************************)
EXTENDS BitFields, FiniteSetTheorems, SequenceTheorems, WellFoundedInduction, TLAPS

-----------------------------------------------------------------------------
(* The first that a loop finds. *)

\* A nonempty set of numbers has a least one.
LEMMA LeastIn ==
  ASSUME NEW S \in SUBSET Nat, S # {}
  PROVE  LET least == CHOOSE r \in S : \A s \in S : r <= s
         IN  least \in S /\ \A s \in S : least <= s
<1>1. \E r \in S : \A s \in S : r <= s
  <2>. DEFINE R == OpToRel(<, Nat)
  <2>1. IsWellFoundedOn(R, Nat)
    BY NatLessThanWellFounded
  <2>2. \A p, q \in Nat : p < q => <<p, q>> \in R
    BY DEF OpToRel
  <2>. HIDE DEF R
  <2>3. PICK r \in S : \A s \in S : ~(<<s, r>> \in R)
    BY <2>1, WFMin
  <2>4. ASSUME NEW s \in S PROVE r <= s
    <3>1. r \in Nat /\ s \in Nat /\ ~(s < r)
      BY <2>2, <2>3
    <3>. QED
      BY <3>1
  <2>. QED
    BY <2>4
<1>. QED
  BY <1>1

LEMMA Least ==
  ASSUME NEW S \in SUBSET Nat, S # {}
  PROVE  \E r \in S : \A s \in S : r <= s
  BY LeastIn

\* The first entry of a name.
FirstOf(m, name) ==
  CHOOSE i \in DOMAIN m : m[i].name = name /\ \A j \in 1..i-1 : m[j].name # name

LEMMA FirstNamed ==
  ASSUME NEW Es, NEW m \in Seq(Es), NEW name, \E i \in DOMAIN m : m[i].name = name
  PROVE  FirstOf(m, name) \in DOMAIN m /\ m[FirstOf(m, name)].name = name
<1>. DEFINE S == {i \in DOMAIN m : m[i].name = name}
            First(i) == m[i].name = name /\ \A j \in 1..i-1 : m[j].name # name
<1>1. S \in SUBSET Nat /\ S # {}
  OBVIOUS
<1>2. PICK i \in S : \A j \in S : i <= j
  BY <1>1, Least
<1>3. i \in DOMAIN m /\ First(i)
  <2>1. ASSUME NEW j \in 1..i-1 PROVE m[j].name # name
    <3>1. i \in 1..Len(m)
      OBVIOUS
    <3>2. j \in DOMAIN m /\ ~(i <= j)
      BY <3>1
    <3>. QED
      BY <1>2, <3>2
  <2>. QED
    BY <2>1
<1>. QED
  BY <1>3 DEF FirstOf
-----------------------------------------------------------------------------
(* Numbers and their bits. *)

\* The subsets of 1..n are counted by 2^n, of which the rest is read off.
LEMMA Subsets ==
  ASSUME NEW n \in Nat
  PROVE  IsFiniteSet(SUBSET (1..n)) /\ Cardinality(SUBSET (1..n)) = 2^n
<1>1. IsFiniteSet(1..n) /\ Cardinality(1..n) = n
  BY FS_Interval
<1>. QED
  BY <1>1, FS_SUBSET

LEMMA PowerPositive ==
  ASSUME NEW n \in Nat
  PROVE  2^n \in Nat \ {0}
<1>1. /\ IsFiniteSet(SUBSET (1..n)) /\ Cardinality(SUBSET (1..n)) = 2^n
  BY Subsets
<1>2. 2^n \in Nat
  BY <1>1, FS_CardinalityType
<1>3. {} \in SUBSET (1..n)
  OBVIOUS
<1>4. Cardinality(SUBSET (1..n)) # 0
  BY <1>1, <1>3, FS_EmptySet
<1>. QED
  BY <1>1, <1>2, <1>4

LEMMA PowerOrder ==
  ASSUME NEW m \in Nat, NEW n \in Nat, m <= n
  PROVE  2^m <= 2^n
<1>1. SUBSET (1..m) \subseteq SUBSET (1..n)
  OBVIOUS
<1>2. Cardinality(SUBSET (1..m)) <= Cardinality(SUBSET (1..n))
  BY <1>1, Subsets, FS_Subset
<1>. QED
  BY <1>2, Subsets

LEMMA PowerNext ==
  ASSUME NEW n \in Nat
  PROVE  2^(n + 1) = 2 * 2^n
<1>. DEFINE S == SUBSET (1..n)
            x == n + 1
            T == {A \cup {x} : A \in S}
            f == [A \in S |-> A \cup {x}]
<1>1. IsFiniteSet(S) /\ Cardinality(S) = 2^n
  BY Subsets
<1>2. f \in Bijection(S, T)
  <2>1. f \in [S -> T] /\ \A B \in T : \E A \in S : f[A] = B
    OBVIOUS
  <2>2. ASSUME NEW A \in S, NEW B \in S, f[A] = f[B] PROVE A = B
    <3>1. x \notin A /\ x \notin B
      OBVIOUS
    <3>2. A \cup {x} = B \cup {x}
      BY <2>2
    <3>. QED
      BY <3>1, <3>2
  <2>. HIDE DEF f, T, S
  <2>. QED
    BY <2>1, <2>2 DEF Bijection, Injection, Surjection, IsInjective
<1>3. IsFiniteSet(T) /\ Cardinality(T) = Cardinality(S)
  BY <1>1, <1>2, FS_Bijection DEF ExistsBijection
<1>4. S \cap T = {}
  <2>1. \A A \in S : x \notin A
    OBVIOUS
  <2>2. \A A \in T : x \in A
    OBVIOUS
  <2>. QED
    BY <2>1, <2>2
<1>5. S \cup T = SUBSET (1 .. n + 1)
  <2>1. S \cup T \subseteq SUBSET (1 .. n + 1)
    <3>1. 1..n \subseteq 1 .. n + 1 /\ x \in 1 .. n + 1
      OBVIOUS
    <3>2. S \subseteq SUBSET (1 .. n + 1)
      BY <3>1
    <3>3. \A A \in S : A \cup {x} \in SUBSET (1 .. n + 1)
      BY <3>1
    <3>4. T \subseteq SUBSET (1 .. n + 1)
      <4>. HIDE DEF S
      <4>. QED
        BY <3>3
    <3>. HIDE DEF S, T
    <3>. QED
      BY <3>2, <3>4
  <2>2. ASSUME NEW A \in SUBSET (1 .. n + 1) PROVE A \in S \cup T
    <3>1. \A a \in 1 .. n + 1 : a = x \/ a \in 1..n
      OBVIOUS
    <3>2. CASE x \in A
      <4>1. A \ {x} \in S
        BY <3>1
      <4>2. A = (A \ {x}) \cup {x}
        BY <3>2
      <4>. QED
        BY <4>1, <4>2
    <3>3. CASE x \notin A
      BY <3>1, <3>3
    <3>. QED
      BY <3>2, <3>3
  <2>. QED
    BY <2>1, <2>2
<1>6. Cardinality(SUBSET (1 .. n + 1)) = 2^(n + 1)
  BY Subsets
<1>7. Cardinality(S \cup T) = Cardinality(S) + Cardinality(T) - Cardinality(S \cap T)
  BY <1>1, <1>3, FS_Union
<1>8. 2^n \in Nat
  BY PowerPositive
<1>9. Cardinality(S \cap T) = 0
  BY <1>4, FS_EmptySet
<1>10. Cardinality(S \cup T) = 2^(n + 1)
  BY <1>5, <1>6
<1>. HIDE DEF S, T
<1>. QED
  BY <1>1, <1>3, <1>7, <1>8, <1>9, <1>10

-----------------------------------------------------------------------------
\* The partial sums of the first n of some terms.
SumsTo(f, t, n) == f = [k \in 0..n |-> IF k = 0 THEN 0 ELSE f[k-1] + t[k-1]]

LEMMA SumsExist ==
  ASSUME NEW t, NEW n \in Nat
  PROVE  \E f : SumsTo(f, t, n)
<1>. DEFINE S == {m \in Nat : ~ \E f : SumsTo(f, t, m)}
<1>1. SUFFICES ASSUME S # {} PROVE FALSE
  OBVIOUS
<1>2. PICK m \in S : \A s \in S : m <= s
  BY <1>1, Least
<1>3. m \in Nat /\ ~ \E f : SumsTo(f, t, m)
  BY <1>2
<1>4. m # 0
  <2>1. SumsTo([k \in 0..0 |-> 0], t, 0)
    BY DEF SumsTo
  <2>. QED
    BY <1>3, <2>1
<1>5. PICK f : SumsTo(f, t, m - 1)
  <2>1. m - 1 \in Nat /\ m - 1 \notin S
    BY <1>2, <1>3, <1>4
  <2>. QED
    BY <2>1
<1>. DEFINE g == [k \in 0..m |-> IF k = m THEN f[m-1] + t[m-1] ELSE f[k]]
<1>6. ASSUME NEW k \in 0..m
      PROVE  g[k] = IF k = 0 THEN 0 ELSE g[k-1] + t[k-1]
  <2>1. \A j \in 0 .. m - 1 : f[j] = IF j = 0 THEN 0 ELSE f[j-1] + t[j-1]
    BY <1>5 DEF SumsTo
  <2>2. CASE k = 0
    BY <1>3, <1>4, <2>1, <2>2
  <2>3. CASE k = m
    <3>1. k - 1 \in 0..m /\ k - 1 # m /\ k - 1 = m - 1
      BY <1>3, <1>4, <2>3
    <3>. QED
      BY <1>4, <2>3, <3>1
  <2>4. CASE k # 0 /\ k # m
    <3>1. k - 1 \in 0..m /\ k - 1 # m /\ k \in 0 .. m - 1
      BY <1>3, <2>4
    <3>. QED
      BY <2>1, <2>4, <3>1
  <2>. QED
    BY <2>2, <2>3, <2>4
<1>7. SumsTo(g, t, m)
  <2>. HIDE DEF g
  <2>1. g = [k \in 0..m |-> g[k]]
    BY DEF g
  <2>. QED
    BY <1>6, <2>1 DEF SumsTo
<1>. QED
  BY <1>3, <1>7

\* What holds of 0 and is passed on holds of every partial sum.
LEMMA UnsignedSums ==
  ASSUME NEW bits, NEW n \in Nat
  PROVE  \E f : /\ Unsigned(bits, n) = f[n] /\ f[0] = 0
                /\ \A k \in 0 .. n - 1 : f[k+1] = f[k] + bits[k] * 2^k
<1>. DEFINE t == [k \in 0 .. n - 1 |-> bits[k] * 2^k]
            Is(f) == f = [k \in 0..n |-> IF k = 0 THEN 0 ELSE f[k-1] + bits[k-1] * 2^(k-1)]
            u == CHOOSE f : Is(f)
<1>1. \E f : Is(f)
  <2>1. PICK f : SumsTo(f, t, n)
    BY SumsExist
  <2>2. \A k \in 0..n : k # 0 => t[k-1] = bits[k-1] * 2^(k-1)
    OBVIOUS
  <2>3. Is(f)
    BY <2>1, <2>2 DEF SumsTo
  <2>. QED
    BY <2>3
<1>2. Is(u)
  BY <1>1
<1>3. Unsigned(bits, n) = u[n]
  BY DEF Unsigned
<1>. HIDE DEF u
<1>4. u[0] = 0
  BY <1>2
<1>5. ASSUME NEW k \in 0 .. n - 1 PROVE u[k+1] = u[k] + bits[k] * 2^k
  <2>1. k + 1 \in 0..n /\ k + 1 # 0 /\ (k + 1) - 1 = k
    OBVIOUS
  <2>2. u[k+1] = u[(k+1)-1] + bits[(k+1)-1] * 2^((k+1)-1)
    BY <1>2, <2>1
  <2>. QED
    BY <2>1, <2>2
<1>. QED
  BY <1>3, <1>4, <1>5

\* n bits stand for a number below 2^n.
LEMMA UnsignedIn ==
  ASSUME NEW n \in Nat, NEW bits, \A k \in 0 .. n - 1 : bits[k] \in {0, 1}
  PROVE  Unsigned(bits, n) \in 0 .. 2^n - 1
<1>1. PICK f : /\ Unsigned(bits, n) = f[n] /\ f[0] = 0
               /\ \A k \in 0 .. n - 1 : f[k+1] = f[k] + bits[k] * 2^k
  BY UnsignedSums
<1>. DEFINE S == {k \in 0..n : f[k] \notin 0 .. 2^k - 1}
<1>2. SUFFICES ASSUME S # {} PROVE FALSE
  <2>1. n \notin S => f[n] \in 0 .. 2^n - 1
    OBVIOUS
  <2>. QED
    BY <1>1, <2>1
<1>3. PICK k \in S : \A s \in S : k <= s
  <2>1. S \in SUBSET Nat
    OBVIOUS
  <2>. QED
    BY <1>2, <2>1, Least
<1>4. k \in 0..n /\ f[k] \notin 0 .. 2^k - 1
  BY <1>3
<1>5. k # 0
  <2>1. 0 \in 0 .. 2^0 - 1
    OBVIOUS
  <2>. QED
    BY <1>1, <1>4, <2>1, Zenon
<1>6. k - 1 \in 0 .. n - 1 /\ k - 1 \in Nat /\ k - 1 \notin S /\ (k - 1) + 1 = k
  BY <1>3, <1>4, <1>5
<1>7. f[k-1] \in 0 .. 2^(k-1) - 1
  BY <1>6
<1>8. 2^k = 2 * 2^(k-1) /\ 2^(k-1) \in Nat \ {0}
  BY <1>6, PowerNext, PowerPositive
<1>9. f[k] = f[k-1] + bits[k-1] * 2^(k-1) /\ bits[k-1] \in {0, 1}
  BY <1>1, <1>6
<1>10. bits[k-1] * 2^(k-1) \in {0, 2^(k-1)}
  BY <1>8, <1>9
<1>. QED
  BY <1>4, <1>7, <1>8, <1>9, <1>10

\* A bit more of a number.
LEMMA BitMore ==
  ASSUME NEW p \in Nat \ {0}, NEW v \in Int
  PROVE  v % (2 * p) = (v % p) + ((v \div p) % 2) * p
<1>. DEFINE q == v \div p
            r == v % p
            b == q % 2
            h == q \div 2
<1>1. q \in Int /\ r \in 0 .. p - 1 /\ v = p * q + r
  OBVIOUS
<1>2. b \in {0, 1} /\ h \in Int /\ q = 2 * h + b
  BY <1>1
<1>. HIDE DEF q, r, b, h
<1>3. v = (2 * p) * h + (r + b * p) /\ r + b * p \in 0 .. 2 * p - 1
  BY <1>1, <1>2
<1>4. ((2 * p) * h + (r + b * p)) % (2 * p) = r + b * p
  BY <1>1, <1>2, <1>3
<1>. QED
  BY <1>3, <1>4 DEF q, r, b

\* The n low bits of v, read back.
LEMMA UnsignedBits ==
  ASSUME NEW n \in Nat, NEW v \in Int
  PROVE  Unsigned(Bits(v, n), n) = v % 2^n
<1>1. PICK f : /\ Unsigned(Bits(v, n), n) = f[n] /\ f[0] = 0
               /\ \A k \in 0 .. n - 1 : f[k+1] = f[k] + Bits(v, n)[k] * 2^k
  BY UnsignedSums
<1>. DEFINE S == {k \in 0..n : f[k] # v % 2^k}
<1>2. SUFFICES ASSUME S # {} PROVE FALSE
  BY <1>1
<1>3. PICK k \in S : \A s \in S : k <= s
  <2>1. S \in SUBSET Nat
    OBVIOUS
  <2>. QED
    BY <1>2, <2>1, Least
<1>4. k \in 0..n /\ f[k] # v % 2^k
  BY <1>3
<1>5. k # 0
  <2>1. v % 2^0 = 0
    OBVIOUS
  <2>. QED
    BY <1>1, <1>4, <2>1, Zenon
<1>6. k - 1 \in 0 .. n - 1 /\ k - 1 \in Nat /\ k - 1 \notin S /\ (k - 1) + 1 = k
  BY <1>3, <1>4, <1>5
<1>7. f[k-1] = v % 2^(k-1)
  BY <1>6
<1>8. 2^k = 2 * 2^(k-1) /\ 2^(k-1) \in Nat \ {0}
  BY <1>6, PowerNext, PowerPositive
<1>9. f[k] = f[k-1] + ((v \div 2^(k-1)) % 2) * 2^(k-1)
  BY <1>1, <1>6 DEF Bits
<1>10. v % 2^k = (v % 2^(k-1)) + ((v \div 2^(k-1)) % 2) * 2^(k-1)
  BY <1>8, BitMore
<1>. QED
  BY <1>4, <1>7, <1>9, <1>10

\* A field holds what fits it, and sign extension gives back its sign.
LEMMA FieldHolds ==
  ASSUME NEW n \in Nat, NEW v \in Nat, v < 2^n
  PROVE  Unsigned(Bits(v, n), n) = v
<1>1. 2^n \in Nat \ {0}
  BY PowerPositive
<1>2. v % 2^n = v
  BY <1>1
<1>. QED
  BY <1>2, UnsignedBits

LEMMA SignedFieldHolds ==
  ASSUME NEW n \in Nat \ {0}, NEW v \in Int, -(2^(n-1)) <= v, v < 2^(n-1)
  PROVE  SignExtend(Unsigned(Bits(v, n), n), n) = v
<1>1. 2^n = 2 * 2^(n-1) /\ 2^(n-1) \in Nat \ {0}
  <2>1. n - 1 \in Nat /\ (n - 1) + 1 = n
    OBVIOUS
  <2>. QED
    BY <2>1, PowerNext, PowerPositive
<1>2. v % 2^n = IF v >= 0 THEN v ELSE v + 2^n
  BY <1>1
<1>3. Unsigned(Bits(v, n), n) = v % 2^n
  BY UnsignedBits
<1>. QED
  BY <1>1, <1>2, <1>3 DEF SignExtend
\* Powers of two multiply.
LEMMA PowerSum ==
  ASSUME NEW m \in Nat, NEW n \in Nat
  PROVE  2^(m + n) = 2^m * 2^n
<1>. DEFINE S == {k \in Nat : 2^(m + k) # 2^m * 2^k}
<1>1. SUFFICES ASSUME S # {} PROVE FALSE
  OBVIOUS
<1>2. PICK k \in S : \A s \in S : k <= s
  BY <1>1, Least
<1>3. k \in Nat /\ 2^(m + k) # 2^m * 2^k
  BY <1>2
<1>4. 2^m \in Nat
  BY PowerPositive
<1>5. k # 0
  <2>1. 2^0 = 1 /\ m + 0 = m
    OBVIOUS
  <2>2. 2^(m + 0) = 2^m * 2^0
    BY <1>4, <2>1
  <2>. QED
    BY <1>3, <2>2, Zenon
<1>. DEFINE j == k - 1
<1>6. j \in Nat /\ j \notin S /\ j + 1 = k /\ m + j \in Nat /\ (m + j) + 1 = m + k
  BY <1>2, <1>3, <1>5
<1>. HIDE DEF j
<1>7. 2^(m + j) = 2^m * 2^j
  BY <1>6
<1>8. 2^k = 2 * 2^j /\ 2^(m + k) = 2 * 2^(m + j) /\ 2^j \in Nat
  <2>1. 2^(j + 1) = 2 * 2^j
    BY <1>6, PowerNext
  <2>2. 2^((m + j) + 1) = 2 * 2^(m + j)
    BY <1>6, PowerNext
  <2>. QED
    BY <1>6, <2>1, <2>2, PowerPositive
<1>9. 2^m * (2 * 2^j) = 2 * (2^m * 2^j)
  BY <1>4, <1>8
<1>. QED
  BY <1>3, <1>7, <1>8, <1>9

\* A quotient and a remainder are determined by their equation.
LEMMA DivisionUnique ==
  ASSUME NEW x \in Int, NEW p \in Nat \ {0}, NEW q \in Int, NEW r \in 0 .. p - 1,
         x = p * q + r
  PROVE  x \div p = q /\ x % p = r
  OBVIOUS

LEMMA Division ==
  ASSUME NEW x \in Int, NEW p \in Nat \ {0}
  PROVE  /\ x \div p \in Int /\ x % p \in 0 .. p - 1
         /\ x = p * (x \div p) + (x % p)
<1>1. x \div p \in Int /\ x % p \in 0 .. p - 1
  OBVIOUS
<1>2. x = p * (x \div p) + (x % p)
  OBVIOUS
<1>. QED
  BY <1>1, <1>2

\* Cutting twice, and dividing twice.
LEMMA DivideTwice ==
  ASSUME NEW x \in Int, NEW p \in Nat \ {0}, NEW q \in Nat \ {0}
  PROVE  /\ (x \div p) \div q = x \div (p * q)
         /\ (x % (p * q)) % p = x % p
         /\ (x % (p * q)) \div p = (x \div p) % q
<1>. DEFINE d == x \div p
            r == x % p
            e == d \div q
            s == d % q
<1>1. d \in Int /\ r \in 0 .. p - 1 /\ x = p * d + r
  BY Division
<1>2. e \in Int /\ s \in 0 .. q - 1 /\ d = q * e + s
  BY <1>1, Division
<1>. HIDE DEF d, r, e, s
<1>3. p * q \in Nat \ {0}
  OBVIOUS
<1>4. p * s + r \in 0 .. p * q - 1
  <2>1. p * s <= p * (q - 1)
    BY <1>2
  <2>2. p * (q - 1) = p * q - p
    OBVIOUS
  <2>3. p * s >= 0 /\ p * s \in Int
    BY <1>2
  <2>. QED
    BY <1>1, <1>3, <2>1, <2>2, <2>3
<1>5. x = (p * q) * e + (p * s + r)
  <2>1. p * (q * e + s) = (p * q) * e + p * s
    BY <1>2
  <2>. QED
    BY <1>1, <1>2, <2>1
<1>6. x \div (p * q) = e /\ x % (p * q) = p * s + r
  BY <1>2, <1>3, <1>4, <1>5, DivisionUnique
<1>7. (p * s + r) % p = r /\ (p * s + r) \div p = s
  <2>1. p * s + r \in Int /\ s \in Int
    BY <1>1, <1>2
  <2>. QED
    BY <1>1, <2>1, DivisionUnique
<1>. QED
  BY <1>6, <1>7 DEF d, r, e, s

\* A bit of the low bits of x is that bit of x.
LEMMA BitOfLow ==
  ASSUME NEW x \in Int, NEW n \in Nat, NEW k \in 0 .. n - 1
  PROVE  ((x % 2^n) \div 2^k) % 2 = (x \div 2^k) % 2
<1>. DEFINE p == 2^k
            q == 2^(n - k)
            h == 2^(n - k - 1)
            d == x \div p
<1>1. k \in Nat /\ n - k \in Nat /\ n - k - 1 \in Nat /\ k + (n - k) = n /\ (n - k - 1) + 1 = n - k
  OBVIOUS
<1>2. p \in Nat \ {0} /\ q \in Nat \ {0} /\ h \in Nat \ {0}
  BY <1>1, PowerPositive
<1>3. 2^n = p * q
  BY <1>1, PowerSum
<1>4. q = 2 * h
  BY <1>1, PowerNext
<1>. HIDE DEF p, q, h
<1>5. d \in Int
  BY <1>2
<1>6. (x % (p * q)) \div p = d % q
  BY <1>2, DivideTwice
<1>. HIDE DEF d
<1>7. (d % (2 * h)) % 2 = d % 2
  <2>1. 2 \in Nat \ {0}
    OBVIOUS
  <2>. QED
    BY <1>2, <1>5, <2>1, DivideTwice
<1>. QED
  BY <1>3, <1>4, <1>6, <1>7 DEF p, d

LEMMA BitIn ==
  ASSUME NEW x \in Int, NEW k \in Nat
  PROVE  (x \div 2^k) % 2 \in {0, 1}
<1>1. 2^k \in Nat \ {0}
  BY PowerPositive
<1>2. x \div 2^k \in Int
  BY <1>1
<1>. QED
  BY <1>2

\* A number below 2^m has no bit from m on.
LEMMA BitAbove ==
  ASSUME NEW m \in Nat, NEW x \in 0 .. 2^m - 1, NEW k \in Nat, m <= k
  PROVE  (x \div 2^k) % 2 = 0
<1>1. 2^m \in Nat /\ 2^k \in Nat \ {0} /\ 2^m <= 2^k
  BY PowerPositive, PowerOrder
<1>2. x = 2^k * 0 + x /\ x \in 0 .. 2^k - 1 /\ 0 \in Int
  BY <1>1
<1>3. x \div 2^k = 0
  BY <1>1, <1>2, DivisionUnique
<1>4. 0 % 2 = 0
  OBVIOUS
<1>. QED
  BY <1>3, <1>4, Zenon

\* Bits that are clear from m on stand for a number below 2^m.
LEMMA UnsignedBelow ==
  ASSUME NEW n \in Nat, NEW m \in 0..n, NEW bits,
         \A k \in 0 .. n - 1 : bits[k] \in {0, 1},
         \A k \in m .. n - 1 : bits[k] = 0
  PROVE  Unsigned(bits, n) \in 0 .. 2^m - 1
<1>1. PICK f : /\ Unsigned(bits, n) = f[n] /\ f[0] = 0
               /\ \A k \in 0 .. n - 1 : f[k+1] = f[k] + bits[k] * 2^k
  BY UnsignedSums
<1>. DEFINE Bound(k) == IF k <= m THEN 2^k ELSE 2^m
            S == {k \in 0..n : f[k] \notin 0 .. Bound(k) - 1}
<1>2. SUFFICES ASSUME S # {} PROVE FALSE
  <2>1. n \notin S => f[n] \in 0 .. Bound(n) - 1
    OBVIOUS
  <2>2. Bound(n) = 2^m
    OBVIOUS
  <2>. QED
    BY <1>1, <2>1, <2>2
<1>3. PICK k \in S : \A s \in S : k <= s
  <2>1. S \in SUBSET Nat
    OBVIOUS
  <2>. QED
    BY <1>2, <2>1, Least
<1>4. k \in 0..n /\ f[k] \notin 0 .. Bound(k) - 1
  BY <1>3
<1>5. k # 0
  <2>1. 0 \in 0 .. Bound(0) - 1
    OBVIOUS
  <2>. HIDE DEF Bound
  <2>. QED
    BY <1>1, <1>4, <2>1, Zenon
<1>6. k - 1 \in 0 .. n - 1 /\ k - 1 \in Nat /\ k - 1 \notin S /\ (k - 1) + 1 = k
  BY <1>3, <1>4, <1>5
<1>7. f[k-1] \in 0 .. Bound(k-1) - 1
  BY <1>6
<1>8. f[k] = f[k-1] + bits[k-1] * 2^(k-1) /\ bits[k-1] \in {0, 1}
  BY <1>1, <1>6
<1>9. 2^k = 2 * 2^(k-1) /\ 2^(k-1) \in Nat \ {0}
  BY <1>6, PowerNext, PowerPositive
<1>10. CASE k <= m
  <2>1. bits[k-1] * 2^(k-1) \in {0, 2^(k-1)}
    BY <1>8, <1>9
  <2>2. f[k-1] \in 0 .. 2^(k-1) - 1
    BY <1>4, <1>7, <1>10
  <2>3. f[k] \notin 0 .. 2^k - 1
    BY <1>4, <1>10
  <2>. QED
    BY <1>8, <1>9, <2>1, <2>2, <2>3
<1>11. CASE ~(k <= m)
  <2>1. bits[k-1] = 0 /\ bits[k-1] * 2^(k-1) = 0
    <3>1. k - 1 \in m .. n - 1
      BY <1>4, <1>11
    <3>2. bits[k-1] = 0
      BY <3>1
    <3>. QED
      BY <1>9, <3>2
  <2>2. f[k-1] \in 0 .. 2^m - 1
    <3>1. k - 1 <= m => k - 1 = m
      BY <1>4, <1>11
    <3>. QED
      BY <1>7, <3>1
  <2>3. f[k] \notin 0 .. 2^m - 1
    BY <1>4, <1>11
  <2>4. f[k-1] \in Int
    BY <2>2, PowerPositive
  <2>. QED
    BY <1>8, <2>1, <2>2, <2>3, <2>4
<1>. QED
  BY <1>4, <1>10, <1>11

-----------------------------------------------------------------------------
(* Fields of a word. *)

AField == [name : STRING, at : Nat, len : Nat]

LEMMA InSpan ==
  ASSUME NEW s \in Nat, NEW n \in Nat, s + n <= 32, NEW k \in 0..n-1
  PROVE  s + k \in WordBits /\ s + k \in Span(s, n) /\ (s + k) - s = k
  BY DEF WordBits, Span

\* getBits reads back what putBits wrote.  (utils_em.c 8-19, utils_as.c 118-132.)
THEOREM GetAfterPut ==
  ASSUME NEW word, NEW s \in Nat, NEW n \in Nat, s + n <= 32,
         NEW bits, bits = [k \in 0..n-1 |-> bits[k]]
  PROVE  GetBits(PutBits(word, bits, s, n), s, n) = bits
<1>1. ASSUME NEW k \in 0..n-1
      PROVE  PutBits(word, bits, s, n)[s + k] = bits[k]
  BY InSpan DEF PutBits
<1>2. \A k \in 0..n-1 : PutBits(word, bits, s, n)[s + k] = bits[k]
  BY <1>1
<1> QED BY <1>2 DEF GetBits

\* Writing one field leaves every field that shares no bit with it.
THEOREM GetOfOther ==
  ASSUME NEW word, NEW s \in Nat, NEW n \in Nat, NEW t \in Nat, NEW m \in Nat,
         s + n <= 32, t + m <= 32, Span(s, n) \cap Span(t, m) = {}, NEW bits
  PROVE  GetBits(PutBits(word, bits, s, n), t, m) = GetBits(word, t, m)
<1>1. \A k \in 0..m-1 : t + k \in WordBits /\ t + k \in Span(t, m)
  BY DEF WordBits, Span
<1>2. \A k \in 0..m-1 : PutBits(word, bits, s, n)[t + k] = word[t + k]
  BY <1>1 DEF PutBits
<1> QED BY <1>2 DEF GetBits

\* A field written inside the span of a later one leaves no trace.
THEOREM LaterPutHides ==
  ASSUME NEW word, NEW s, NEW n, NEW t, NEW m, Span(s, n) \subseteq Span(t, m),
         NEW early, NEW late
  PROVE  PutBits(PutBits(word, early, s, n), late, t, m) = PutBits(word, late, t, m)
  BY DEF PutBits

\* PutFields is putBits repeated in the order of the list.
THEOREM PutFieldsStep ==
  ASSUME NEW word, NEW fields \in Seq(AField), NEW f \in AField, NEW values
  PROVE  PutFields(word, Append(fields, f), values) =
           PutBits(PutFields(word, fields, values), Bits(values[f.name], f.len), f.at, f.len)
<1> DEFINE n == Len(fields)
           more == Append(fields, f)
           put == PutFields(word, fields, values)
<1>1. /\ n \in Nat /\ Len(more) = n + 1 /\ more[n+1] = f
      /\ \A k \in 1..n : more[k] = fields[k]
  BY AppendProperties, LenProperties
<1> HIDE DEF n, more
<1>2. \A k \in 1..Len(more) : k \in 1..n \/ k = n + 1
  BY <1>1
<1>3. ASSUME NEW b \in WordBits, Covers(f, b)
      PROVE  PutFields(word, more, values)[b] = Bits(values[f.name], f.len)[b - f.at]
  <2>1. IsLastCover(more, b, n+1)
    BY <1>1, <1>3 DEF IsLastCover
  <2> DEFINE c == CHOOSE k \in 1..Len(more) : IsLastCover(more, b, k)
  <2>2. n + 1 \in 1..Len(more)
    BY <1>1
  <2>3. c \in 1..Len(more) /\ IsLastCover(more, b, c)
    BY <2>1, <2>2
  <2>4. c = n + 1
    <3> HIDE DEF c
    <3>1. ASSUME c \in 1..n PROVE FALSE
      <4>1. n + 1 \in c+1..Len(more)
        BY <1>1, <3>1
      <4> QED BY <1>1, <1>3, <2>3, <4>1 DEF IsLastCover
    <3> QED BY <1>2, <2>3, <3>1
  <2>5. \E k \in 1..Len(more) : IsLastCover(more, b, k)
    BY <2>1, <2>2
  <2> QED BY <1>1, <2>4, <2>5 DEF PutFields
<1>4. ASSUME NEW b \in WordBits, ~Covers(f, b)
      PROVE  PutFields(word, more, values)[b] = put[b]
  <2>1. \A k : k \in 1..Len(more) /\ IsLastCover(more, b, k)
               <=> k \in 1..n /\ IsLastCover(fields, b, k)
    <3> SUFFICES ASSUME NEW k
                 PROVE  IsLastCover(more, b, k) <=> IsLastCover(fields, b, k)
      BY <1>1, <1>4 DEF IsLastCover, n
    <3>1. CASE k \in 1..n
      <4>1. \A m \in k+1..n : m \in 1..n
        BY <1>1, <3>1
      <4>2. \A m \in k+1..n+1 : m \in k+1..n \/ m = n + 1
        BY <1>1, <3>1
      <4>3. \A m \in k+1..n : m \in k+1..n+1
        BY <1>1, <3>1
      <4>4. k \in 1..n+1
        BY <1>1, <3>1
      <4> QED BY <1>1, <1>4, <3>1, <4>1, <4>2, <4>3, <4>4 DEF IsLastCover, n
    <3>2. CASE k \notin 1..n
      BY <1>1, <1>2, <1>4, <3>2 DEF IsLastCover, n
    <3> QED BY <3>1, <3>2
  <2>2. (\E k \in 1..Len(more) : IsLastCover(more, b, k))
        <=> (\E k \in 1..n : IsLastCover(fields, b, k))
    BY <2>1
  <2>3. (CHOOSE k \in 1..Len(more) : IsLastCover(more, b, k))
        = (CHOOSE k \in 1..n : IsLastCover(fields, b, k))
    <3>1. (CHOOSE k : k \in 1..Len(more) /\ IsLastCover(more, b, k))
          = (CHOOSE k : k \in 1..n /\ IsLastCover(fields, b, k))
      BY <2>1
    <3> QED BY <3>1
  <2> DEFINE c == CHOOSE k \in 1..n : IsLastCover(fields, b, k)
  <2>4. (\E k \in 1..n : IsLastCover(fields, b, k)) => c \in 1..n
    OBVIOUS
  <2>5. PutFields(word, more, values)[b] =
          IF \E k \in 1..n : IsLastCover(fields, b, k)
          THEN Bits(values[more[c].name], more[c].len)[b - more[c].at]
          ELSE word[b]
    BY <2>2, <2>3 DEF PutFields
  <2>6. put[b] = IF \E k \in 1..n : IsLastCover(fields, b, k)
                 THEN Bits(values[fields[c].name], fields[c].len)[b - fields[c].at]
                 ELSE word[b]
    BY DEF PutFields, n
  <2> HIDE DEF c, put
  <2> QED BY <1>1, <2>4, <2>5, <2>6
<1>5. \A b \in WordBits :
        PutFields(word, more, values)[b] =
          PutBits(put, Bits(values[f.name], f.len), f.at, f.len)[b]
  BY <1>3, <1>4 DEF PutBits, Covers
<1>6. /\ PutFields(word, more, values) =
           [b \in WordBits |-> PutFields(word, more, values)[b]]
      /\ PutBits(put, Bits(values[f.name], f.len), f.at, f.len) =
           [b \in WordBits |-> PutBits(put, Bits(values[f.name], f.len), f.at, f.len)[b]]
  BY DEF PutFields, PutBits
<1> QED BY <1>5, <1>6 DEF more
=============================================================================
