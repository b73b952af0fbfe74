----------------------------- MODULE CallsProofs -----------------------------
(***************************************************************************)
(* For every number of registers, arguments and nested calls: the stack    *)
(* holds what the calls in progress have pushed, and the saved registers   *)
(* are, between two statements, what the function found in them.           *)
(*                                                                         *)
(* The first argument is about the saves alone: n calls are in progress,   *)
(* call k began at base[k] and has saved RP and the first cnt[k] of the    *)
(* saved registers, each at its slot.  The second is about what is saved:  *)
(* it follows the value of each name from its register to the saved one,   *)
(* to a slot and back, and from it the arguments and the variables.        *)
(***************************************************************************)
EXTENDS Calls, SharedProofs

-----------------------------------------------------------------------------
(* The allocator. *)

\* The least register that the loops find.
LEMMA LowestIn ==
  ASSUME NEW S \in SUBSET Nat, S # {}
  PROVE  Lowest(S) \in S /\ \A s \in S : Lowest(S) <= s
  BY LeastIn DEF Lowest

\* get_free_intermediary_register gives a register of no name.
LEMMA FreeIntermediaryIn ==
  ASSUME NEW m, Unmapped(m) # {}
  PROVE  FreeIntermediary(m) \in RegisterNumbers \ Mapped(m)
<1>1. Unmapped(m) \in SUBSET Nat
  BY RegistersAssumption DEF Unmapped, RegisterNumbers
<1>2. Lowest(Unmapped(m)) \in Unmapped(m)
  BY <1>1, LowestIn
<1>. QED
  BY <1>2 DEF FreeIntermediary, Unmapped

\* The entry that get_register finds.
LEMMA FoundEntry ==
  ASSUME NEW Es, NEW m \in Seq(Es), NEW name, HasName(m, name)
  PROVE  \E i \in DOMAIN m : m[i].name = name /\ RegOf(m, name) = m[i].reg
<1>1. RegOf(m, name) = m[FirstOf(m, name)].reg
  BY DEF RegOf, FirstOf
<1>2. FirstOf(m, name) \in DOMAIN m /\ m[FirstOf(m, name)].name = name
  BY FirstNamed DEF HasName
<1>. QED
  BY <1>1, <1>2

-----------------------------------------------------------------------------
HasSaved(cnt, k, r) == r = RP \/ r - SavedBase < cnt[k]
Slot(base, k, r) == IF r = RP THEN base[k] + 1 ELSE base[k] + 2 + (r - SavedBase)

Free(n, cnt, r) == \A k \in 1..n : ~HasSaved(cnt, k, r)
FirstSaver(cnt, k, r) == HasSaved(cnt, k, r) /\ \A j \in 1..k-1 : ~HasSaved(cnt, j, r)

Height(n, cnt, base) == IF n = 0 THEN 0 ELSE base[n] + 1 + cnt[n]

\* Calls lie on the stack one after the other.
Nested(n, cnt, base) ==
  /\ \A k \in 1..n : base[k] = Height(k - 1, cnt, base)
  /\ \A j, k \in 1..n : j < k => base[j] + 1 + cnt[j] <= base[k]

\* What the function found in a saved register is still there, or in the slot
\* of the outermost call that has saved it.
Held(n, cnt, base, st, mach) ==
  \A r \in Saved :
    /\ Free(n, cnt, r) => mach[r] = Entry[r]
    /\ \A k \in 1..n : FirstSaver(cnt, k, r) => st[Slot(base, k, r)] = Entry[r]

SaveArea(n, cnt, base, st, mach) ==
  /\ Len(st) = Height(n, cnt, base)
  /\ Nested(n, cnt, base)
  /\ Held(n, cnt, base, st, mach)

Areas(n) == [1..n -> Nat]

\* Slots are below the height of their call.
LEMMA SlotBelow ==
  ASSUME NEW n \in Nat, NEW cnt \in Areas(n), NEW base \in Areas(n), NEW k \in 1..n,
         NEW r \in Saved, HasSaved(cnt, k, r)
  PROVE  Slot(base, k, r) \in 1 .. base[k] + 1 + cnt[k]
<1>1. cnt[k] \in Nat /\ base[k] \in Nat /\ r \in Int /\ SavedBase \in Nat /\ r >= SavedBase
  BY CallsAssumption, RegistersAssumption DEF Areas, Saved
<1>. QED
  BY <1>1 DEF Slot, HasSaved

\* Emitting code that leaves the stack and the saved registers alone.
LEMMA AreaSame ==
  ASSUME NEW n, NEW cnt, NEW base, NEW st, NEW mach, NEW mach2,
         SaveArea(n, cnt, base, st, mach), \A r \in Saved : mach2[r] = mach[r]
  PROVE  SaveArea(n, cnt, base, st, mach2)
  BY DEF SaveArea, Held
-----------------------------------------------------------------------------
\* save_register: the innermost call saves its next register.
LEMMA AreaSave ==
  ASSUME NEW n \in Nat \ {0}, NEW cnt \in Areas(n), NEW base \in Areas(n),
         NEW st \in Seq(Int), NEW mach, NEW mach2, SaveArea(n, cnt, base, st, mach),
         cnt[n] < MAX_ARGS,
         \A r \in Saved : r # SavedBase + cnt[n] => mach2[r] = mach[r]
  PROVE  SaveArea(n, [cnt EXCEPT ![n] = @ + 1], base,
                  Append(st, mach[SavedBase + cnt[n]]), mach2)
<1>. DEFINE cnt2 == [cnt EXCEPT ![n] = @ + 1]
            st2 == Append(st, mach[SavedBase + cnt[n]])
<1>1. /\ n \in 1..n /\ n # 0 /\ cnt[n] \in Nat /\ base[n] \in Nat
      /\ SavedBase \in Nat /\ RP \in Nat /\ SavedBase + cnt[n] < RP /\ MAX_ARGS \in Nat
  BY CallsAssumption DEF Areas
<1>2. cnt2[n] = cnt[n] + 1 /\ \A k \in 1..n : k # n => cnt2[k] = cnt[k]
  BY <1>1 DEF Areas
<1>3. cnt2 \in Areas(n)
  BY <1>1 DEF Areas
<1>. HIDE DEF cnt2
<1>4. Len(st) = base[n] + 1 + cnt[n] /\ Len(st) \in Nat
  BY <1>1 DEF SaveArea, Height
<1>5. Len(st2) = Len(st) + 1 /\ st2[Len(st) + 1] = mach[SavedBase + cnt[n]]
      /\ \A i \in 1..Len(st) : st2[i] = st[i]
  BY <1>4
<1>. HIDE DEF st2
<1>6. Len(st2) = Height(n, cnt2, base)
  <2>1. Height(n, cnt2, base) = base[n] + 1 + cnt2[n]
    BY <1>1 DEF Height
  <2>2. Len(st2) = (base[n] + 1 + cnt[n]) + 1
    BY <1>4, <1>5
  <2>3. base[n] + 1 + (cnt[n] + 1) = (base[n] + 1 + cnt[n]) + 1
    <3>1. \A a, b \in Nat : a + 1 + (b + 1) = (a + 1 + b) + 1
      OBVIOUS
    <3>. QED
      BY <1>1, <3>1, Zenon
  <2>4. base[n] + 1 + cnt2[n] = base[n] + 1 + (cnt[n] + 1)
    BY <1>2, Zenon
  <2>. QED
    BY <2>1, <2>2, <2>3, <2>4, Zenon
<1>7. Nested(n, cnt2, base)
  <2>1. ASSUME NEW k \in 1..n PROVE base[k] = Height(k - 1, cnt2, base)
    <3>1. k - 1 = 0 \/ (k - 1 \in 1..n /\ k - 1 # n)
      OBVIOUS
    <3>. QED
      BY <1>2, <3>1 DEF SaveArea, Nested, Height
  <2>2. ASSUME NEW j \in 1..n, NEW k \in 1..n, j < k
        PROVE  base[j] + 1 + cnt2[j] <= base[k]
    BY <1>2, <2>2 DEF SaveArea, Nested
  <2>. QED
    BY <2>1, <2>2 DEF Nested
<1>8. Held(n, cnt2, base, st2, mach2)
  <2>. SUFFICES ASSUME NEW r \in Saved
                PROVE  /\ Free(n, cnt2, r) => mach2[r] = Entry[r]
                       /\ \A k \in 1..n : FirstSaver(cnt2, k, r) =>
                            st2[Slot(base, k, r)] = Entry[r]
    BY DEF Held
  <2>0. r \in Int /\ r >= SavedBase
    BY <1>1, RegistersAssumption DEF Saved
  <2>1. CASE r = SavedBase + cnt[n]
    <3>1. HasSaved(cnt2, n, r) /\ r # RP /\ ~HasSaved(cnt, n, r)
      BY <1>1, <1>2, <2>1 DEF HasSaved
    <3>2. \A k \in 1..n : k # n => (HasSaved(cnt2, k, r) <=> HasSaved(cnt, k, r))
      BY <1>2 DEF HasSaved
    <3>3. ~Free(n, cnt2, r)
      BY <1>1, <3>1 DEF Free
    <3>4. ASSUME NEW k \in 1..n, FirstSaver(cnt2, k, r), k # n
          PROVE  st2[Slot(base, k, r)] = Entry[r]
      <4>1. \A j \in 1..k-1 : j \in 1..n /\ j # n
        OBVIOUS
      <4>2. FirstSaver(cnt, k, r)
        BY <3>2, <3>4, <4>1 DEF FirstSaver
      <4>3. Slot(base, k, r) \in 1 .. base[k] + 1 + cnt[k]
        BY <4>2, SlotBelow DEF FirstSaver
      <4>4. k < n /\ base[k] + 1 + cnt[k] \in Nat
        BY <3>4 DEF Areas
      <4>6. base[k] + 1 + cnt[k] <= base[n]
        BY <1>1, <4>4 DEF SaveArea, Nested
      <4>5. Slot(base, k, r) \in 1..Len(st)
        BY <1>1, <1>4, <4>3, <4>4, <4>6
      <4>. QED
        BY <1>5, <4>2, <4>5 DEF SaveArea, Held
    <3>5. ASSUME FirstSaver(cnt2, n, r) PROVE st2[Slot(base, n, r)] = Entry[r]
      <4>1. \A k \in 1..n : k = n \/ k \in 1..n-1
        OBVIOUS
      <4>2. \A j \in 1..n-1 : j \in 1..n /\ j # n
        OBVIOUS
      <4>3. Free(n, cnt, r)
        BY <3>1, <3>2, <3>5, <4>1, <4>2 DEF Free, FirstSaver
      <4>4. mach[r] = Entry[r]
        BY <4>3 DEF SaveArea, Held
      <4>5. Slot(base, n, r) = Len(st) + 1
        BY <1>1, <1>4, <2>1, <3>1 DEF Slot
      <4>. QED
        BY <1>5, <2>1, <4>4, <4>5
    <3>. QED
      BY <3>3, <3>4, <3>5
  <2>2. CASE r # SavedBase + cnt[n]
    <3>1. \A k \in 1..n : HasSaved(cnt2, k, r) <=> HasSaved(cnt, k, r)
      <4>1. r - SavedBase \in Int /\ r - SavedBase # cnt[n]
        BY <1>1, <2>0, <2>2
      <4>2. r - SavedBase < cnt2[n] <=> r - SavedBase < cnt[n]
        BY <1>1, <1>2, <4>1
      <4>3. \A k \in 1..n : r - SavedBase < cnt2[k] <=> r - SavedBase < cnt[k]
        BY <1>2, <4>2
      <4>. QED
        BY <4>3 DEF HasSaved
    <3>2. \A k \in 1..n : \A j \in 1..k-1 : j \in 1..n
      OBVIOUS
    <3>3. Free(n, cnt2, r) <=> Free(n, cnt, r)
      BY <3>1 DEF Free
    <3>4. \A k \in 1..n : FirstSaver(cnt2, k, r) => FirstSaver(cnt, k, r)
      BY <3>1, <3>2 DEF FirstSaver
    <3>5. ASSUME NEW k \in 1..n, FirstSaver(cnt, k, r)
          PROVE  Slot(base, k, r) \in 1..Len(st)
      <4>1. Slot(base, k, r) \in 1 .. base[k] + 1 + cnt[k]
        BY <3>5, SlotBelow DEF FirstSaver
      <4>2. base[k] + 1 + cnt[k] \in Nat
        BY DEF Areas
      <4>3. base[k] + 1 + cnt[k] <= Len(st)
        BY <1>1, <1>4, <4>2 DEF SaveArea, Nested
      <4>. QED
        BY <1>4, <4>1, <4>2, <4>3
    <3>. QED
      BY <1>5, <2>2, <3>3, <3>4, <3>5 DEF SaveArea, Held
  <2>. QED
    BY <2>1, <2>2
<1>. QED
  BY <1>6, <1>7, <1>8 DEF SaveArea, cnt2, st2

\* push_to_stack of RP: a call begins.
LEMMA AreaBegin ==
  ASSUME NEW n \in Nat, NEW cnt \in Areas(n), NEW base \in Areas(n),
         NEW cnt2 \in Areas(n + 1), NEW base2 \in Areas(n + 1),
         NEW st \in Seq(Int), NEW mach, NEW mach2, SaveArea(n, cnt, base, st, mach),
         \A k \in 1..n : cnt2[k] = cnt[k] /\ base2[k] = base[k],
         cnt2[n + 1] = 0, base2[n + 1] = Len(st),
         \A r \in Saved : r # RP => mach2[r] = mach[r]
  PROVE  SaveArea(n + 1, cnt2, base2, Append(st, mach[RP]), mach2)
<1>. DEFINE st2 == Append(st, mach[RP])
<1>1. /\ n + 1 \in 1..n+1 /\ n + 1 # 0 /\ Len(st) \in Nat
      /\ \A k \in 1..n+1 : k = n + 1 \/ k \in 1..n
      /\ \A k \in 1..n+1 : \A j \in 1..k-1 : j \in 1..n
  OBVIOUS
<1>2. Len(st2) = Len(st) + 1 /\ st2[Len(st) + 1] = mach[RP]
      /\ \A i \in 1..Len(st) : st2[i] = st[i]
  BY <1>1
<1>. HIDE DEF st2
<1>3. Len(st2) = Height(n + 1, cnt2, base2)
  BY <1>1, <1>2 DEF Height
<1>4. \A k \in 1..n : base[k] + 1 + cnt[k] \in Nat /\ base[k] + 1 + cnt[k] <= Len(st)
  <2>. SUFFICES ASSUME NEW k \in 1..n
                PROVE  base[k] + 1 + cnt[k] \in Nat /\ base[k] + 1 + cnt[k] <= Len(st)
    OBVIOUS
  <2>1. n \in 1..n /\ n # 0 /\ base[k] \in Nat /\ cnt[k] \in Nat /\ cnt[n] \in Nat
        /\ base[n] \in Nat
    BY DEF Areas
  <2>2. Len(st) = base[n] + 1 + cnt[n]
    BY <2>1 DEF SaveArea, Height
  <2>3. k = n \/ base[k] + 1 + cnt[k] <= base[n]
    BY <2>1 DEF SaveArea, Nested
  <2>4. base[k] + 1 + cnt[k] \in Nat
    BY <2>1
  <2>5. CASE k = n
    BY <2>2, <2>4, <2>5
  <2>6. CASE base[k] + 1 + cnt[k] <= base[n]
    BY <2>1, <2>2, <2>4, <2>6
  <2>. QED
    BY <2>3, <2>4, <2>5, <2>6
<1>5. Nested(n + 1, cnt2, base2)
  <2>1. ASSUME NEW k \in 1..n+1 PROVE base2[k] = Height(k - 1, cnt2, base2)
    <3>1. Height(k - 1, cnt2, base2) = Height(k - 1, cnt, base)
      <4>1. k - 1 = 0 \/ k - 1 \in 1..n
        OBVIOUS
      <4>. QED
        BY <4>1 DEF Height
    <3>2. CASE k = n + 1
      BY <3>1, <3>2 DEF SaveArea
    <3>3. CASE k \in 1..n
      BY <3>1, <3>3 DEF SaveArea, Nested
    <3>. QED
      BY <1>1, <3>2, <3>3
  <2>2. ASSUME NEW j \in 1..n+1, NEW k \in 1..n+1, j < k
        PROVE  base2[j] + 1 + cnt2[j] <= base2[k]
    <3>1. j \in 1..n
      BY <2>2
    <3>2. CASE k = n + 1
      BY <1>4, <3>1, <3>2
    <3>3. CASE k \in 1..n
      BY <2>2, <3>1, <3>3 DEF SaveArea, Nested
    <3>. QED
      BY <1>1, <3>2, <3>3
  <2>. QED
    BY <2>1, <2>2 DEF Nested
<1>6. Held(n + 1, cnt2, base2, st2, mach2)
  <2>. SUFFICES ASSUME NEW r \in Saved
                PROVE  /\ Free(n + 1, cnt2, r) => mach2[r] = Entry[r]
                       /\ \A k \in 1..n+1 : FirstSaver(cnt2, k, r) =>
                            st2[Slot(base2, k, r)] = Entry[r]
    BY DEF Held
  <2>1. \A k \in 1..n : HasSaved(cnt2, k, r) <=> HasSaved(cnt, k, r)
    BY DEF HasSaved
  <2>2. HasSaved(cnt2, n + 1, r) <=> r = RP
    BY CallsAssumption, RegistersAssumption DEF HasSaved, Saved
  <2>3. ASSUME Free(n + 1, cnt2, r) PROVE mach2[r] = Entry[r]
    <3>1. \A k \in 1..n : k \in 1..n+1
      OBVIOUS
    <3>2. Free(n, cnt, r)
      BY <2>1, <2>3, <3>1 DEF Free
    <3>3. r # RP
      BY <1>1, <2>2, <2>3 DEF Free
    <3>. QED
      BY <3>2, <3>3 DEF SaveArea, Held
  <2>4. ASSUME NEW k \in 1..n, FirstSaver(cnt2, k, r)
        PROVE  st2[Slot(base2, k, r)] = Entry[r]
    <3>1. \A j \in 1..k-1 : j \in 1..n
      OBVIOUS
    <3>2. FirstSaver(cnt, k, r)
      BY <2>1, <2>4, <3>1 DEF FirstSaver
    <3>3. Slot(base, k, r) \in 1 .. base[k] + 1 + cnt[k]
      BY <3>2, SlotBelow DEF FirstSaver
    <3>4. Slot(base, k, r) \in 1..Len(st)
      BY <1>1, <1>4, <3>3
    <3>5. Slot(base2, k, r) = Slot(base, k, r)
      BY DEF Slot
    <3>. QED
      BY <1>2, <3>2, <3>4, <3>5 DEF SaveArea, Held
  <2>5. ASSUME FirstSaver(cnt2, n + 1, r) PROVE st2[Slot(base2, n + 1, r)] = Entry[r]
    <3>1. r = RP
      BY <2>2, <2>5 DEF FirstSaver
    <3>2. \A j \in 1..n : j \in 1..(n + 1)-1
      OBVIOUS
    <3>3. Free(n, cnt, r)
      BY <2>1, <2>5, <3>2 DEF Free, FirstSaver
    <3>4. Slot(base2, n + 1, r) = Len(st) + 1
      BY <3>1 DEF Slot
    <3>. QED
      BY <1>2, <3>1, <3>3, <3>4 DEF SaveArea, Held
  <2>. QED
    BY <1>1, <2>3, <2>4, <2>5
<1>. QED
  BY <1>3, <1>5, <1>6 DEF SaveArea, st2

\* The stack without its last element.
Popped(st, st2) == Len(st2) = Len(st) - 1 /\ \A i \in 1 .. Len(st) - 1 : st2[i] = st[i]

\* restore_register: the innermost call gives back the last register it saved.
LEMMA AreaRestore ==
  ASSUME NEW n \in Nat \ {0}, NEW cnt \in Areas(n), NEW base \in Areas(n),
         NEW st \in Seq(Int), NEW st2, NEW mach, NEW mach2,
         SaveArea(n, cnt, base, st, mach), cnt[n] > 0, cnt[n] <= MAX_ARGS, Popped(st, st2),
         mach2[SavedBase + (cnt[n] - 1)] = st[Len(st)],
         \A r \in Saved : r # SavedBase + (cnt[n] - 1) => mach2[r] = mach[r]
  PROVE  SaveArea(n, [cnt EXCEPT ![n] = @ - 1], base, st2, mach2)
<1>. DEFINE cnt2 == [cnt EXCEPT ![n] = @ - 1]
            q == SavedBase + (cnt[n] - 1)
<1>1. /\ n \in 1..n /\ n # 0 /\ cnt[n] \in Nat /\ base[n] \in Nat
      /\ SavedBase \in Nat /\ RP \in Nat /\ SavedBase + cnt[n] <= RP /\ MAX_ARGS \in Nat
  BY CallsAssumption DEF Areas
<1>2. cnt2[n] = cnt[n] - 1 /\ \A k \in 1..n : k # n => cnt2[k] = cnt[k]
  BY <1>1 DEF Areas
<1>3. q \in Nat /\ q # RP /\ q - SavedBase = cnt[n] - 1
  BY <1>1
<1>. HIDE DEF cnt2
<1>4. Len(st) = base[n] + 1 + cnt[n] /\ Len(st) \in Nat
  BY <1>1 DEF SaveArea, Height
<1>5. Len(st2) = Height(n, cnt2, base)
  <2>1. Height(n, cnt2, base) = base[n] + 1 + cnt2[n]
    BY <1>1 DEF Height
  <2>2. Len(st2) = (base[n] + 1 + cnt[n]) - 1
    BY <1>4 DEF Popped
  <2>3. base[n] + 1 + (cnt[n] - 1) = (base[n] + 1 + cnt[n]) - 1
    <3>1. \A a, b \in Nat : a + 1 + (b - 1) = (a + 1 + b) - 1
      OBVIOUS
    <3>. QED
      BY <1>1, <3>1, Zenon
  <2>. QED
    BY <1>2, <2>1, <2>2, <2>3, Zenon
<1>6. Nested(n, cnt2, base)
  <2>1. ASSUME NEW k \in 1..n PROVE base[k] = Height(k - 1, cnt2, base)
    <3>1. k - 1 = 0 \/ (k - 1 \in 1..n /\ k - 1 # n)
      OBVIOUS
    <3>. QED
      BY <1>2, <3>1 DEF SaveArea, Nested, Height
  <2>2. ASSUME NEW j \in 1..n, NEW k \in 1..n, j < k
        PROVE  base[j] + 1 + cnt2[j] <= base[k]
    BY <1>2, <2>2 DEF SaveArea, Nested
  <2>. QED
    BY <2>1, <2>2 DEF Nested
<1>7. ASSUME NEW k \in 1..n, NEW r \in Saved, HasSaved(cnt, k, r), k # n \/ r # q
      PROVE  st2[Slot(base, k, r)] = st[Slot(base, k, r)]
  <2>1. Slot(base, k, r) \in 1 .. base[k] + 1 + cnt[k]
    BY <1>7, SlotBelow
  <2>2. CASE k # n
    <3>1. k < n /\ base[k] + 1 + cnt[k] \in Nat
      BY <2>2 DEF Areas
    <3>2. base[k] + 1 + cnt[k] <= base[n]
      BY <1>1, <3>1 DEF SaveArea, Nested
    <3>3. Slot(base, k, r) \in 1 .. Len(st) - 1
      BY <1>1, <1>4, <2>1, <3>1, <3>2
    <3>. QED
      BY <3>3 DEF Popped
  <2>3. CASE k = n
    <3>1. r # SavedBase + (cnt[n] - 1) /\ r \in Int /\ r >= SavedBase
      BY <1>7, <2>3, RegistersAssumption, CallsAssumption DEF Saved
    <3>2. Slot(base, n, r) <= base[n] + cnt[n]
      <4>1. CASE r = RP
        BY <1>1, <4>1 DEF Slot
      <4>2. CASE r # RP
        <5>1. r - SavedBase \in Int /\ r - SavedBase < cnt[n] /\ r - SavedBase # cnt[n] - 1
          BY <1>1, <1>7, <2>3, <3>1, <4>2 DEF HasSaved
        <5>2. \A a, b \in Nat, d \in Int : d < b /\ d # b - 1 => a + 2 + d <= a + b
          OBVIOUS
        <5>3. base[n] + 2 + (r - SavedBase) <= base[n] + cnt[n]
          BY <1>1, <5>1, <5>2, Zenon
        <5>. QED
          BY <4>2, <5>3 DEF Slot
      <4>. QED
        BY <4>1, <4>2
    <3>3. Slot(base, n, r) \in 1 .. Len(st) - 1
      BY <1>1, <1>4, <2>1, <2>3, <3>2
    <3>. QED
      BY <2>3, <3>3 DEF Popped
  <2>. QED
    BY <2>2, <2>3
<1>8. Held(n, cnt2, base, st2, mach2)
  <2>. SUFFICES ASSUME NEW r \in Saved
                PROVE  /\ Free(n, cnt2, r) => mach2[r] = Entry[r]
                       /\ \A k \in 1..n : FirstSaver(cnt2, k, r) =>
                            st2[Slot(base, k, r)] = Entry[r]
    BY DEF Held
  <2>0. r \in Int /\ r >= SavedBase
    BY <1>1, RegistersAssumption DEF Saved
  <2>1. CASE r = q
    <3>1. HasSaved(cnt, n, r) /\ r # RP /\ ~HasSaved(cnt2, n, r)
      BY <1>1, <1>2, <1>3, <2>1 DEF HasSaved
    <3>2. \A k \in 1..n : k # n => (HasSaved(cnt2, k, r) <=> HasSaved(cnt, k, r))
      BY <1>2 DEF HasSaved
    <3>3. \A k \in 1..n : \A j \in 1..k-1 : j \in 1..n /\ j # n
      OBVIOUS
    <3>4. ASSUME Free(n, cnt2, r) PROVE mach2[r] = Entry[r]
      <4>1. FirstSaver(cnt, n, r)
        BY <1>1, <3>1, <3>2, <3>3, <3>4 DEF Free, FirstSaver
      <4>2. st[Slot(base, n, r)] = Entry[r]
        BY <1>1, <4>1 DEF SaveArea, Held
      <4>3. Slot(base, n, r) = base[n] + 2 + (cnt[n] - 1)
        BY <1>3, <2>1, <3>1 DEF Slot
      <4>4. base[n] + 2 + (cnt[n] - 1) = base[n] + 1 + cnt[n]
        <5>1. \A a, b \in Nat : a + 2 + (b - 1) = a + 1 + b
          OBVIOUS
        <5>. QED
          BY <1>1, <5>1, Zenon
      <4>5. Slot(base, n, r) = Len(st)
        BY <1>4, <4>3, <4>4, Zenon
      <4>. QED
        BY <2>1, <4>2, <4>5
    <3>5. ASSUME NEW k \in 1..n, FirstSaver(cnt2, k, r)
          PROVE  st2[Slot(base, k, r)] = Entry[r]
      <4>1. k # n
        BY <3>1, <3>5 DEF FirstSaver
      <4>2. FirstSaver(cnt, k, r)
        BY <3>2, <3>3, <3>5, <4>1 DEF FirstSaver
      <4>3. HasSaved(cnt, k, r)
        BY <4>2 DEF FirstSaver
      <4>. QED
        BY <1>7, <4>1, <4>2, <4>3 DEF SaveArea, Held
    <3>. QED
      BY <3>4, <3>5
  <2>2. CASE r # q
    <3>1. \A k \in 1..n : HasSaved(cnt2, k, r) <=> HasSaved(cnt, k, r)
      <4>1. r - SavedBase \in Int /\ r - SavedBase # cnt[n] - 1
        BY <1>1, <2>0, <2>2
      <4>2. r - SavedBase < cnt2[n] <=> r - SavedBase < cnt[n]
        BY <1>1, <1>2, <4>1
      <4>3. \A k \in 1..n : r - SavedBase < cnt2[k] <=> r - SavedBase < cnt[k]
        BY <1>2, <4>2
      <4>. QED
        BY <4>3 DEF HasSaved
    <3>2. \A k \in 1..n : \A j \in 1..k-1 : j \in 1..n
      OBVIOUS
    <3>3. Free(n, cnt2, r) <=> Free(n, cnt, r)
      BY <3>1 DEF Free
    <3>4. \A k \in 1..n : FirstSaver(cnt2, k, r) => FirstSaver(cnt, k, r)
      BY <3>1, <3>2 DEF FirstSaver
    <3>5. ASSUME NEW k \in 1..n, FirstSaver(cnt2, k, r)
          PROVE  st2[Slot(base, k, r)] = Entry[r]
      <4>1. FirstSaver(cnt, k, r) /\ HasSaved(cnt, k, r)
        BY <3>4, <3>5 DEF FirstSaver
      <4>. QED
        BY <1>7, <2>2, <4>1 DEF SaveArea, Held
    <3>6. mach2[r] = mach[r]
      BY <2>2
    <3>. QED
      BY <3>3, <3>5, <3>6 DEF SaveArea, Held
  <2>. QED
    BY <2>1, <2>2
<1>. QED
  BY <1>5, <1>6, <1>8 DEF SaveArea, cnt2

\* pop_from_stack of RP: a call that has restored its registers ends.
LEMMA AreaLeave ==
  ASSUME NEW n \in Nat \ {0}, NEW cnt \in Areas(n), NEW base \in Areas(n),
         NEW cnt2 \in Areas(n - 1), NEW base2 \in Areas(n - 1),
         NEW st \in Seq(Int), NEW st2 \in Seq(Int), NEW mach, NEW mach2,
         SaveArea(n, cnt, base, st, mach), cnt[n] = 0, Popped(st, st2),
         \A k \in 1..n-1 : cnt2[k] = cnt[k] /\ base2[k] = base[k],
         mach2[RP] = st[Len(st)],
         \A r \in Saved : r # RP => mach2[r] = mach[r]
  PROVE  SaveArea(n - 1, cnt2, base2, st2, mach2)
<1>1. /\ n \in 1..n /\ n # 0 /\ base[n] \in Nat /\ SavedBase \in Nat /\ RP \in Nat
      /\ \A k \in 1..n-1 : k \in 1..n /\ k < n
      /\ \A k \in 1..n : k = n \/ k \in 1..n-1
      /\ \A k \in 1..n : \A j \in 1..k-1 : j \in 1..n-1
  BY CallsAssumption DEF Areas
<1>2. Len(st) = base[n] + 1
  BY <1>1 DEF SaveArea, Height
<1>3. Len(st2) = base[n]
  BY <1>1, <1>2 DEF Popped
<1>4. \A k \in 1..n : Height(k - 1, cnt2, base2) = Height(k - 1, cnt, base)
  <2>. SUFFICES ASSUME NEW k \in 1..n
                PROVE  Height(k - 1, cnt2, base2) = Height(k - 1, cnt, base)
    OBVIOUS
  <2>1. k - 1 = 0 \/ k - 1 \in 1..n-1
    OBVIOUS
  <2>. QED
    BY <2>1 DEF Height
<1>5. Len(st2) = Height(n - 1, cnt2, base2)
  BY <1>1, <1>3, <1>4 DEF SaveArea, Nested
<1>6. Nested(n - 1, cnt2, base2)
  BY <1>1, <1>4 DEF SaveArea, Nested
<1>7. ASSUME NEW k \in 1..n-1, NEW r \in Saved, HasSaved(cnt, k, r)
      PROVE  st2[Slot(base2, k, r)] = st[Slot(base, k, r)]
  <2>1. Slot(base, k, r) \in 1 .. base[k] + 1 + cnt[k]
    BY <1>1, <1>7, SlotBelow
  <2>2. base[k] + 1 + cnt[k] <= base[n]
    BY <1>1 DEF SaveArea, Nested
  <2>3. base[k] + 1 + cnt[k] \in Nat
    BY DEF Areas
  <2>4. Slot(base, k, r) \in 1 .. Len(st) - 1
    BY <1>1, <1>2, <2>1, <2>2, <2>3
  <2>5. Slot(base2, k, r) = Slot(base, k, r)
    BY DEF Slot
  <2>. QED
    BY <2>4, <2>5 DEF Popped
<1>8. Held(n - 1, cnt2, base2, st2, mach2)
  <2>. SUFFICES ASSUME NEW r \in Saved
                PROVE  /\ Free(n - 1, cnt2, r) => mach2[r] = Entry[r]
                       /\ \A k \in 1..n-1 : FirstSaver(cnt2, k, r) =>
                            st2[Slot(base2, k, r)] = Entry[r]
    BY DEF Held
  <2>1. \A k \in 1..n-1 : HasSaved(cnt2, k, r) <=> HasSaved(cnt, k, r)
    BY DEF HasSaved
  <2>2. ASSUME NEW k \in 1..n-1, FirstSaver(cnt2, k, r)
        PROVE  st2[Slot(base2, k, r)] = Entry[r]
    <3>1. FirstSaver(cnt, k, r) /\ HasSaved(cnt, k, r)
      BY <1>1, <2>1, <2>2 DEF FirstSaver
    <3>. QED
      BY <1>1, <1>7, <3>1 DEF SaveArea, Held
  <2>3. ASSUME Free(n - 1, cnt2, r), r = RP PROVE mach2[r] = Entry[r]
    <3>1. \A j \in 1..n-1 : ~HasSaved(cnt, j, r)
      BY <2>1, <2>3 DEF Free
    <3>2. FirstSaver(cnt, n, r)
      BY <1>1, <2>3, <3>1 DEF FirstSaver, HasSaved
    <3>3. Slot(base, n, r) = Len(st)
      BY <1>2, <2>3 DEF Slot
    <3>. QED
      BY <1>1, <2>3, <3>2, <3>3 DEF SaveArea, Held
  <2>4. ASSUME Free(n - 1, cnt2, r), r # RP PROVE mach2[r] = Entry[r]
    <3>1. \A j \in 1..n-1 : ~HasSaved(cnt, j, r)
      BY <2>1, <2>4 DEF Free
    <3>2. ~HasSaved(cnt, n, r)
      BY <2>4, RegistersAssumption, CallsAssumption DEF HasSaved, Saved
    <3>3. Free(n, cnt, r)
      BY <1>1, <3>1, <3>2 DEF Free
    <3>. QED
      BY <2>4, <3>3 DEF SaveArea, Held
  <2>. QED
    BY <2>2, <2>3, <2>4
<1>. QED
  BY <1>5, <1>6, <1>8 DEF SaveArea
-----------------------------------------------------------------------------
(* What the emitted code does to the stack and the registers.               *)

Low == 0 .. SavedBase - 1
Codes == [stack : Seq(Int), machine : [RegisterNumbers -> Int], line : Nat, emitted : Nat]
Entries == [name : Vars, reg : Low]
Maps == Seq(Entries)

LEMMA Ranges ==
  /\ Low \subseteq RegisterNumbers /\ Saved \subseteq RegisterNumbers
  /\ RP \in Saved /\ X0 \in Low
  /\ \A r \in Low : r \notin Saved
  /\ \A k \in 0 .. MAX_ARGS - 1 : k \in Low /\ k + SavedBase \in Saved /\ k + SavedBase # RP
<1>1. /\ SavedBase \in Nat \ {0} /\ RP \in Nat /\ NUM_REGISTERS \in Nat /\ MAX_ARGS \in Nat
      /\ MAX_ARGS <= SavedBase /\ SavedBase + MAX_ARGS <= RP /\ RP < NUM_REGISTERS
  BY CallsAssumption, RegistersAssumption
<1>2. /\ Low \subseteq RegisterNumbers /\ Saved \subseteq RegisterNumbers
      /\ RP \in Saved /\ X0 \in Low /\ \A r \in Low : r \notin Saved
  BY <1>1 DEF Low, Saved, RegisterNumbers, X0
<1>3. ASSUME NEW k \in 0 .. MAX_ARGS - 1
      PROVE  k \in Low /\ k + SavedBase \in Saved /\ k + SavedBase # RP
  BY <1>1 DEF Low, Saved
<1>. QED
  BY <1>2, <1>3

LEMMA PutIs ==
  ASSUME NEW c \in Codes, NEW reg \in RegisterNumbers, NEW v \in Int
  PROVE  /\ Put(c, reg, v) \in Codes
         /\ Put(c, reg, v).stack = c.stack
         /\ Put(c, reg, v).machine = [c.machine EXCEPT ![reg] = v]
<1>1. /\ c.stack \in Seq(Int) /\ c.machine \in [RegisterNumbers -> Int]
      /\ c.line \in Nat /\ c.emitted \in Nat
  BY DEF Codes
<1>2. Put(c, reg, v) = [stack |-> c.stack, machine |-> [c.machine EXCEPT ![reg] = v],
                        line |-> c.line + 1, emitted |-> c.emitted + 1]
  BY DEF Emit, Put
<1>. QED
  BY <1>1, <1>2 DEF Codes

LEMMA MoveIs ==
  ASSUME NEW c \in Codes, NEW dest \in RegisterNumbers, NEW src \in RegisterNumbers
  PROVE  /\ Move(c, dest, src) \in Codes
         /\ Move(c, dest, src).stack = c.stack
         /\ Move(c, dest, src).machine = [c.machine EXCEPT ![dest] = c.machine[src]]
<1>1. c.machine[src] \in Int
  BY DEF Codes
<1>. QED
  BY <1>1, PutIs DEF Move

LEMMA PushIs ==
  ASSUME NEW c \in Codes, NEW reg \in RegisterNumbers
  PROVE  /\ Push(c, reg) \in Codes
         /\ Push(c, reg).stack = Append(c.stack, c.machine[reg])
         /\ Push(c, reg).machine = c.machine
<1>1. c.machine[reg] \in Int /\ Append(c.stack, c.machine[reg]) \in Seq(Int)
  BY DEF Codes
<1>2. c.machine \in [RegisterNumbers -> Int] /\ c.line \in Nat /\ c.emitted \in Nat
  BY DEF Codes
<1>3. Push(c, reg) = [stack |-> Append(c.stack, c.machine[reg]), machine |-> c.machine,
                      line |-> c.line + 2, emitted |-> c.emitted + 2]
  BY DEF Emit, Push
<1>. QED
  BY <1>1, <1>2, <1>3 DEF Codes

LEMMA PopIs ==
  ASSUME NEW c \in Codes, NEW reg \in RegisterNumbers, Len(c.stack) > 0
  PROVE  /\ Pop(c, reg) \in Codes
         /\ Popped(c.stack, Pop(c, reg).stack)
         /\ Pop(c, reg).machine = [c.machine EXCEPT ![reg] = c.stack[Len(c.stack)]]
<1>1. c.stack \in Seq(Int) /\ Len(c.stack) \in Nat
  BY DEF Codes
<1>2. Last(c.stack) = c.stack[Len(c.stack)] /\ Last(c.stack) \in Int
  BY <1>1 DEF Last
<1>3. /\ Front(c.stack) \in Seq(Int)
      /\ Len(Front(c.stack)) = Len(c.stack) - 1
      /\ \A i \in 1 .. Len(c.stack) - 1 : Front(c.stack)[i] = c.stack[i]
  BY <1>1 DEF Front
<1>4. c.machine \in [RegisterNumbers -> Int] /\ c.line \in Nat /\ c.emitted \in Nat
  BY DEF Codes
<1>5. Pop(c, reg) = [stack |-> Front(c.stack),
                     machine |-> [c.machine EXCEPT ![reg] = Last(c.stack)],
                     line |-> c.line + 2, emitted |-> c.emitted + 2]
  BY DEF Emit, Pop
<1>6. Pop(c, reg) \in Codes
  BY <1>2, <1>3, <1>4, <1>5 DEF Codes
<1>. QED
  BY <1>2, <1>3, <1>5, <1>6 DEF Popped

\* Below a call in progress every register counts as used.
LEMMA SaveIs ==
  ASSUME NEW m, NEW c \in Codes, NEW reg \in 0 .. MAX_ARGS - 1, Len(c.stack) > 0
  PROVE  /\ Save(m, c, reg) \in Codes
         /\ Save(m, c, reg).stack = Append(c.stack, c.machine[SavedBase + reg])
         /\ \A r \in RegisterNumbers : r # SavedBase + reg =>
              Save(m, c, reg).machine[r] = c.machine[r]
<1>1. Used(m, c.stack, reg)
  BY DEF Used
<1>2. /\ reg \in RegisterNumbers /\ reg + SavedBase \in RegisterNumbers
      /\ reg + SavedBase = SavedBase + reg
  BY Ranges, CallsAssumption
<1>. DEFINE pushed == Push(c, reg + SavedBase)
<1>3. /\ pushed \in Codes /\ pushed.machine = c.machine
      /\ pushed.stack = Append(c.stack, c.machine[reg + SavedBase])
  BY <1>2, PushIs
<1>4. Save(m, c, reg) = Move(pushed, reg + SavedBase, reg)
  BY <1>1 DEF Save
<1>. HIDE DEF pushed
<1>5. /\ Move(pushed, reg + SavedBase, reg) \in Codes
      /\ Move(pushed, reg + SavedBase, reg).stack = pushed.stack
      /\ Move(pushed, reg + SavedBase, reg).machine =
           [pushed.machine EXCEPT ![reg + SavedBase] = pushed.machine[reg]]
  BY <1>2, <1>3, MoveIs, Zenon
<1>6. c.machine \in [RegisterNumbers -> Int]
  BY DEF Codes
<1>. QED
  BY <1>2, <1>3, <1>4, <1>5, <1>6

\* Saving an argument's register moves what is in it.
LEMMA SaveMoves ==
  ASSUME NEW m, NEW c \in Codes, NEW reg \in 0 .. MAX_ARGS - 1, Len(c.stack) > 0
  PROVE  Save(m, c, reg).machine[SavedBase + reg] = c.machine[reg]
<1>1. Used(m, c.stack, reg)
  BY DEF Used
<1>2. /\ reg \in RegisterNumbers /\ reg + SavedBase \in RegisterNumbers
      /\ reg + SavedBase = SavedBase + reg
  BY Ranges, CallsAssumption
<1>. DEFINE pushed == Push(c, reg + SavedBase)
<1>3. pushed \in Codes /\ pushed.machine = c.machine
  BY <1>2, PushIs
<1>4. Save(m, c, reg) = Move(pushed, reg + SavedBase, reg)
  BY <1>1 DEF Save
<1>. HIDE DEF pushed
<1>5. Move(pushed, reg + SavedBase, reg).machine =
        [pushed.machine EXCEPT ![reg + SavedBase] = pushed.machine[reg]]
  BY <1>2, <1>3, MoveIs, Zenon
<1>6. c.machine \in [RegisterNumbers -> Int]
  BY DEF Codes
<1>. QED
  BY <1>2, <1>3, <1>4, <1>5, <1>6

LEMMA PutArgumentIs ==
  ASSUME NEW c \in Codes, NEW arg \in 0 .. MAX_ARGS - 1, NEW arg_reg, NEW v \in Int
  PROVE  /\ PutArgument(c, arg, arg_reg, v) \in Codes
         /\ PutArgument(c, arg, arg_reg, v).stack = c.stack
         /\ \A r \in Saved : PutArgument(c, arg, arg_reg, v).machine[r] = c.machine[r]
<1>1. arg \in RegisterNumbers /\ \A r \in Saved : r # arg /\ r \in RegisterNumbers
  BY Ranges
<1>2. c.machine \in [RegisterNumbers -> Int]
  BY DEF Codes
<1>3. CASE arg_reg = arg
  <2>1. PutArgument(c, arg, arg_reg, v) = [c EXCEPT !.line = @ + 1]
    BY <1>3 DEF PutArgument
  <2>2. [c EXCEPT !.line = @ + 1] = [stack |-> c.stack, machine |-> c.machine,
                                     line |-> c.line + 1, emitted |-> c.emitted]
    BY DEF Codes
  <2>. QED
    BY <2>1, <2>2 DEF Codes
<1>4. CASE arg_reg # arg
  <2>1. PutArgument(c, arg, arg_reg, v) = Put(c, arg, v)
    BY <1>4 DEF PutArgument
  <2>2. /\ Put(c, arg, v) \in Codes /\ Put(c, arg, v).stack = c.stack
        /\ Put(c, arg, v).machine = [c.machine EXCEPT ![arg] = v]
    BY <1>1, PutIs, Zenon
  <2>. QED
    BY <1>1, <1>2, <2>1, <2>2
<1>. QED
  BY <1>3, <1>4
-----------------------------------------------------------------------------
(* The map: names and intermediate results keep out of the saved registers. *)

LEMMA FreeLow ==
  ASSUME NEW m, LowLeft(m)
  PROVE  FreeIntermediary(m) \in Low /\ FreeIntermediary(m) \notin Mapped(m)
<1>1. PICK r \in 0 .. SavedBase - 1 : r \notin Mapped(m)
  BY DEF LowLeft
<1>2. r \in RegisterNumbers
  BY <1>1, Ranges DEF Low
<1>3. r \in Unmapped(m)
  BY <1>1, <1>2 DEF Unmapped
<1>4. FreeIntermediary(m) \in RegisterNumbers \ Mapped(m)
  BY <1>3, FreeIntermediaryIn
<1>5. Unmapped(m) \in SUBSET Nat
  BY RegistersAssumption DEF Unmapped, RegisterNumbers
<1>6. FreeIntermediary(m) <= r
  BY <1>3, <1>5, LowestIn DEF FreeIntermediary
<1>. QED
  BY <1>4, <1>6, RegistersAssumption, CallsAssumption DEF Low, RegisterNumbers

LEMMA NameLow ==
  ASSUME NEW m \in Maps, NEW x, HasName(m, x)
  PROVE  RegOf(m, x) \in Low
<1>1. PICK i \in DOMAIN m : m[i].name = x /\ RegOf(m, x) = m[i].reg
  BY FoundEntry DEF Maps
<1>2. m[i] \in Entries
  BY DEF Maps
<1>. QED
  BY <1>1, <1>2 DEF Entries

\* get_register
LEMMA GetLow ==
  ASSUME NEW m \in Maps, NEW x \in Vars, LowLeft(MapAfterGet(m, x))
  PROVE  MapAfterGet(m, x) \in Maps /\ GetRegister(m, x) \in Low
<1>1. CASE HasName(m, x)
  BY <1>1, NameLow DEF MapAfterGet, GetRegister
<1>2. CASE ~HasName(m, x)
  <2>. DEFINE entry == [name |-> x, reg |-> FreeIntermediary(m)]
  <2>1. MapAfterGet(m, x) = Append(m, entry) /\ GetRegister(m, x) = FreeIntermediary(m)
    BY <1>2 DEF MapAfterGet, GetRegister
  <2>2. \A i \in DOMAIN m : i \in DOMAIN Append(m, entry) /\ Append(m, entry)[i] = m[i]
    BY DEF Maps
  <2>3. Mapped(m) \subseteq Mapped(MapAfterGet(m, x))
    <3>. HIDE DEF entry
    <3>. QED
      BY <2>1, <2>2 DEF Mapped
  <2>4. LowLeft(m)
    BY <2>3 DEF LowLeft
  <2>5. FreeIntermediary(m) \in Low
    BY <2>4, FreeLow
  <2>. QED
    BY <2>1, <2>5 DEF Maps, Entries
<1>. QED
  BY <1>1, <1>2

\* The move of a name out of X0.
LEMMA MapRestored ==
  ASSUME NEW m \in Maps, NEW reg, LowLeft(m)
  PROVE  MapAfterRestore(m, reg) \in Maps /\ LowLeft(MapAfterRestore(m, reg))
<1>1. CASE reg # X0
  BY <1>1 DEF MapAfterRestore
<1>2. CASE reg = X0
  <2>. DEFINE f == FreeIntermediary(m)
              m2 == MapAfterRestore(m, reg)
  <2>1. f \in Low /\ f \notin Mapped(m)
    BY FreeLow
  <2>2. m2 = [i \in DOMAIN m |-> IF m[i].reg = X0 THEN [m[i] EXCEPT !.reg = f] ELSE m[i]]
    BY <1>2 DEF MapAfterRestore
  <2>3. \A i \in DOMAIN m : m[i] \in Entries
    BY DEF Maps
  <2>4. DOMAIN m = 1..Len(m) /\ Len(m) \in Nat
    BY DEF Maps
  <2>. HIDE DEF f
  <2>5. \A i \in DOMAIN m : m2[i] \in Entries
    BY <2>1, <2>2, <2>3 DEF Entries
  <2>6. m2 \in Maps
    BY <2>2, <2>4, <2>5 DEF Maps
  <2>7. \A i \in DOMAIN m : m2[i].reg = IF m[i].reg = X0 THEN f ELSE m[i].reg
    BY <2>2, <2>3 DEF Entries
  <2>8. CASE X0 \in Mapped(m)
    <3>1. f # X0
      BY <2>1, <2>8
    <3>2. X0 \notin Mapped(m2)
      BY <2>2, <2>7, <3>1 DEF Mapped
    <3>. QED
      BY <2>6, <3>2, Ranges DEF LowLeft, Low
  <2>9. CASE X0 \notin Mapped(m)
    <3>1. \A i \in DOMAIN m : m2[i].reg = m[i].reg
      BY <2>7, <2>9 DEF Mapped
    <3>2. Mapped(m2) = Mapped(m)
      BY <2>2, <3>1 DEF Mapped
    <3>. QED
      BY <2>6, <3>2 DEF LowLeft
  <2>. QED
    BY <2>8, <2>9
<1>. QED
  BY <1>1, <1>2

\* restore_register, within a call.
LEMMA RestoreIs ==
  ASSUME NEW m \in Maps, LowLeft(m), NEW c \in Codes, NEW reg \in 0 .. MAX_ARGS - 1,
         Len(c.stack) > 0
  PROVE  /\ Restore(m, c, reg) \in Codes
         /\ Popped(c.stack, Restore(m, c, reg).stack)
         /\ Restore(m, c, reg).machine[SavedBase + reg] = c.stack[Len(c.stack)]
         /\ \A r \in Saved : r # SavedBase + reg =>
              Restore(m, c, reg).machine[r] = c.machine[r]
<1>1. Used(m, c.stack, reg)
  BY DEF Used
<1>2. /\ reg \in Low /\ reg + SavedBase \in Saved /\ reg + SavedBase \in RegisterNumbers
      /\ reg + SavedBase = SavedBase + reg
  BY Ranges, CallsAssumption
<1>3. RestoredTo(m, reg) \in Low
  BY <1>2, FreeLow DEF RestoredTo
<1>4. RestoredTo(m, reg) \in RegisterNumbers /\ RestoredTo(m, reg) \notin Saved
  BY <1>3, Ranges
<1>. DEFINE moved == Move(c, RestoredTo(m, reg), reg + SavedBase)
<1>5. /\ moved \in Codes /\ moved.stack = c.stack
      /\ moved.machine = [c.machine EXCEPT ![RestoredTo(m, reg)] = c.machine[reg + SavedBase]]
  BY <1>2, <1>4, MoveIs, Zenon
<1>6. Restore(m, c, reg) = Pop(moved, reg + SavedBase)
  BY <1>1 DEF Restore
<1>. HIDE DEF moved
<1>7. /\ Pop(moved, reg + SavedBase) \in Codes
      /\ Popped(moved.stack, Pop(moved, reg + SavedBase).stack)
      /\ Pop(moved, reg + SavedBase).machine =
           [moved.machine EXCEPT ![reg + SavedBase] = moved.stack[Len(moved.stack)]]
  BY <1>2, <1>5, PopIs
<1>8. c.machine \in [RegisterNumbers -> Int] /\ \A r \in Saved : r \in RegisterNumbers
  BY Ranges DEF Codes
<1>. QED
  BY <1>2, <1>4, <1>5, <1>6, <1>7, <1>8
-----------------------------------------------------------------------------
(* The calls in progress, of a map, a code and frames.                      *)

FrameSet == [arg : 0 .. MAX_ARGS, arg_reg : RegisterNumbers, back : BOOLEAN, base : Nat,
             means : Seq(Int), sound : BOOLEAN, result : Int, kept : BOOLEAN]

Cnt(fr) == [k \in 1 .. Len(fr) |-> IF k < Len(fr) THEN fr[k].arg + 1 ELSE fr[k].arg]
Bas(fr) == [k \in 1 .. Len(fr) |-> fr[k].base]

\* A call with another one above it is at its arguments.
AtArguments(fr) ==
  \A k \in DOMAIN fr : k < Len(fr) => ~fr[k].back /\ fr[k].arg < MAX_ARGS

InProgress(m, c, fr) ==
  /\ m \in Maps /\ LowLeft(m) /\ c \in Codes
  /\ fr \in Seq(FrameSet) /\ AtArguments(fr)
  /\ SaveArea(Len(fr), Cnt(fr), Bas(fr), c.stack, c.machine)

LEMMA FrameIn ==
  ASSUME NEW fr \in Seq(FrameSet), NEW k \in 1 .. Len(fr)
  PROVE  fr[k] \in FrameSet /\ fr[k].arg \in 0 .. MAX_ARGS /\ fr[k].base \in Nat
<1>1. fr[k] \in FrameSet
  OBVIOUS
<1>. QED
  BY <1>1 DEF FrameSet

LEMMA AreasOf ==
  ASSUME NEW fr \in Seq(FrameSet)
  PROVE  /\ Cnt(fr) \in Areas(Len(fr)) /\ Bas(fr) \in Areas(Len(fr))
         /\ Len(fr) \in Nat /\ DOMAIN fr = 1 .. Len(fr)
<1>1. \A k \in 1 .. Len(fr) : fr[k].arg \in Nat /\ fr[k].base \in Nat
  BY FrameIn, CallsAssumption
<1>. QED
  BY <1>1 DEF Cnt, Bas, Areas

\* While a call is in progress the stack is not empty.
LEMMA StackThere ==
  ASSUME NEW m, NEW c, NEW fr, InProgress(m, c, fr), fr # <<>>
  PROVE  /\ Len(fr) \in Nat \ {0} /\ Len(c.stack) > 0 /\ c.stack \in Seq(Int)
         /\ fr[Len(fr)] \in FrameSet
         /\ Cnt(fr)[Len(fr)] = fr[Len(fr)].arg
         /\ Bas(fr)[Len(fr)] = fr[Len(fr)].base
<1>1. fr \in Seq(FrameSet) /\ Len(fr) \in Nat \ {0}
  BY DEF InProgress
<1>2. Len(fr) \in 1 .. Len(fr) /\ Len(fr) # 0
  BY <1>1
<1>3. /\ Cnt(fr)[Len(fr)] = fr[Len(fr)].arg /\ Bas(fr)[Len(fr)] = fr[Len(fr)].base
  BY <1>1, <1>2 DEF Cnt, Bas
<1>4. fr[Len(fr)] \in FrameSet /\ fr[Len(fr)].arg \in 0 .. MAX_ARGS /\ fr[Len(fr)].base \in Nat
  BY <1>1, <1>2, FrameIn
<1>5. Len(c.stack) = fr[Len(fr)].base + 1 + fr[Len(fr)].arg
  BY <1>2, <1>3 DEF InProgress, SaveArea, Height
<1>6. fr[Len(fr)].arg \in Nat
  BY <1>4, CallsAssumption
<1>7. Len(c.stack) > 0
  BY <1>4, <1>5, <1>6
<1>8. c.stack \in Seq(Int)
  BY DEF InProgress, Codes
<1>. QED
  BY <1>1, <1>3, <1>4, <1>7, <1>8

\* Code that leaves the stack and the saved registers alone.
LEMMA ProgressSame ==
  ASSUME NEW m, NEW c, NEW fr, InProgress(m, c, fr), NEW c2 \in Codes,
         c2.stack = c.stack, \A r \in Saved : c2.machine[r] = c.machine[r]
  PROVE  InProgress(m, c2, fr)
  BY AreaSame DEF InProgress

\* The innermost frame is replaced.
LEMMA TopReplaced ==
  ASSUME NEW fr \in Seq(FrameSet), fr # <<>>, AtArguments(fr), NEW f \in FrameSet,
         f.base = fr[Len(fr)].base
  PROVE  LET fr2 == [fr EXCEPT ![Len(fr)] = f]
         IN  /\ fr2 \in Seq(FrameSet) /\ Len(fr2) = Len(fr)
             /\ AtArguments(fr2) /\ Bas(fr2) = Bas(fr)
             /\ Cnt(fr2) = [Cnt(fr) EXCEPT ![Len(fr)] = f.arg]
<1>. DEFINE n == Len(fr)
            fr2 == [fr EXCEPT ![n] = f]
<1>1. n \in Nat \ {0} /\ n \in 1..n /\ DOMAIN fr = 1..n
  OBVIOUS
<1>2. fr2 \in Seq(FrameSet) /\ Len(fr2) = n /\ DOMAIN fr2 = 1..n
  BY <1>1
<1>3. fr2[n] = f /\ \A k \in 1..n : k # n => fr2[k] = fr[k]
  BY <1>1
<1>. HIDE DEF fr2, n
<1>4. AtArguments(fr2)
  <2>. SUFFICES ASSUME NEW k \in 1..n, k < n
                PROVE  ~fr2[k].back /\ fr2[k].arg < MAX_ARGS
    BY <1>2 DEF AtArguments
  <2>1. k # n
    BY <1>1
  <2>2. k \in DOMAIN fr
    BY <1>1
  <2>3. ~fr[k].back /\ fr[k].arg < MAX_ARGS
    BY <2>2 DEF AtArguments, n
  <2>. QED
    BY <1>3, <2>1, <2>3
<1>5. Bas(fr2) = Bas(fr)
  BY <1>1, <1>2, <1>3 DEF Bas, n
<1>6. Cnt(fr2) = [Cnt(fr) EXCEPT ![n] = f.arg]
  <2>1. \A k \in 1..n : k < n <=> k # n
    BY <1>1
  <2>2. Cnt(fr2) = [k \in 1..n |-> IF k = n THEN f.arg ELSE fr[k].arg + 1]
    BY <1>2, <1>3, <2>1 DEF Cnt
  <2>3. Cnt(fr) = [k \in 1..n |-> IF k = n THEN fr[k].arg ELSE fr[k].arg + 1]
    BY <2>1 DEF Cnt, n
  <2>. QED
    BY <2>2, <2>3
<1>. QED
  BY <1>2, <1>4, <1>5, <1>6 DEF fr2, n

\* An argument whose register has been saved.
LEMMA ProgressArgument ==
  ASSUME NEW m, NEW c, NEW fr, InProgress(m, c, fr), fr # <<>>,
         fr[Len(fr)].arg < MAX_ARGS, NEW f \in FrameSet,
         f.base = fr[Len(fr)].base, f.arg = fr[Len(fr)].arg + 1
  PROVE  InProgress(m, Save(m, c, fr[Len(fr)].arg), [fr EXCEPT ![Len(fr)] = f])
<1>. DEFINE n == Len(fr)
            arg == fr[n].arg
            c2 == Save(m, c, arg)
            fr2 == [fr EXCEPT ![n] = f]
<1>1. /\ n \in Nat \ {0} /\ Len(c.stack) > 0 /\ c.stack \in Seq(Int)
      /\ Cnt(fr)[n] = arg /\ fr[n] \in FrameSet
  BY StackThere
<1>2. fr \in Seq(FrameSet) /\ c \in Codes /\ AtArguments(fr)
  BY DEF InProgress
<1>3. arg \in 0 .. MAX_ARGS - 1
  BY <1>1, CallsAssumption DEF FrameSet
<1>4. /\ c2 \in Codes /\ c2.stack = Append(c.stack, c.machine[SavedBase + arg])
      /\ \A r \in RegisterNumbers : r # SavedBase + arg => c2.machine[r] = c.machine[r]
  BY <1>1, <1>2, <1>3, SaveIs
<1>5. /\ fr2 \in Seq(FrameSet) /\ Len(fr2) = n
      /\ AtArguments(fr2) /\ Bas(fr2) = Bas(fr)
      /\ Cnt(fr2) = [Cnt(fr) EXCEPT ![n] = f.arg]
  BY <1>2, TopReplaced
<1>6. /\ Cnt(fr) \in Areas(n) /\ Bas(fr) \in Areas(n)
      /\ SaveArea(n, Cnt(fr), Bas(fr), c.stack, c.machine)
  BY <1>2, AreasOf DEF InProgress
<1>7. \A r \in Saved : r \in RegisterNumbers
  BY Ranges
<1>. HIDE DEF n, arg, c2, fr2
<1>8. SaveArea(n, [Cnt(fr) EXCEPT ![n] = @ + 1], Bas(fr),
               Append(c.stack, c.machine[SavedBase + Cnt(fr)[n]]), c2.machine)
  BY <1>1, <1>3, <1>4, <1>6, <1>7, AreaSave DEF arg, n
<1>9. Cnt(fr2) = [Cnt(fr) EXCEPT ![n] = @ + 1]
  BY <1>1, <1>5 DEF arg, n
<1>10. SaveArea(Len(fr2), Cnt(fr2), Bas(fr2), c2.stack, c2.machine)
  BY <1>1, <1>4, <1>5, <1>8, <1>9
<1>11. InProgress(m, c2, fr2)
  BY <1>4, <1>5, <1>10 DEF InProgress
<1>. QED
  BY <1>11 DEF n, arg, c2, fr2

\* A call begins, in a statement or as an argument.
LEMMA NewFrameIn ==
  ASSUME NEW garbage \in RegisterNumbers, NEW b \in Nat
  PROVE  /\ NewFrame(garbage, b) \in FrameSet
         /\ NewFrame(garbage, b).arg = 0 /\ NewFrame(garbage, b).base = b
  BY CallsAssumption DEF NewFrame, FrameSet, Junk

LEMMA BeginIs ==
  ASSUME NEW c \in Codes
  PROVE  /\ Begin(c) \in Codes
         /\ Begin(c).stack = Append(c.stack, c.machine[RP])
         /\ \A r \in RegisterNumbers : r # RP => Begin(c).machine[r] = c.machine[r]
<1>. DEFINE pushed == Push(c, RP)
<1>1. RP \in RegisterNumbers
  BY Ranges
<1>2. /\ pushed \in Codes /\ pushed.stack = Append(c.stack, c.machine[RP])
      /\ pushed.machine = c.machine
  BY <1>1, PushIs
<1>. DEFINE address == ReturnAddress(pushed.line)
<1>3. Begin(c) = Put(pushed, RP, address)
  BY DEF Begin
<1>. HIDE DEF pushed
<1>4. address \in Int
  <2>1. pushed.line \in Nat
    BY <1>2 DEF Codes
  <2>2. 2^TokenWidth \in Nat \ {0}
    BY CallsAssumption
  <2>. QED
    BY <2>1, <2>2 DEF ReturnAddress
<1>. HIDE DEF address
<1>5. /\ Put(pushed, RP, address) \in Codes
      /\ Put(pushed, RP, address).stack = pushed.stack
      /\ Put(pushed, RP, address).machine = [pushed.machine EXCEPT ![RP] = address]
  BY <1>1, <1>2, <1>4, PutIs
<1>6. c.machine \in [RegisterNumbers -> Int]
  BY DEF Codes
<1>. QED
  BY <1>1, <1>2, <1>3, <1>5, <1>6

LEMMA ProgressBegin ==
  ASSUME NEW m, NEW c, NEW fr, InProgress(m, c, fr), NEW fr2 \in Seq(FrameSet),
         Len(fr2) = Len(fr) + 1, AtArguments(fr2),
         fr2[Len(fr) + 1].arg = 0, fr2[Len(fr) + 1].base = Len(c.stack),
         \A k \in 1 .. Len(fr) : Cnt(fr2)[k] = Cnt(fr)[k] /\ Bas(fr2)[k] = Bas(fr)[k]
  PROVE  InProgress(m, Begin(c), fr2)
<1>. DEFINE n == Len(fr)
<1>1. /\ fr \in Seq(FrameSet) /\ c \in Codes
      /\ SaveArea(n, Cnt(fr), Bas(fr), c.stack, c.machine)
  BY DEF InProgress
<1>2. /\ n \in Nat /\ Cnt(fr) \in Areas(n) /\ Bas(fr) \in Areas(n)
      /\ Cnt(fr2) \in Areas(n + 1) /\ Bas(fr2) \in Areas(n + 1)
  BY <1>1, AreasOf
<1>3. n + 1 \in 1 .. Len(fr2) /\ ~(n + 1 < Len(fr2))
  BY <1>2
<1>4. Cnt(fr2)[n + 1] = 0 /\ Bas(fr2)[n + 1] = Len(c.stack)
  BY <1>3 DEF Cnt, Bas
<1>5. /\ Begin(c) \in Codes /\ Begin(c).stack = Append(c.stack, c.machine[RP])
      /\ \A r \in Saved : r # RP => Begin(c).machine[r] = c.machine[r]
  BY <1>1, BeginIs, Ranges
<1>6. c.stack \in Seq(Int)
  BY <1>1 DEF Codes
<1>. HIDE DEF n
<1>7. SaveArea(n + 1, Cnt(fr2), Bas(fr2), Append(c.stack, c.machine[RP]), Begin(c).machine)
  BY <1>1, <1>2, <1>4, <1>5, <1>6, AreaBegin DEF n
<1>8. SaveArea(Len(fr2), Cnt(fr2), Bas(fr2), Begin(c).stack, Begin(c).machine)
  BY <1>5, <1>7 DEF n
<1>. QED
  BY <1>5, <1>8 DEF InProgress

LEMMA ProgressRestore ==
  ASSUME NEW m, NEW c, NEW fr, InProgress(m, c, fr), fr # <<>>,
         fr[Len(fr)].arg > 0, NEW f \in FrameSet,
         f.base = fr[Len(fr)].base, f.arg = fr[Len(fr)].arg - 1
  PROVE  InProgress(MapAfterRestore(m, f.arg), Restore(m, c, f.arg),
                    [fr EXCEPT ![Len(fr)] = f])
<1>. DEFINE n == Len(fr)
            arg == fr[n].arg
            c2 == Restore(m, c, f.arg)
            fr2 == [fr EXCEPT ![n] = f]
<1>1. /\ n \in Nat \ {0} /\ Len(c.stack) > 0 /\ c.stack \in Seq(Int)
      /\ Cnt(fr)[n] = arg /\ fr[n] \in FrameSet
  BY StackThere
<1>2. /\ fr \in Seq(FrameSet) /\ c \in Codes /\ AtArguments(fr)
      /\ m \in Maps /\ LowLeft(m)
  BY DEF InProgress
<1>3. arg \in 1 .. MAX_ARGS /\ f.arg \in 0 .. MAX_ARGS - 1
  <2>1. arg \in 0 .. MAX_ARGS
    BY <1>1 DEF FrameSet
  <2>2. MAX_ARGS \in Nat
    BY CallsAssumption
  <2>. QED
    BY <2>1, <2>2
<1>4. /\ c2 \in Codes /\ Popped(c.stack, c2.stack)
      /\ c2.machine[SavedBase + f.arg] = c.stack[Len(c.stack)]
      /\ \A r \in Saved : r # SavedBase + f.arg => c2.machine[r] = c.machine[r]
  BY <1>1, <1>2, <1>3, RestoreIs
<1>5. /\ fr2 \in Seq(FrameSet) /\ Len(fr2) = n
      /\ AtArguments(fr2) /\ Bas(fr2) = Bas(fr)
      /\ Cnt(fr2) = [Cnt(fr) EXCEPT ![n] = f.arg]
  BY <1>2, TopReplaced
<1>6. /\ Cnt(fr) \in Areas(n) /\ Bas(fr) \in Areas(n)
      /\ SaveArea(n, Cnt(fr), Bas(fr), c.stack, c.machine)
  BY <1>2, AreasOf DEF InProgress
<1>. HIDE DEF n, arg, c2, fr2
<1>7. Cnt(fr)[n] > 0 /\ Cnt(fr)[n] <= MAX_ARGS /\ f.arg = Cnt(fr)[n] - 1
  BY <1>1, <1>3, CallsAssumption DEF arg, n
<1>13. /\ n \in Nat \ {0} /\ c.stack \in Seq(Int)
       /\ c2.machine[SavedBase + (Cnt(fr)[n] - 1)] = c.stack[Len(c.stack)]
       /\ \A r \in Saved : r # SavedBase + (Cnt(fr)[n] - 1) => c2.machine[r] = c.machine[r]
  BY <1>1, <1>4, <1>7 DEF n
<1>8. SaveArea(n, [Cnt(fr) EXCEPT ![n] = @ - 1], Bas(fr), c2.stack, c2.machine)
  BY <1>4, <1>6, <1>7, <1>13, AreaRestore
<1>9. Cnt(fr2) = [Cnt(fr) EXCEPT ![n] = @ - 1]
  BY <1>5, <1>7
<1>10. SaveArea(Len(fr2), Cnt(fr2), Bas(fr2), c2.stack, c2.machine)
  BY <1>5, <1>8, <1>9
<1>11. MapAfterRestore(m, f.arg) \in Maps /\ LowLeft(MapAfterRestore(m, f.arg))
  BY <1>2, MapRestored
<1>12. InProgress(MapAfterRestore(m, f.arg), c2, fr2)
  BY <1>4, <1>5, <1>10, <1>11 DEF InProgress
<1>. QED
  BY <1>12 DEF n, c2, fr2

\* The end of a call: RP is popped.
LEMMA ProgressLeave ==
  ASSUME NEW m, NEW c, NEW fr, InProgress(m, c, fr), fr # <<>>,
         fr[Len(fr)].arg = 0, NEW fr2 \in Seq(FrameSet),
         Len(fr2) = Len(fr) - 1, AtArguments(fr2),
         \A k \in 1 .. Len(fr2) : Cnt(fr2)[k] = Cnt(fr)[k] /\ Bas(fr2)[k] = Bas(fr)[k]
  PROVE  InProgress(m, Pop(c, RP), fr2)
<1>. DEFINE n == Len(fr)
            c2 == Pop(c, RP)
<1>1. /\ n \in Nat \ {0} /\ Len(c.stack) > 0 /\ c.stack \in Seq(Int)
      /\ Cnt(fr)[n] = 0
  BY StackThere
<1>2. /\ fr \in Seq(FrameSet) /\ c \in Codes
      /\ SaveArea(n, Cnt(fr), Bas(fr), c.stack, c.machine)
  BY DEF InProgress
<1>3. Cnt(fr) \in Areas(n) /\ Bas(fr) \in Areas(n)
  BY <1>2, AreasOf
<1>4. RP \in RegisterNumbers /\ RP \in Saved /\ \A r \in Saved : r \in RegisterNumbers
  BY Ranges
<1>5. /\ c2 \in Codes /\ Popped(c.stack, c2.stack)
      /\ c2.machine = [c.machine EXCEPT ![RP] = c.stack[Len(c.stack)]]
  BY <1>1, <1>2, <1>4, PopIs
<1>6. c.machine \in [RegisterNumbers -> Int]
  BY <1>2 DEF Codes
<1>7. /\ c2.machine[RP] = c.stack[Len(c.stack)]
      /\ \A r \in Saved : r # RP => c2.machine[r] = c.machine[r]
  BY <1>4, <1>5, <1>6
<1>10. \A k \in 1 .. n - 1 : Cnt(fr2)[k] = Cnt(fr)[k] /\ Bas(fr2)[k] = Bas(fr)[k]
  OBVIOUS
<1>. HIDE DEF c2, n
<1>11. n \in Nat \ {0} /\ Cnt(fr)[n] = 0 /\ c.stack \in Seq(Int)
  BY <1>1 DEF n
<1>12. /\ Cnt(fr2) \in Areas(n - 1) /\ Bas(fr2) \in Areas(n - 1)
       /\ c2.stack \in Seq(Int)
  BY <1>5, AreasOf DEF n, Codes
<1>8. SaveArea(n - 1, Cnt(fr2), Bas(fr2), c2.stack, c2.machine)
  <2>. DEFINE cnt == Cnt(fr)
              base == Bas(fr)
              cnt2 == Cnt(fr2)
              base2 == Bas(fr2)
              st == c.stack
              st2 == c2.stack
              mach == c.machine
              mach2 == c2.machine
  <2>1. /\ n \in Nat \ {0} /\ cnt \in Areas(n) /\ base \in Areas(n)
        /\ cnt2 \in Areas(n - 1) /\ base2 \in Areas(n - 1)
        /\ st \in Seq(Int) /\ st2 \in Seq(Int)
        /\ SaveArea(n, cnt, base, st, mach) /\ cnt[n] = 0 /\ Popped(st, st2)
        /\ mach2[RP] = st[Len(st)]
    BY <1>2, <1>3, <1>5, <1>7, <1>11, <1>12
  <2>2. \A k \in 1..n-1 : cnt2[k] = cnt[k] /\ base2[k] = base[k]
    BY <1>10
  <2>3. \A r \in Saved : r # RP => mach2[r] = mach[r]
    BY <1>7
  <2>. HIDE DEF cnt, base, cnt2, base2, st, st2, mach, mach2
  <2>4. SaveArea(n - 1, cnt2, base2, st2, mach2)
    BY <2>1, <2>2, <2>3, AreaLeave
  <2>. QED
    BY <2>4 DEF cnt2, base2, st2, mach2
<1>9. InProgress(m, c2, fr2)
  BY <1>5, <1>8 DEF InProgress, n
<1>. QED
  BY <1>9 DEF c2
-----------------------------------------------------------------------------
\* The inductive invariant.
IInv ==
  /\ InProgress(map, Code, frames)
  /\ target \in Targets /\ done \in BOOLEAN
  /\ env \in [Vars -> Int] /\ lost \subseteq Vars

LEMMA CodeNext ==
  ASSUME NEW c \in Codes, CodeIs(c)
  PROVE  Code' = c
  BY DEF CodeIs, Code, Codes

LEMMA IntsIn == Ints \subseteq Int /\ Larges \subseteq Int /\ Results \subseteq Int
  BY CallsAssumption

LEMMA InitInv == Init => IInv
<1>. SUFFICES ASSUME Init PROVE IInv
  OBVIOUS
<1>1. /\ stack = <<>> /\ machine = Entry /\ line = 0 /\ emitted = 0 /\ frames = <<>>
      /\ target = Ret /\ done = FALSE /\ lost = {}
  BY DEF Init
<1>2. PICK n \in 0 .. Len(Parameters) :
        /\ map = [i \in 1..n |-> [name |-> Parameters[i], reg |-> i - 1]]
        /\ env = [x \in Vars |-> IF \E i \in 1..n : Parameters[i] = x
                                 THEN Entry[(CHOOSE i \in 1..n : Parameters[i] = x) - 1]
                                 ELSE Unassigned]
        /\ n < SavedBase
  BY DEF Init
<1>3. /\ Parameters \in Seq(Vars) /\ Entry \in [RegisterNumbers -> Int]
      /\ SavedBase \in Nat \ {0} /\ n \in Nat
  BY CallsAssumption
<1>4. \A i \in 1..n : Parameters[i] \in Vars /\ i - 1 \in Low /\ i - 1 \in RegisterNumbers
  <2>. SUFFICES ASSUME NEW i \in 1..n
                PROVE  Parameters[i] \in Vars /\ i - 1 \in Low /\ i - 1 \in RegisterNumbers
    OBVIOUS
  <2>1. Parameters[i] \in Vars
    BY <1>3
  <2>2. i - 1 \in Low
    BY <1>2, <1>3 DEF Low
  <2>. QED
    BY <2>1, <2>2, Ranges
<1>5. map \in Maps
  <2>1. \A i \in 1..n : [name |-> Parameters[i], reg |-> i - 1] \in Entries
    BY <1>4 DEF Entries
  <2>. QED
    BY <1>2, <1>3, <2>1 DEF Maps
<1>6. LowLeft(map)
  <2>1. \A i \in DOMAIN map : map[i].reg = i - 1 /\ i \in 1..n
    BY <1>2
  <2>2. n \in 0 .. SavedBase - 1 /\ n \notin Mapped(map)
    BY <1>2, <1>3, <2>1 DEF Mapped
  <2>. QED
    BY <2>2 DEF LowLeft
<1>7. env \in [Vars -> Int]
  <2>1. ASSUME NEW x \in Vars, \E i \in 1..n : Parameters[i] = x
        PROVE  Entry[(CHOOSE i \in 1..n : Parameters[i] = x) - 1] \in Int
    <3>1. (CHOOSE i \in 1..n : Parameters[i] = x) \in 1..n
      BY <2>1
    <3>. QED
      BY <1>3, <1>4, <3>1
  <2>2. Unassigned \in Int
    BY DEF Unassigned
  <2>. QED
    BY <1>2, <2>1, <2>2
<1>8. Code \in Codes /\ Code.stack = <<>> /\ Code.machine = Entry
  BY <1>1, <1>3 DEF Code, Codes
<1>9. frames \in Seq(FrameSet) /\ Len(frames) = 0 /\ AtArguments(frames)
  BY <1>1 DEF AtArguments
<1>10. SaveArea(0, Cnt(frames), Bas(frames), <<>>, Entry)
  BY DEF SaveArea, Height, Nested, Held
<1>. QED
  BY <1>1, <1>5, <1>6, <1>7, <1>8, <1>9, <1>10 DEF IInv, InProgress, Targets

\* assignment_to_ir, between two calls.
LEMMA AssignStep ==
  ASSUME NEW x \in Targets, NEW c, NEW reg \in Low, NEW value \in Int, NEW kept,
         InProgress(map, c, <<>>), env \in [Vars -> Int], lost \subseteq Vars,
         Assign(map, x, c, reg, value, kept), frames' = <<>>, target' \in Targets
  PROVE  IInv'
<1>. DEFINE dest == TargetReg(map, x)
            moved == IF dest = reg THEN c ELSE Move(c, dest, reg)
            c2 == IF x = Ret THEN Emit(moved, moved.stack, moved.machine, 1) ELSE moved
<1>1. map \in Maps /\ c \in Codes /\ LowLeft(map)
  BY DEF InProgress
<1>2. LowLeft(TargetMap(map, x)) /\ map' = TargetMap(map, x) /\ CodeIs(c2)
      /\ done' = (x = Ret)
      /\ env' = (IF x = Ret THEN env ELSE [env EXCEPT ![x] = value])
      /\ lost' = IF kept THEN lost \ {x} ELSE lost \cup ({x} \cap Vars)
  BY DEF Assign
<1>3. TargetMap(map, x) \in Maps /\ dest \in Low
  <2>1. CASE x = Ret
    BY <1>1, <2>1, Ranges DEF TargetMap, TargetReg
  <2>2. CASE x # Ret
    BY <1>1, <1>2, <2>2, GetLow DEF TargetMap, TargetReg, Targets
  <2>. QED
    BY <2>1, <2>2
<1>4. dest \in RegisterNumbers /\ reg \in RegisterNumbers
      /\ \A r \in Saved : r # dest /\ r \in RegisterNumbers
  BY <1>3, Ranges
<1>. HIDE DEF dest
<1>5. moved \in Codes /\ moved.stack = c.stack
      /\ \A r \in Saved : moved.machine[r] = c.machine[r]
  <2>1. CASE dest = reg
    BY <1>1, <2>1
  <2>2. CASE dest # reg
    <3>1. /\ Move(c, dest, reg) \in Codes /\ Move(c, dest, reg).stack = c.stack
          /\ Move(c, dest, reg).machine = [c.machine EXCEPT ![dest] = c.machine[reg]]
      BY <1>1, <1>4, MoveIs
    <3>2. c.machine \in [RegisterNumbers -> Int]
      BY <1>1 DEF Codes
    <3>. QED
      BY <1>4, <2>2, <3>1, <3>2
  <2>. QED
    BY <2>1, <2>2
<1>. HIDE DEF moved
<1>6. c2 \in Codes /\ c2.stack = c.stack
      /\ \A r \in Saved : c2.machine[r] = c.machine[r]
  <2>1. /\ Emit(moved, moved.stack, moved.machine, 1) \in Codes
        /\ Emit(moved, moved.stack, moved.machine, 1).stack = moved.stack
        /\ Emit(moved, moved.stack, moved.machine, 1).machine = moved.machine
    BY <1>5 DEF Codes, Emit
  <2>. QED
    BY <1>5, <2>1
<1>. HIDE DEF c2
<1>7. Code' = c2
  BY <1>2, <1>6, CodeNext
<1>8. InProgress(map, c2, <<>>)
  BY <1>6, ProgressSame
<1>9. InProgress(map', Code', frames')
  BY <1>2, <1>3, <1>7, <1>8 DEF InProgress
<1>10. done' \in BOOLEAN /\ env' \in [Vars -> Int] /\ lost' \subseteq Vars
  BY <1>2 DEF Targets
<1>. QED
  BY <1>9, <1>10 DEF IInv, Targets

LEMMA TakenIn ==
  ASSUME NEW f \in FrameSet, f.arg < MAX_ARGS, NEW arg_reg \in RegisterNumbers,
         NEW value \in Int, NEW sound \in BOOLEAN
  PROVE  /\ Taken(f, arg_reg, value, sound) \in FrameSet
         /\ Taken(f, arg_reg, value, sound).arg = f.arg + 1
         /\ Taken(f, arg_reg, value, sound).base = f.base
<1>1. f.arg \in 0 .. MAX_ARGS /\ MAX_ARGS \in Nat
  BY CallsAssumption DEF FrameSet
<1>2. f.arg + 1 \in 0 .. MAX_ARGS
  BY <1>1
<1>3. Append(f.means, value) \in Seq(Int) /\ f.base \in Nat /\ f.sound \in BOOLEAN
  BY DEF FrameSet
<1>4. (f.sound /\ sound) \in BOOLEAN /\ Junk \in Int
  BY DEF Junk
<1>. QED
  BY <1>2, <1>3, <1>4 DEF Taken, FrameSet

\* One argument more: saved, evaluated to c and stored.
LEMMA ArgumentStep ==
  ASSUME IInv, TakesArgument, NEW c \in Codes, NEW value \in Int,
         NEW arg_reg \in RegisterNumbers, NEW frame_reg \in RegisterNumbers,
         NEW meant \in Int, NEW sound \in BOOLEAN,
         c.stack = Save(map, Code, Top.arg).stack,
         \A r \in Saved : c.machine[r] = Save(map, Code, Top.arg).machine[r],
         CodeIs(PutArgument(c, Top.arg, arg_reg, value)),
         frames' = WithTop(Taken(Top, frame_reg, meant, sound)),
         UNCHANGED <<map, target, done, env, lost>>
  PROVE  IInv'
<1>. DEFINE f == Taken(Top, frame_reg, meant, sound)
            saved == Save(map, Code, Top.arg)
            c2 == PutArgument(c, Top.arg, arg_reg, value)
            fr2 == [frames EXCEPT ![Len(frames)] = f]
<1>1. InProgress(map, Code, frames) /\ frames # <<>> /\ Top.arg < MAX_ARGS
  BY DEF IInv, TakesArgument
<1>2. Top \in FrameSet /\ Top.arg \in 0 .. MAX_ARGS - 1
  <2>1. Top \in FrameSet
    BY <1>1, StackThere DEF Top
  <2>2. Top.arg \in 0 .. MAX_ARGS /\ MAX_ARGS \in Nat
    BY <2>1, CallsAssumption DEF FrameSet
  <2>. QED
    BY <1>1, <2>1, <2>2
<1>3. f \in FrameSet /\ f.arg = Top.arg + 1 /\ f.base = Top.base
  BY <1>1, <1>2, TakenIn
<1>. HIDE DEF f
<1>4. InProgress(map, saved, fr2)
  BY <1>1, <1>3, ProgressArgument DEF Top
<1>5. InProgress(map, c, fr2)
  BY <1>4, ProgressSame
<1>6. /\ c2 \in Codes /\ c2.stack = c.stack
      /\ \A r \in Saved : c2.machine[r] = c.machine[r]
  BY <1>2, PutArgumentIs
<1>7. Code' = c2
  BY <1>6, CodeNext
<1>. HIDE DEF c2, fr2
<1>8. InProgress(map, c2, fr2)
  BY <1>5, <1>6, ProgressSame
<1>9. frames' = fr2
  BY DEF WithTop, fr2, f
<1>. QED
  BY <1>7, <1>8, <1>9 DEF IInv

\* What the three kinds of arguments that are no calls have in common.
LEMMA Saving ==
  ASSUME IInv, TakesArgument
  PROVE  /\ Save(map, Code, Top.arg) \in Codes
         /\ Top \in FrameSet /\ Top.arg \in Low /\ Top.arg \in RegisterNumbers
         /\ map \in Maps /\ LowLeft(map) /\ Code \in Codes
<1>1. InProgress(map, Code, frames) /\ frames # <<>> /\ Top.arg < MAX_ARGS
  BY DEF IInv, TakesArgument
<1>2. Top \in FrameSet /\ Len(Code.stack) > 0
  BY <1>1, StackThere DEF Top
<1>3. map \in Maps /\ LowLeft(map) /\ Code \in Codes
  BY <1>1 DEF InProgress
<1>4. Top.arg \in 0 .. MAX_ARGS /\ MAX_ARGS \in Nat
  BY <1>2, CallsAssumption DEF FrameSet
<1>5. Top.arg \in 0 .. MAX_ARGS - 1
  BY <1>1, <1>4
<1>6. Save(map, Code, Top.arg) \in Codes
  BY <1>2, <1>3, <1>5, SaveIs
<1>. QED
  BY <1>2, <1>3, <1>5, <1>6, Ranges

LEMMA StepArgumentInt ==
  ASSUME IInv, NEW v \in Ints, ArgumentInt(v)
  PROVE  IInv'
<1>1. v \in Int
  BY IntsIn
<1>2. TakesArgument
  BY DEF ArgumentInt
<1>3. Save(map, Code, Top.arg) \in Codes /\ Top.arg_reg \in RegisterNumbers
  BY <1>2, Saving DEF FrameSet
<1>4. /\ CodeIs(PutArgument(Save(map, Code, Top.arg), Top.arg, Top.arg_reg, v))
      /\ frames' = WithTop(Taken(Top, Top.arg_reg, v, Top.arg_reg # Top.arg))
      /\ UNCHANGED <<map, target, done, env, lost>>
  BY DEF ArgumentInt
<1>5. (Top.arg_reg # Top.arg) \in BOOLEAN
  OBVIOUS
<1>. QED
  BY <1>1, <1>2, <1>3, <1>4, <1>5, ArgumentStep

LEMMA StepArgumentLarge ==
  ASSUME IInv, NEW v \in Larges, ArgumentLarge(v)
  PROVE  IInv'
<1>. DEFINE reg == FreeIntermediary(map)
            saved == Save(map, Code, Top.arg)
            loaded == Put(saved, reg, v)
<1>1. v \in Int
  BY IntsIn
<1>2. TakesArgument
  BY DEF ArgumentLarge
<1>3. saved \in Codes /\ LowLeft(map)
  BY <1>2, Saving
<1>4. reg \in RegisterNumbers /\ \A r \in Saved : r # reg /\ r \in RegisterNumbers
  BY <1>3, FreeLow, Ranges
<1>5. /\ CodeIs(PutArgument(loaded, Top.arg, reg, v))
      /\ frames' = WithTop(Taken(Top, reg, v, reg >= Top.arg))
      /\ UNCHANGED <<map, target, done, env, lost>>
  BY DEF ArgumentLarge
<1>6. (reg >= Top.arg) \in BOOLEAN
  OBVIOUS
<1>. HIDE DEF saved, reg
<1>7. /\ loaded \in Codes /\ loaded.stack = saved.stack
      /\ loaded.machine = [saved.machine EXCEPT ![reg] = v]
  BY <1>1, <1>3, <1>4, PutIs
<1>8. \A r \in Saved : loaded.machine[r] = saved.machine[r]
  BY <1>3, <1>4, <1>7 DEF Codes
<1>. HIDE DEF loaded
<1>9. /\ loaded.stack = Save(map, Code, Top.arg).stack
      /\ \A r \in Saved : loaded.machine[r] = Save(map, Code, Top.arg).machine[r]
  BY <1>7, <1>8 DEF saved
<1>. QED
  BY <1>1, <1>2, <1>4, <1>5, <1>6, <1>7, <1>9, ArgumentStep

LEMMA StepArgumentName ==
  ASSUME IInv, NEW y \in Vars, ArgumentName(y)
  PROVE  IInv'
<1>. DEFINE reg == RegOf(map, y)
            saved == Save(map, Code, Top.arg)
<1>1. TakesArgument /\ HasName(map, y)
  BY DEF ArgumentName, Readable
<1>2. saved \in Codes /\ map \in Maps
  BY <1>1, Saving
<1>3. reg \in RegisterNumbers
  BY <1>1, <1>2, NameLow, Ranges
<1>4. /\ CodeIs(PutArgument(saved, Top.arg, reg, saved.machine[reg]))
      /\ frames' = WithTop(Taken(Top, reg, env[y], Untouched(reg) /\ y \notin lost))
      /\ UNCHANGED <<map, target, done, env, lost>>
  BY DEF ArgumentName
<1>5. saved.machine[reg] \in Int /\ env[y] \in Int
  BY <1>2, <1>3 DEF Codes, IInv
<1>6. (Untouched(reg) /\ y \notin lost) \in BOOLEAN
  OBVIOUS
<1>. HIDE DEF reg
<1>. QED
  BY <1>1, <1>2, <1>3, <1>4, <1>5, <1>6, ArgumentStep

LEMMA StepAssign ==
  ASSUME IInv,
         \/ \E x \in Targets, v \in Ints : AssignInt(x, v)
         \/ \E x \in Targets, v \in Larges : AssignLarge(x, v)
         \/ \E x \in Targets, y \in Vars : AssignName(x, y)
  PROVE  IInv'
<1>1. /\ frames = <<>> => InProgress(map, Code, <<>>)
      /\ env \in [Vars -> Int] /\ lost \subseteq Vars /\ target \in Targets
      /\ map \in Maps /\ LowLeft(map) /\ Code \in Codes
  BY DEF IInv, InProgress
<1>2. ASSUME NEW c \in Codes, NEW reg \in Low, NEW v \in Int, frames = <<>>,
             c = Put(Code, reg, v)
      PROVE  InProgress(map, c, <<>>)
  <2>1. reg \in RegisterNumbers /\ \A r \in Saved : r # reg /\ r \in RegisterNumbers
    BY Ranges
  <2>2. c.stack = Code.stack /\ c.machine = [Code.machine EXCEPT ![reg] = v]
    BY <1>1, <1>2, <2>1, PutIs
  <2>3. \A r \in Saved : c.machine[r] = Code.machine[r]
    BY <1>1, <2>1, <2>2 DEF Codes
  <2>. QED
    BY <1>1, <1>2, <2>2, <2>3, ProgressSame
<1>3. ASSUME NEW x \in Targets, NEW v \in Ints, AssignInt(x, v) PROVE IInv'
  <2>. DEFINE dest == TargetReg(map, x)
              c == Put(Code, dest, v)
  <2>1. /\ frames = <<>> /\ frames' = frames /\ target' = target
        /\ Assign(map, x, c, dest, v, TRUE)
    BY <1>3 DEF AssignInt, Idle
  <2>2. LowLeft(TargetMap(map, x))
    BY <2>1 DEF Assign
  <2>3. dest \in Low
    BY <1>1, <2>2, GetLow, Ranges DEF TargetMap, TargetReg, Targets
  <2>4. v \in Int /\ dest \in RegisterNumbers
    BY <2>3, IntsIn, Ranges
  <2>. HIDE DEF dest
  <2>5. c \in Codes
    BY <1>1, <2>4, PutIs
  <2>6. InProgress(map, c, <<>>)
    BY <1>2, <2>1, <2>3, <2>4, <2>5
  <2>. HIDE DEF c
  <2>. QED
    BY <1>1, <2>1, <2>3, <2>4, <2>6, AssignStep
<1>4. ASSUME NEW x \in Targets, NEW v \in Larges, AssignLarge(x, v) PROVE IInv'
  <2>. DEFINE reg == FreeIntermediary(map)
              c == Put(Code, reg, v)
  <2>1. /\ frames = <<>> /\ frames' = frames /\ target' = target
        /\ Assign(map, x, c, reg, v, TRUE)
    BY <1>4 DEF AssignLarge, Idle
  <2>2. reg \in Low
    BY <1>1, FreeLow
  <2>3. v \in Int /\ reg \in RegisterNumbers
    BY <2>2, IntsIn, Ranges
  <2>. HIDE DEF reg
  <2>4. c \in Codes
    BY <1>1, <2>3, PutIs
  <2>5. InProgress(map, c, <<>>)
    BY <1>2, <2>1, <2>2, <2>3, <2>4
  <2>. HIDE DEF c
  <2>. QED
    BY <1>1, <2>1, <2>2, <2>3, <2>5, AssignStep
<1>5. ASSUME NEW x \in Targets, NEW y \in Vars, AssignName(x, y) PROVE IInv'
  <2>1. /\ frames = <<>> /\ frames' = frames /\ target' = target /\ HasName(map, y)
        /\ Assign(map, x, Code, RegOf(map, y), env[y], y \notin lost)
    BY <1>5 DEF AssignName, Idle, Readable
  <2>2. RegOf(map, y) \in Low /\ env[y] \in Int
    BY <1>1, <2>1, NameLow
  <2>. QED
    BY <1>1, <2>1, <2>2, AssignStep
<1>. QED
  BY <1>3, <1>4, <1>5

LEMMA StepBegin ==
  ASSUME IInv, NEW x \in Targets, NEW garbage \in RegisterNumbers, BeginCall(x, garbage)
  PROVE  IInv'
<1>. DEFINE f == NewFrame(garbage, Len(stack))
<1>1. /\ frames = <<>> /\ CodeIs(Begin(Code)) /\ frames' = << f >> /\ target' = x
      /\ UNCHANGED <<map, done, env, lost>>
  BY DEF BeginCall, Idle
<1>2. InProgress(map, Code, <<>>) /\ Code \in Codes /\ Code.stack = stack
  BY <1>1 DEF IInv, InProgress, Code
<1>3. Len(stack) \in Nat
  BY <1>2 DEF Codes
<1>4. f \in FrameSet /\ f.arg = 0 /\ f.base = Len(stack)
  BY <1>3, NewFrameIn
<1>. HIDE DEF f
<1>5. /\ << f >> \in Seq(FrameSet) /\ Len(<< f >>) = Len(<<>>) + 1
      /\ AtArguments(<< f >>) /\ << f >>[Len(<<>>) + 1] = f
  BY <1>4 DEF AtArguments
<1>6. InProgress(map, Begin(Code), << f >>)
  <2>1. /\ << f >>[Len(<<>>) + 1].arg = 0 /\ << f >>[Len(<<>>) + 1].base = Len(Code.stack)
        /\ \A k \in 1 .. Len(<<>>) : FALSE
    BY <1>2, <1>4, <1>5
  <2>. QED
    BY <1>2, <1>5, <2>1, ProgressBegin
<1>7. Code' = Begin(Code)
  BY <1>1, <1>2, BeginIs, CodeNext
<1>. QED
  BY <1>1, <1>6, <1>7 DEF IInv

LEMMA StepArgumentCall ==
  ASSUME IInv, NEW garbage \in RegisterNumbers, ArgumentCall(garbage)
  PROVE  IInv'
<1>. DEFINE n == Len(frames)
            f == [Top EXCEPT !.arg = @ + 1]
            saved == Save(map, Code, Top.arg)
            fr1 == [frames EXCEPT ![n] = f]
            new == NewFrame(garbage, Len(saved.stack))
            fr2 == Append(frames, new)
<1>1. /\ TakesArgument /\ CodeIs(Begin(saved)) /\ frames' = fr2
      /\ UNCHANGED <<map, target, done, env>>
      /\ lost' \subseteq Vars
  BY DEF ArgumentCall, IInv
<1>2. /\ InProgress(map, Code, frames) /\ frames # <<>> /\ Top.arg < MAX_ARGS /\ ~Top.back
      /\ frames \in Seq(FrameSet) /\ AtArguments(frames)
  BY <1>1 DEF IInv, TakesArgument, InProgress
<1>3. Top \in FrameSet /\ saved \in Codes
  BY <1>1, Saving
<1>4. f \in FrameSet /\ f.arg = Top.arg + 1 /\ f.base = Top.base
  <2>1. Top.arg \in 0 .. MAX_ARGS /\ MAX_ARGS \in Nat
    BY <1>3, CallsAssumption DEF FrameSet
  <2>2. Top.arg + 1 \in 0 .. MAX_ARGS
    BY <1>2, <2>1
  <2>. QED
    BY <1>3, <2>2 DEF FrameSet
<1>. HIDE DEF f
<1>5. InProgress(map, saved, fr1)
  BY <1>2, <1>4, ProgressArgument DEF Top
<1>6. /\ fr1 \in Seq(FrameSet) /\ Len(fr1) = n /\ Bas(fr1) = Bas(frames)
      /\ Cnt(fr1) = [Cnt(frames) EXCEPT ![n] = f.arg]
  BY <1>2, <1>4, TopReplaced DEF Top
<1>7. Len(saved.stack) \in Nat
  BY <1>3 DEF Codes
<1>8. new \in FrameSet /\ new.arg = 0 /\ new.base = Len(saved.stack)
  BY <1>7, NewFrameIn
<1>. HIDE DEF new, saved, fr1
<1>9. n \in Nat \ {0} /\ DOMAIN frames = 1..n
  BY <1>2
<1>10. /\ fr2 \in Seq(FrameSet) /\ Len(fr2) = n + 1 /\ fr2[n + 1] = new
       /\ \A k \in 1..n : fr2[k] = frames[k] /\ k < Len(fr2)
  BY <1>2, <1>8
<1>. HIDE DEF fr2
<1>11. AtArguments(fr2)
  <2>. SUFFICES ASSUME NEW k \in DOMAIN fr2, k < Len(fr2)
                PROVE  ~fr2[k].back /\ fr2[k].arg < MAX_ARGS
    BY DEF AtArguments
  <2>1. k \in 1..n
    BY <1>10
  <2>2. CASE k = n
    BY <1>2, <1>10, <2>1, <2>2 DEF Top
  <2>3. CASE k # n
    <3>1. k \in DOMAIN frames /\ k < Len(frames)
      BY <1>9, <2>1, <2>3
    <3>. QED
      BY <1>2, <1>10, <2>1, <3>1 DEF AtArguments
  <2>. QED
    BY <2>2, <2>3
<1>12. ASSUME NEW k \in 1..n PROVE Cnt(fr2)[k] = Cnt(fr1)[k] /\ Bas(fr2)[k] = Bas(fr1)[k]
  <2>1. k \in 1 .. Len(fr2)
    BY <1>9, <1>10
  <2>2. Cnt(fr2)[k] = frames[k].arg + 1 /\ Bas(fr2)[k] = frames[k].base
    BY <1>10, <2>1 DEF Cnt, Bas
  <2>3. Cnt(frames)[k] = (IF k < n THEN frames[k].arg + 1 ELSE frames[k].arg)
        /\ Bas(frames)[k] = frames[k].base
    BY DEF Cnt, Bas
  <2>4. CASE k = n
    <3>1. Cnt(fr1)[n] = f.arg
      BY <1>6, <1>9 DEF Cnt
    <3>. QED
      BY <1>4, <1>6, <2>2, <2>3, <2>4, <3>1 DEF Top
  <2>5. CASE k # n
    <3>1. k < n
      <4>1. \A a \in Nat : \A b \in 1..a : b # a => b < a
        OBVIOUS
      <4>. QED
        BY <1>9, <2>5, <4>1, Zenon
    <3>2. Cnt(fr1)[k] = Cnt(frames)[k]
      BY <1>6, <2>5 DEF Cnt
    <3>. QED
      BY <1>6, <2>2, <2>3, <3>1, <3>2
  <2>. QED
    BY <2>4, <2>5
<1>13. InProgress(map, Begin(saved), fr2)
  BY <1>5, <1>6, <1>8, <1>10, <1>11, <1>12, ProgressBegin
<1>14. Code' = Begin(saved)
  BY <1>1, <1>3, BeginIs, CodeNext DEF saved
<1>. QED
  BY <1>1, <1>13, <1>14 DEF IInv, saved, fr2, new

LEMMA StepBranch ==
  ASSUME IInv, NEW size \in CalleeSizes, NEW result \in Results, Branch(size, result)
  PROVE  IInv'
<1>. DEFINE called == [Top EXCEPT !.back = TRUE]
            f == [called EXCEPT !.result = result]
            c == [stack |-> stack, machine |-> machine', line |-> line + 1,
                  emitted |-> emitted + 1]
            fr2 == [frames EXCEPT ![Len(frames)] = f]
<1>1. /\ frames # <<>> /\ frames' = fr2 /\ CodeIs(c)
      /\ machine' = [r \in RegisterNumbers |->
                      IF r = X0 THEN result ELSE IF r < size THEN Junk ELSE machine[r]]
      /\ UNCHANGED <<map, target, done, env>> /\ lost' \subseteq Vars
  BY DEF Branch, CodeIs, WithTop, IInv
<1>2. /\ InProgress(map, Code, frames) /\ frames \in Seq(FrameSet) /\ AtArguments(frames)
      /\ Code \in Codes
  BY DEF IInv, InProgress
<1>3. /\ stack \in Seq(Int) /\ machine \in [RegisterNumbers -> Int]
      /\ line \in Nat /\ emitted \in Nat
  BY <1>2 DEF Codes, Code
<1>4. machine' \in [RegisterNumbers -> Int]
  BY <1>1, <1>3, IntsIn DEF Junk
<1>5. c \in Codes /\ c.stack = stack /\ c.machine = machine'
  BY <1>3, <1>4 DEF Codes
<1>6. \A r \in Saved : machine'[r] = machine[r]
  <2>. SUFFICES ASSUME NEW r \in Saved PROVE machine'[r] = machine[r]
    OBVIOUS
  <2>1. r \in RegisterNumbers /\ r \notin Low
    BY Ranges
  <2>2. r # X0 /\ ~(r < size)
    BY <2>1, CallsAssumption, RegistersAssumption DEF Low, RegisterNumbers, X0
  <2>. QED
    BY <1>1, <2>1, <2>2
<1>7. Top \in FrameSet
  BY <1>1, <1>2, StackThere DEF Top
<1>8. f \in FrameSet /\ f.base = Top.base /\ f.arg = Top.arg
  <2>1. called \in FrameSet /\ called.base = Top.base /\ called.arg = Top.arg
    BY <1>7 DEF FrameSet
  <2>2. result \in Int
    BY IntsIn
  <2>. HIDE DEF called
  <2>. QED
    BY <2>1, <2>2 DEF FrameSet
<1>. HIDE DEF c, f
<1>9. InProgress(map, c, frames)
  BY <1>2, <1>5, <1>6, ProgressSame DEF Code
<1>10. /\ fr2 \in Seq(FrameSet) /\ Len(fr2) = Len(frames)
       /\ AtArguments(fr2) /\ Bas(fr2) = Bas(frames)
       /\ Cnt(fr2) = [Cnt(frames) EXCEPT ![Len(frames)] = f.arg]
  BY <1>1, <1>2, <1>8, TopReplaced DEF Top
<1>11. Cnt(fr2) = Cnt(frames)
  <2>1. Cnt(frames)[Len(frames)] = f.arg
    BY <1>1, <1>2, <1>8, StackThere DEF Top
  <2>. QED
    BY <1>10, <2>1 DEF Cnt
<1>. HIDE DEF fr2
<1>12. InProgress(map, c, fr2)
  BY <1>9, <1>10, <1>11 DEF InProgress
<1>13. Code' = c
  BY <1>1, <1>5, CodeNext
<1>. QED
  BY <1>1, <1>12, <1>13 DEF IInv

LEMMA StepRestore ==
  ASSUME IInv, RestoreArgument
  PROVE  IInv'
<1>. DEFINE reg == Top.arg - 1
            kept == reg # X0 \/ X0 \in Mapped(map)
            restored == [Top EXCEPT !.arg = reg]
            f == [restored EXCEPT !.kept = kept]
            fr2 == [frames EXCEPT ![Len(frames)] = f]
<1>1. /\ frames # <<>> /\ Top.arg > 0 /\ frames' = fr2
      /\ CodeIs(Restore(map, Code, reg)) /\ map' = MapAfterRestore(map, reg)
      /\ UNCHANGED <<target, done, env, lost>>
  BY DEF RestoreArgument, WithTop
<1>2. InProgress(map, Code, frames) /\ Code \in Codes
  BY DEF IInv, InProgress
<1>3. Top \in FrameSet
  BY <1>1, <1>2, StackThere DEF Top
<1>4. reg \in 0 .. MAX_ARGS
  <2>1. Top.arg \in 0 .. MAX_ARGS /\ MAX_ARGS \in Nat
    BY <1>3, CallsAssumption DEF FrameSet
  <2>. QED
    BY <1>1, <2>1
<1>5. f \in FrameSet /\ f.arg = reg /\ f.base = Top.base
  <2>1. kept \in BOOLEAN
    OBVIOUS
  <2>. HIDE DEF kept, reg
  <2>2. restored \in FrameSet /\ restored.arg = reg /\ restored.base = Top.base
    BY <1>3, <1>4 DEF FrameSet
  <2>. HIDE DEF restored
  <2>. QED
    BY <2>1, <2>2 DEF FrameSet
<1>. HIDE DEF f
<1>6. InProgress(MapAfterRestore(map, f.arg), Restore(map, Code, f.arg), fr2)
  BY <1>1, <1>2, <1>5, ProgressRestore DEF Top
<1>7. Restore(map, Code, f.arg) \in Codes
  BY <1>6 DEF InProgress
<1>8. Code' = Restore(map, Code, f.arg)
  BY <1>1, <1>5, <1>7, CodeNext
<1>. HIDE DEF fr2
<1>. QED
  BY <1>1, <1>5, <1>6, <1>8 DEF IInv

LEMMA StepLeaveToArgument ==
  ASSUME IInv, LeaveToArgument
  PROVE  IInv'
<1>. DEFINE n == Len(frames)
            outer == frames[n - 1]
            popped == Pop(Code, RP)
            f == Taken(outer, X0, Top.result, Top.kept /\ outer.arg = 0)
            fr2 == Append(SubSeq(frames, 1, n - 2), f)
            c2 == PutArgument(popped, outer.arg, X0, popped.machine[X0])
<1>1. /\ n > 1 /\ Top.arg = 0 /\ CodeIs(c2) /\ frames' = fr2
      /\ UNCHANGED <<map, target, done, env, lost>>
  BY DEF LeaveToArgument
<1>2. /\ InProgress(map, Code, frames) /\ frames \in Seq(FrameSet) /\ AtArguments(frames)
      /\ Code \in Codes
  BY DEF IInv, InProgress
<1>3. /\ n \in Nat /\ n - 1 \in Nat /\ n - 2 \in Nat /\ DOMAIN frames = 1..n
      /\ n - 1 \in 1..n /\ n - 1 < n /\ n \in 1..n /\ frames # <<>>
  BY <1>1, <1>2
<1>4. outer \in FrameSet /\ outer.arg < MAX_ARGS /\ Top \in FrameSet
  BY <1>2, <1>3, FrameIn DEF AtArguments, Top
<1>5. f \in FrameSet /\ f.arg = outer.arg + 1 /\ f.base = outer.base
  <2>1. Top.result \in Int /\ Top.kept \in BOOLEAN /\ X0 \in RegisterNumbers
    BY <1>4, Ranges DEF FrameSet
  <2>2. (Top.kept /\ outer.arg = 0) \in BOOLEAN
    BY <2>1
  <2>. QED
    BY <1>4, <2>1, <2>2, TakenIn
<1>. HIDE DEF f
<1>6. /\ fr2 \in Seq(FrameSet) /\ Len(fr2) = n - 1 /\ fr2[n - 1] = f
      /\ \A k \in 1 .. n - 2 : fr2[k] = frames[k]
  <2>. DEFINE rest == SubSeq(frames, 1, n - 2)
  <2>1. /\ rest \in Seq(FrameSet) /\ Len(rest) = n - 2
        /\ \A k \in 1 .. n - 2 : rest[k] = frames[k]
    BY <1>2, <1>3
  <2>. HIDE DEF rest
  <2>2. /\ Append(rest, f) \in Seq(FrameSet) /\ Len(Append(rest, f)) = Len(rest) + 1
        /\ Append(rest, f)[Len(rest) + 1] = f
        /\ \A k \in 1 .. Len(rest) : Append(rest, f)[k] = rest[k]
    BY <1>5, <2>1
  <2>3. (n - 2) + 1 = n - 1
    BY <1>3
  <2>. QED
    BY <2>1, <2>2, <2>3 DEF rest
<1>. HIDE DEF fr2
<1>7. \A k \in 1 .. n - 1 : k = n - 1 \/ (k \in 1 .. n - 2 /\ k < n - 1 /\ k # n - 1)
  <2>1. \A a \in Nat : \A k \in 1 .. a - 1 :
          k = a - 1 \/ (k \in 1 .. a - 2 /\ k < a - 1 /\ k # a - 1)
    OBVIOUS
  <2>. QED
    BY <1>3, <2>1, Zenon
<1>8. \A k \in 1 .. n - 1 : k \in 1..n /\ k < n
  BY <1>3
<1>9. AtArguments(fr2)
  <2>. SUFFICES ASSUME NEW k \in DOMAIN fr2, k < Len(fr2)
                PROVE  ~fr2[k].back /\ fr2[k].arg < MAX_ARGS
    BY DEF AtArguments
  <2>1. k \in 1 .. n - 1 /\ k # n - 1
    BY <1>3, <1>6
  <2>2. fr2[k] = frames[k]
    BY <1>6, <1>7, <2>1
  <2>3. k \in DOMAIN frames /\ k < Len(frames)
    BY <1>3, <1>8, <2>1
  <2>. QED
    BY <1>2, <2>2, <2>3 DEF AtArguments
<1>10. ASSUME NEW k \in 1 .. Len(fr2)
       PROVE  Cnt(fr2)[k] = Cnt(frames)[k] /\ Bas(fr2)[k] = Bas(frames)[k]
  <2>1. k \in 1 .. n - 1 /\ k \in 1..n /\ k < n
    BY <1>6, <1>8
  <2>2. Cnt(frames)[k] = frames[k].arg + 1 /\ Bas(frames)[k] = frames[k].base
    BY <2>1 DEF Cnt, Bas
  <2>3. Bas(fr2)[k] = fr2[k].base
        /\ Cnt(fr2)[k] = (IF k < Len(fr2) THEN fr2[k].arg + 1 ELSE fr2[k].arg)
    BY DEF Cnt, Bas
  <2>4. CASE k = n - 1
    <3>1. ~(k < Len(fr2))
      BY <1>3, <1>6, <2>4
    <3>2. Cnt(fr2)[k] = f.arg /\ Bas(fr2)[k] = f.base
      BY <1>6, <2>3, <2>4, <3>1
    <3>. QED
      BY <1>5, <2>2, <2>4, <3>2
  <2>5. CASE k # n - 1
    <3>1. k < Len(fr2) /\ fr2[k] = frames[k]
      BY <1>6, <1>7, <2>1, <2>5
    <3>. QED
      BY <2>2, <2>3, <3>1
  <2>. QED
    BY <2>4, <2>5
<1>11. InProgress(map, popped, fr2)
  <2>1. frames[Len(frames)].arg = 0
    BY <1>1 DEF Top
  <2>. QED
    BY <1>2, <1>3, <1>6, <1>9, <1>10, <2>1, ProgressLeave
<1>12. popped \in Codes
  BY <1>11 DEF InProgress
<1>. HIDE DEF popped
<1>13. /\ outer.arg \in 0 .. MAX_ARGS - 1 /\ popped.machine[X0] \in Int
  <2>1. outer.arg \in 0 .. MAX_ARGS /\ MAX_ARGS \in Nat /\ X0 \in RegisterNumbers
    BY <1>4, Ranges, CallsAssumption DEF FrameSet
  <2>. QED
    BY <1>4, <1>12, <2>1 DEF Codes
<1>14. /\ c2 \in Codes /\ c2.stack = popped.stack
       /\ \A r \in Saved : c2.machine[r] = popped.machine[r]
  BY <1>12, <1>13, PutArgumentIs
<1>15. Code' = c2
  BY <1>1, <1>14, CodeNext
<1>. HIDE DEF c2
<1>16. InProgress(map, c2, fr2)
  BY <1>11, <1>14, ProgressSame
<1>. QED
  BY <1>1, <1>15, <1>16 DEF IInv

LEMMA StepLeaveToStatement ==
  ASSUME IInv, LeaveToStatement
  PROVE  IInv'
<1>. DEFINE popped == Pop(Code, RP)
<1>1. /\ Len(frames) = 1 /\ Top.arg = 0 /\ frames' = <<>> /\ target' = Ret
      /\ Assign(map, target, popped, X0, Top.result, Top.kept)
  BY DEF LeaveToStatement
<1>2. /\ InProgress(map, Code, frames) /\ frames \in Seq(FrameSet)
      /\ env \in [Vars -> Int] /\ lost \subseteq Vars /\ target \in Targets
  BY DEF IInv, InProgress
<1>3. frames # <<>> /\ frames[Len(frames)].arg = 0
  BY <1>1 DEF Top
<1>4. /\ <<>> \in Seq(FrameSet) /\ Len(<<>>) = Len(frames) - 1 /\ AtArguments(<<>>)
      /\ \A k \in 1 .. Len(<<>>) : FALSE
  BY <1>1 DEF AtArguments
<1>5. InProgress(map, popped, <<>>)
  BY <1>2, <1>3, <1>4, ProgressLeave
<1>6. Top.result \in Int
  BY <1>2, <1>3, StackThere DEF Top, FrameSet
<1>7. X0 \in Low /\ target' \in Targets
  BY <1>1, Ranges DEF Targets
<1>. HIDE DEF popped
<1>. QED
  BY <1>1, <1>2, <1>5, <1>6, <1>7, AssignStep

LEMMA StepInv == IInv /\ [Next]_vars => IInv'
<1>. SUFFICES ASSUME IInv, [Next]_vars PROVE IInv'
  OBVIOUS
<1>1. Garbage \subseteq RegisterNumbers
  BY CallsAssumption
<1>2. CASE \/ \E x \in Targets, v \in Ints : AssignInt(x, v)
           \/ \E x \in Targets, v \in Larges : AssignLarge(x, v)
           \/ \E x \in Targets, y \in Vars : AssignName(x, y)
  BY <1>2, StepAssign
<1>3. CASE \E x \in Targets, garbage \in Garbage : BeginCall(x, garbage)
  BY <1>1, <1>3, StepBegin
<1>4. CASE \E v \in Ints : ArgumentInt(v)
  BY <1>4, StepArgumentInt
<1>5. CASE \E v \in Larges : ArgumentLarge(v)
  BY <1>5, StepArgumentLarge
<1>6. CASE \E y \in Vars : ArgumentName(y)
  BY <1>6, StepArgumentName
<1>7. CASE \E garbage \in Garbage : ArgumentCall(garbage)
  BY <1>1, <1>7, StepArgumentCall
<1>8. CASE \E size \in CalleeSizes, result \in Results : Branch(size, result)
  BY <1>8, StepBranch
<1>9. CASE RestoreArgument
  BY <1>9, StepRestore
<1>10. CASE LeaveToArgument
  BY <1>10, StepLeaveToArgument
<1>11. CASE LeaveToStatement
  BY <1>11, StepLeaveToStatement
<1>12. CASE UNCHANGED vars
  <2>1. /\ map' = map /\ Code' = Code /\ frames' = frames
        /\ UNCHANGED <<target, done, env, lost>>
    BY <1>12 DEF vars, Code
  <2>. QED
    BY <2>1 DEF IInv
<1>. QED
  BY <1>2, <1>3, <1>4, <1>5, <1>6, <1>7, <1>8, <1>9, <1>10, <1>11, <1>12 DEF Next
-----------------------------------------------------------------------------
\* What the invariant says of the state.
LEMMA InvMeans == IInv => TypeOK /\ StackBalanced /\ ContractKept
<1>. SUFFICES ASSUME IInv PROVE TypeOK /\ StackBalanced /\ ContractKept
  OBVIOUS
<1>1. /\ InProgress(map, Code, frames) /\ frames \in Seq(FrameSet) /\ map \in Maps
      /\ Code \in Codes
      /\ SaveArea(Len(frames), Cnt(frames), Bas(frames), stack, machine)
  BY DEF IInv, InProgress, Code
<1>2. Len(frames) \in Nat /\ DOMAIN frames = 1 .. Len(frames)
      /\ (frames = <<>> <=> Len(frames) = 0)
  BY <1>1
<1>3. \A k \in 1 .. Len(frames) : /\ Cnt(frames)[k] = SavedBy(k)
                                 /\ Bas(frames)[k] = frames[k].base
  <2>. SUFFICES ASSUME NEW k \in 1 .. Len(frames)
                PROVE  Cnt(frames)[k] = SavedBy(k) /\ Bas(frames)[k] = frames[k].base
    OBVIOUS
  <2>1. frames[k].arg \in Nat
    BY <1>1, FrameIn, CallsAssumption
  <2>2. Cnt(frames)[k] = (IF k < Len(frames) THEN frames[k].arg + 1 ELSE frames[k].arg)
    BY DEF Cnt
  <2>3. SavedBy(k) = (IF k < Len(frames) THEN frames[k].arg + 1 ELSE frames[k].arg)
    BY <2>1 DEF SavedBy
  <2>. QED
    BY <2>2, <2>3 DEF Bas
<1>4. TypeOK
  BY <1>1 DEF TypeOK, IInv, Code, Codes, Maps, Entries, Low, FrameSet
<1>5. StackBalanced
  <2>1. ASSUME NEW k \in DOMAIN frames
        PROVE  frames[k].base = IF k = 1 THEN 0 ELSE frames[k - 1].base + PushedBy(k - 1)
    <3>1. frames[k].base = Height(k - 1, Cnt(frames), Bas(frames))
      BY <1>1, <1>2, <1>3 DEF SaveArea, Nested
    <3>2. k = 1 <=> k - 1 = 0
      BY <1>2
    <3>3. k # 1 => k - 1 \in 1 .. Len(frames)
      BY <1>2
    <3>4. k # 1 => Height(k - 1, Cnt(frames), Bas(frames))
                     = frames[k - 1].base + 1 + SavedBy(k - 1)
      BY <1>3, <3>2, <3>3 DEF Height
    <3>5. k # 1 => frames[k - 1].base + 1 + SavedBy(k - 1) =
                   frames[k - 1].base + PushedBy(k - 1)
      <4>1. k # 1 => /\ frames[k - 1].base \in Nat
                     /\ SavedBy(k - 1) \in Nat
        BY <1>1, <1>3, <3>3, AreasOf, FrameIn DEF Areas
      <4>. QED
        BY <4>1 DEF PushedBy
    <3>. QED
      BY <3>1, <3>2, <3>4, <3>5 DEF Height
  <2>2. CASE frames = <<>>
    BY <1>1, <1>2, <2>1, <2>2 DEF StackBalanced, SaveArea, Height
  <2>3. CASE frames # <<>>
    <3>1. Len(frames) \in 1 .. Len(frames) /\ Len(frames) # 0
      BY <1>2, <2>3
    <3>2. Len(stack) = Top.base + 1 + SavedBy(Len(frames))
      BY <1>1, <1>3, <3>1 DEF SaveArea, Height, Top
    <3>3. Top.base \in Nat /\ SavedBy(Len(frames)) \in Nat
      BY <1>1, <1>3, <3>1, AreasOf, FrameIn DEF Areas, Top
    <3>4. Len(stack) = Top.base + PushedBy(Len(frames))
      BY <3>2, <3>3 DEF PushedBy
    <3>. QED
      BY <2>1, <2>3, <3>4 DEF StackBalanced
  <2>. QED
    BY <2>2, <2>3
<1>6. ContractKept
  <2>. SUFFICES ASSUME frames = <<>>, NEW r \in Saved PROVE machine[r] = Entry[r]
    BY DEF ContractKept
  <2>1. Free(Len(frames), Cnt(frames), r)
    BY <1>2 DEF Free
  <2>. QED
    BY <1>1, <2>1 DEF SaveArea, Held
<1>. QED
  BY <1>4, <1>5, <1>6

LEMMA Invariance == Spec => []IInv
<1>. QED
  BY InitInv, StepInv, PTL DEF Spec

\* Registers of names and of intermediate results are below the saved ones, and
\* every frame counts arguments that a call may have.
THEOREM TypeCorrect == Spec => []TypeOK
<1>. QED
  BY Invariance, InvMeans, PTL

\* save_register, restore_register and the pushes and pops of RP agree on what
\* is on the stack, however calls are nested in the arguments of calls.
THEOREM Balanced == Spec => []StackBalanced
<1>. QED
  BY Invariance, InvMeans, PTL

\* After every statement the saved registers are what the function found.
THEOREM CalleeSaves == Spec => []ContractKept
<1>. QED
  BY Invariance, InvMeans, PTL
-----------------------------------------------------------------------------
(* What variables mean: where the value of a name's register is while calls *)
(* are in progress.                                                         *)

Over(cnt, k, r) == r < cnt[k]
NoneOver(n, cnt, r) == \A k \in 1..n : ~Over(cnt, k, r)
OnlyOver(n, cnt, k, r) == Over(cnt, k, r) /\ \A j \in 1..n : j # k => ~Over(cnt, j, r)
SecondOver(cnt, k, l, r) ==
  k < l /\ Over(cnt, k, r) /\ Over(cnt, l, r) /\ \A j \in 1..l-1 : j # k => ~Over(cnt, j, r)

\* The value of a register below the saved ones: no call has saved it, the
\* outermost that has keeps it in the saved register, the second has pushed
\* that.
NameKept(n, cnt, base, st, mach, r, v) ==
  /\ NoneOver(n, cnt, r) => mach[r] = v
  /\ \A k \in 1..n : OnlyOver(n, cnt, k, r) => mach[SavedBase + r] = v
  /\ \A k, l \in 1..n : SecondOver(cnt, k, l, r) => st[base[l] + 2 + r] = v

\* Where a call that has saved a register pushed the one it is saved in.
LEMMA SlotOver ==
  ASSUME NEW n \in Nat \ {0}, NEW cnt \in Areas(n), NEW base \in Areas(n), NEW st \in Seq(Int),
         Len(st) = Height(n, cnt, base), Nested(n, cnt, base),
         NEW l \in 1..n, NEW r \in Nat, Over(cnt, l, r)
  PROVE  /\ base[l] + 2 + r \in 1..Len(st)
         /\ l # n \/ r # cnt[n] - 1 => base[l] + 2 + r \in 1 .. Len(st) - 1
<1>1. /\ n \in 1..n /\ n # 0 /\ cnt[n] \in Nat /\ base[n] \in Nat
      /\ cnt[l] \in Nat /\ base[l] \in Nat /\ r < cnt[l]
  BY DEF Areas, Over
<1>2. Len(st) = base[n] + 1 + cnt[n]
  BY <1>1 DEF Height
<1>3. base[l] + 2 + r <= base[l] + 1 + cnt[l]
  BY <1>1
<1>4. CASE l = n
  <2>1. r # cnt[n] - 1 => base[n] + 2 + r < base[n] + 1 + cnt[n]
    BY <1>1, <1>4
  <2>. QED
    BY <1>1, <1>2, <1>3, <1>4, <2>1
<1>5. CASE l # n
  <2>1. l < n
    BY <1>1, <1>5
  <2>2. base[l] + 1 + cnt[l] <= base[n]
    BY <1>1, <2>1 DEF Nested
  <2>3. \A a, b, c, d \in Nat : a + 1 + b <= c /\ r < b =>
          /\ a + 2 + r \in 1 .. c + 1 + d
          /\ a + 2 + r \in 1 .. (c + 1 + d) - 1
    OBVIOUS
  <2>. QED
    BY <1>1, <1>2, <2>2, <2>3
<1>. QED
  BY <1>4, <1>5

\* A register that the same calls have saved.
LEMMA KeptSame ==
  ASSUME NEW n \in Nat, NEW n2 \in Nat, NEW cnt, NEW cnt2, NEW base, NEW base2,
         NEW st, NEW st2, NEW mach, NEW mach2, NEW r, NEW v,
         NameKept(n, cnt, base, st, mach, r, v),
         \A k \in 1..n2 : Over(cnt2, k, r) => k \in 1..n /\ Over(cnt, k, r),
         \A k \in 1..n : Over(cnt, k, r) =>
           /\ k \in 1..n2 /\ Over(cnt2, k, r)
           /\ base2[k] = base[k] /\ st2[base[k] + 2 + r] = st[base[k] + 2 + r],
         NoneOver(n, cnt, r) => mach2[r] = mach[r],
         ~NoneOver(n, cnt, r) => mach2[SavedBase + r] = mach[SavedBase + r]
  PROVE  NameKept(n2, cnt2, base2, st2, mach2, r, v)
<1>1. NoneOver(n2, cnt2, r) <=> NoneOver(n, cnt, r)
  BY DEF NoneOver
<1>2. ASSUME NEW k \in 1..n2, OnlyOver(n2, cnt2, k, r)
      PROVE  k \in 1..n /\ OnlyOver(n, cnt, k, r) /\ ~NoneOver(n, cnt, r)
  BY <1>2 DEF OnlyOver, NoneOver
<1>3. ASSUME NEW k \in 1..n2, NEW l \in 1..n2, SecondOver(cnt2, k, l, r)
      PROVE  /\ k \in 1..n /\ l \in 1..n /\ SecondOver(cnt, k, l, r)
             /\ base2[l] = base[l] /\ st2[base[l] + 2 + r] = st[base[l] + 2 + r]
  <2>1. k \in 1..n /\ l \in 1..n /\ Over(cnt, k, r) /\ Over(cnt, l, r) /\ k < l
    BY <1>3 DEF SecondOver
  <2>2. \A j \in 1..l-1 : j \in 1..n
    BY <2>1
  <2>3. \A j \in 1..l-1 : j # k => ~Over(cnt, j, r)
    BY <1>3, <2>2 DEF SecondOver
  <2>. QED
    BY <2>1, <2>3 DEF SecondOver
<1>. QED
  BY <1>1, <1>2, <1>3 DEF NameKept

\* save_register of the register itself.
LEMMA KeptSave ==
  ASSUME NEW n \in Nat \ {0}, NEW cnt \in Areas(n), NEW base \in Areas(n), NEW cnt2,
         NEW st \in Seq(Int), Len(st) = Height(n, cnt, base), Nested(n, cnt, base),
         NEW mach, NEW mach2, NEW r \in Nat, NEW v,
         NameKept(n, cnt, base, st, mach, r, v),
         cnt2 = [cnt EXCEPT ![n] = @ + 1], mach[SavedBase + cnt[n]] \in Int,
         r # cnt[n] => /\ NoneOver(n, cnt, r) => mach2[r] = mach[r]
                       /\ ~NoneOver(n, cnt, r) => mach2[SavedBase + r] = mach[SavedBase + r],
         r = cnt[n] => mach2[SavedBase + r] = mach[r]
  PROVE  NameKept(n, cnt2, base, Append(st, mach[SavedBase + cnt[n]]), mach2, r, v)
<1>. DEFINE st2 == Append(st, mach[SavedBase + cnt[n]])
<1>1. n \in 1..n /\ cnt[n] \in Nat /\ base[n] \in Nat
  BY DEF Areas
<1>2. cnt2[n] = cnt[n] + 1 /\ \A k \in 1..n : k # n => cnt2[k] = cnt[k]
  BY <1>1 DEF Areas
<1>3. Len(st) = base[n] + 1 + cnt[n] /\ Len(st) \in Nat
  BY <1>1 DEF Height
<1>4. st2[Len(st) + 1] = mach[SavedBase + cnt[n]] /\ \A i \in 1..Len(st) : st2[i] = st[i]
  BY <1>3
<1>. HIDE DEF st2
<1>5. \A k \in 1..n : Over(cnt, k, r) => st2[base[k] + 2 + r] = st[base[k] + 2 + r]
  BY <1>4, SlotOver
<1>6. CASE r # cnt[n]
  <2>1. \A k \in 1..n : Over(cnt2, k, r) <=> Over(cnt, k, r)
    BY <1>1, <1>2, <1>6 DEF Over
  <2>2. NameKept(n, cnt2, base, st2, mach2, r, v)
    BY <1>5, <1>6, <2>1, KeptSame
  <2>. QED
    BY <2>2 DEF st2
<1>7. CASE r = cnt[n]
  <2>1. /\ Over(cnt2, n, r) /\ ~Over(cnt, n, r)
        /\ \A k \in 1..n : k # n => (Over(cnt2, k, r) <=> Over(cnt, k, r))
    BY <1>1, <1>2, <1>7 DEF Over
  <2>2. ~NoneOver(n, cnt2, r)
    BY <1>1, <2>1 DEF NoneOver
  <2>3. ASSUME NEW k \in 1..n, OnlyOver(n, cnt2, k, r) PROVE mach2[SavedBase + r] = v
    <3>1. k = n
      BY <1>1, <2>1, <2>3 DEF OnlyOver
    <3>2. NoneOver(n, cnt, r)
      BY <2>1, <2>3, <3>1 DEF OnlyOver, NoneOver
    <3>. QED
      BY <1>7, <3>2 DEF NameKept
  <2>4. ASSUME NEW k \in 1..n, NEW l \in 1..n, SecondOver(cnt2, k, l, r)
        PROVE  st2[base[l] + 2 + r] = v
    <3>1. k < l /\ Over(cnt2, k, r) /\ Over(cnt2, l, r)
          /\ \A j \in 1..l-1 : j # k => ~Over(cnt2, j, r)
      BY <2>4 DEF SecondOver
    <3>2. k # n /\ \A j \in 1..l-1 : j \in 1..n /\ j # n
      BY <3>1
    <3>3. Over(cnt, k, r) /\ \A j \in 1..l-1 : j # k => ~Over(cnt, j, r)
      BY <2>1, <3>1, <3>2
    <3>4. CASE l = n
      <4>1. \A j \in 1..n : j = n \/ j \in 1..n-1
        OBVIOUS
      <4>2. OnlyOver(n, cnt, k, r)
        BY <2>1, <3>3, <3>4, <4>1 DEF OnlyOver
      <4>3. mach[SavedBase + r] = v
        BY <4>2 DEF NameKept
      <4>4. base[n] + 2 + r = Len(st) + 1
        BY <1>1, <1>3, <1>7
      <4>. QED
        BY <1>4, <1>7, <3>4, <4>3, <4>4
    <3>5. CASE l # n
      <4>1. Over(cnt, l, r)
        BY <2>1, <3>1, <3>5
      <4>2. SecondOver(cnt, k, l, r)
        BY <3>1, <3>3, <4>1 DEF SecondOver
      <4>. QED
        BY <1>5, <4>1, <4>2 DEF NameKept
    <3>. QED
      BY <3>4, <3>5
  <2>5. NameKept(n, cnt2, base, st2, mach2, r, v)
    BY <2>2, <2>3, <2>4 DEF NameKept
  <2>. QED
    BY <2>5 DEF st2
<1>. QED
  BY <1>6, <1>7

\* restore_register of the register itself, which is not X0.
LEMMA KeptRestore ==
  ASSUME NEW n \in Nat \ {0}, NEW cnt \in Areas(n), NEW base \in Areas(n), NEW cnt2,
         NEW st \in Seq(Int), Len(st) = Height(n, cnt, base), Nested(n, cnt, base),
         NEW st2, Popped(st, st2), NEW mach, NEW mach2, NEW r \in Nat, NEW v,
         NameKept(n, cnt, base, st, mach, r, v),
         cnt[n] > 0, cnt2 = [cnt EXCEPT ![n] = @ - 1],
         r # cnt[n] - 1 => /\ NoneOver(n, cnt, r) => mach2[r] = mach[r]
                           /\ ~NoneOver(n, cnt, r) =>
                                mach2[SavedBase + r] = mach[SavedBase + r],
         r = cnt[n] - 1 => /\ mach2[r] = mach[SavedBase + r]
                           /\ mach2[SavedBase + r] = st[Len(st)]
  PROVE  NameKept(n, cnt2, base, st2, mach2, r, v)
<1>1. n \in 1..n /\ cnt[n] \in Nat /\ base[n] \in Nat
  BY DEF Areas
<1>2. cnt2[n] = cnt[n] - 1 /\ \A k \in 1..n : k # n => cnt2[k] = cnt[k]
  BY <1>1 DEF Areas
<1>3. Len(st) = base[n] + 1 + cnt[n] /\ Len(st) \in Nat
  BY <1>1 DEF Height
<1>4. \A k \in 1..n : Over(cnt, k, r) /\ (k # n \/ r # cnt[n] - 1) =>
        st2[base[k] + 2 + r] = st[base[k] + 2 + r]
  <2>. SUFFICES ASSUME NEW k \in 1..n, Over(cnt, k, r), k # n \/ r # cnt[n] - 1
                PROVE  st2[base[k] + 2 + r] = st[base[k] + 2 + r]
    OBVIOUS
  <2>1. base[k] + 2 + r \in 1 .. Len(st) - 1
    BY SlotOver
  <2>. QED
    BY <2>1 DEF Popped
<1>5. CASE r # cnt[n] - 1
  <2>1. \A k \in 1..n : Over(cnt2, k, r) <=> Over(cnt, k, r)
    BY <1>1, <1>2, <1>5 DEF Over
  <2>. QED
    BY <1>4, <1>5, <2>1, KeptSame
<1>6. CASE r = cnt[n] - 1
  <2>1. /\ Over(cnt, n, r) /\ ~Over(cnt2, n, r)
        /\ \A k \in 1..n : k # n => (Over(cnt2, k, r) <=> Over(cnt, k, r))
    BY <1>1, <1>2, <1>6 DEF Over
  <2>2. ASSUME NoneOver(n, cnt2, r) PROVE mach2[r] = v
    <3>1. OnlyOver(n, cnt, n, r)
      BY <1>1, <2>1, <2>2 DEF OnlyOver, NoneOver
    <3>. QED
      BY <1>1, <1>6, <3>1 DEF NameKept
  <2>3. ASSUME NEW k \in 1..n, OnlyOver(n, cnt2, k, r) PROVE mach2[SavedBase + r] = v
    <3>1. k # n /\ Over(cnt, k, r) /\ \A j \in 1..n : j # k /\ j # n => ~Over(cnt, j, r)
      BY <2>1, <2>3 DEF OnlyOver
    <3>6. k < n
      BY <3>1
    <3>2. \A j \in 1..n-1 : j \in 1..n /\ j # n
      OBVIOUS
    <3>3. SecondOver(cnt, k, n, r)
      BY <2>1, <3>1, <3>2, <3>6 DEF SecondOver
    <3>4. st[base[n] + 2 + r] = v
      BY <1>1, <3>3 DEF NameKept
    <3>5. base[n] + 2 + r = Len(st)
      BY <1>1, <1>3, <1>6
    <3>. QED
      BY <1>6, <3>4, <3>5
  <2>4. ASSUME NEW k \in 1..n, NEW l \in 1..n, SecondOver(cnt2, k, l, r)
        PROVE  st2[base[l] + 2 + r] = v
    <3>1. k < l /\ Over(cnt2, k, r) /\ Over(cnt2, l, r)
          /\ \A j \in 1..l-1 : j # k => ~Over(cnt2, j, r)
      BY <2>4 DEF SecondOver
    <3>2. k # n /\ l # n /\ \A j \in 1..l-1 : j \in 1..n /\ j # n
      BY <2>1, <3>1
    <3>3. SecondOver(cnt, k, l, r) /\ Over(cnt, l, r)
      BY <2>1, <3>1, <3>2 DEF SecondOver
    <3>. QED
      BY <1>4, <3>2, <3>3 DEF NameKept
  <2>. QED
    BY <2>2, <2>3, <2>4 DEF NameKept
<1>. QED
  BY <1>5, <1>6

\* The value of the name in X0, which restore_register moves with its name: a
\* call has its register saved only if it is the first argument of the calls
\* around it.
AtX0(n, cnt, fr, mach, v) ==
  /\ \A k \in 1..n : k < n => fr[k].arg = 0
  /\ NoneOver(n, cnt, X0) => mach[X0] = v
  /\ n > 0 /\ fr[n].arg = 0 /\ ~fr[n].back => mach[X0] = v
  /\ ~NoneOver(n, cnt, X0) => mach[SavedBase] = v

ValueAt(fr, st, mach, r, v) ==
  IF r = X0 THEN AtX0(Len(fr), Cnt(fr), fr, mach, v)
  ELSE NameKept(Len(fr), Cnt(fr), Bas(fr), st, mach, r, v)

\* A variable has one entry, and a register one variable.
MapOnce(m) ==
  \A i, j \in DOMAIN m : m[i].name = m[j].name \/ m[i].reg = m[j].reg => i = j

\* The result is in X0 until a register is restored into it, and a call at its
\* arguments knows what they mean.
FramesOk ==
  \A k \in DOMAIN frames :
    /\ frames[k].kept \/ (frames[k].back /\ frames[k].arg = 0)
    /\ ~frames[k].back => Len(frames[k].means) = frames[k].arg

ResultKept == frames # <<>> /\ Top.back /\ Top.kept => machine[X0] = Top.result

ValuesKept ==
  ~done => \A x \in Vars \ lost : env[x] # Unassigned =>
    \E i \in DOMAIN map : /\ map[i].name = x
                          /\ ValueAt(frames, stack, machine, map[i].reg, env[x])

\* What is kept besides the saves: the values.
VInv == IInv /\ MapOnce(map) /\ FramesOk /\ ArgumentsArrive /\ ResultKept /\ ValuesKept

LEMMA RegOfIs ==
  ASSUME NEW m \in Maps, MapOnce(m), NEW i \in DOMAIN m
  PROVE  HasName(m, m[i].name) /\ RegOf(m, m[i].name) = m[i].reg
<1>1. HasName(m, m[i].name)
  BY DEF HasName
<1>2. PICK j \in DOMAIN m : m[j].name = m[i].name /\ RegOf(m, m[i].name) = m[j].reg
  BY <1>1, FoundEntry DEF Maps
<1>. QED
  BY <1>1, <1>2 DEF MapOnce

\* get_register makes an entry for a name that has none.
LEMMA GetIs ==
  ASSUME NEW m \in Maps, MapOnce(m), NEW x, LowLeft(MapAfterGet(m, x))
  PROVE  /\ MapOnce(MapAfterGet(m, x))
         /\ \A i \in DOMAIN m : /\ i \in DOMAIN MapAfterGet(m, x)
                                /\ MapAfterGet(m, x)[i] = m[i]
                                /\ m[i].name # x => m[i].reg # GetRegister(m, x)
         /\ \E i \in DOMAIN MapAfterGet(m, x) :
              /\ MapAfterGet(m, x)[i].name = x
              /\ MapAfterGet(m, x)[i].reg = GetRegister(m, x)
<1>1. CASE HasName(m, x)
  <2>1. PICK i \in DOMAIN m : m[i].name = x /\ RegOf(m, x) = m[i].reg
    BY <1>1, FoundEntry DEF Maps
  <2>2. MapAfterGet(m, x) = m /\ GetRegister(m, x) = RegOf(m, x)
    BY <1>1 DEF MapAfterGet, GetRegister
  <2>. QED
    BY <2>1, <2>2 DEF MapOnce
<1>2. CASE ~HasName(m, x)
  <2>. DEFINE f == FreeIntermediary(m)
              entry == [name |-> x, reg |-> f]
              m2 == Append(m, entry)
  <2>1. MapAfterGet(m, x) = m2 /\ GetRegister(m, x) = f
    BY <1>2 DEF MapAfterGet, GetRegister
  <2>2. /\ DOMAIN m2 = 1 .. Len(m) + 1 /\ DOMAIN m = 1 .. Len(m) /\ Len(m) \in Nat
        /\ m2[Len(m) + 1] = entry /\ \A i \in DOMAIN m : i \in DOMAIN m2 /\ m2[i] = m[i]
    BY DEF Maps
  <2>3. \A i \in DOMAIN m2 : i = Len(m) + 1 \/ i \in DOMAIN m
    BY <2>2
  <2>4. Mapped(m) \subseteq Mapped(m2)
    <3>. HIDE DEF m2
    <3>. QED
      BY <2>2 DEF Mapped
  <2>5. LowLeft(m)
    BY <2>1, <2>4 DEF LowLeft
  <2>6. f \notin Mapped(m)
    BY <2>5, FreeLow
  <2>. HIDE DEF f
  <2>7. entry.name = x /\ entry.reg = f
    OBVIOUS
  <2>. HIDE DEF entry, m2
  <2>8. \A i \in DOMAIN m : m[i].name # x /\ m[i].reg # f
    BY <1>2, <2>6 DEF HasName, Mapped
  <2>9. MapOnce(m2)
    <3>. SUFFICES ASSUME NEW i \in DOMAIN m2, NEW j \in DOMAIN m2,
                         m2[i].name = m2[j].name \/ m2[i].reg = m2[j].reg
                  PROVE  i = j
      BY DEF MapOnce
    <3>. QED
      BY <2>2, <2>3, <2>7, <2>8 DEF MapOnce
  <2>10. Len(m) + 1 \in DOMAIN m2
    BY <2>2
  <2>. QED
    BY <2>1, <2>2, <2>7, <2>8, <2>9, <2>10
<1>. QED
  BY <1>1, <1>2

LEMMA GetOnce ==
  ASSUME NEW m \in Maps, MapOnce(m), NEW x, LowLeft(MapAfterGet(m, x))
  PROVE  MapOnce(MapAfterGet(m, x))
  BY GetIs

LEMMA GetKeeps ==
  ASSUME NEW m \in Maps, MapOnce(m), NEW x, LowLeft(MapAfterGet(m, x)), NEW i \in DOMAIN m
  PROVE  /\ i \in DOMAIN MapAfterGet(m, x)
         /\ MapAfterGet(m, x)[i] = m[i]
         /\ m[i].name # x => m[i].reg # GetRegister(m, x)
  BY GetIs

LEMMA GetEnters ==
  ASSUME NEW m \in Maps, MapOnce(m), NEW x, LowLeft(MapAfterGet(m, x))
  PROVE  \E i \in DOMAIN MapAfterGet(m, x) :
           /\ MapAfterGet(m, x)[i].name = x
           /\ MapAfterGet(m, x)[i].reg = GetRegister(m, x)
  BY GetIs

\* The calls in progress as the lemmas take them.
LEMMA Now ==
  ASSUME IInv
  PROVE  /\ map \in Maps /\ LowLeft(map) /\ InProgress(map, Code, frames) /\ Code \in Codes
         /\ Code.stack = stack /\ Code.machine = machine
         /\ stack \in Seq(Int) /\ machine \in [RegisterNumbers -> Int]
         /\ frames \in Seq(FrameSet) /\ Len(frames) \in Nat /\ DOMAIN frames = 1 .. Len(frames)
         /\ Cnt(frames) \in Areas(Len(frames)) /\ Bas(frames) \in Areas(Len(frames))
         /\ Len(stack) = Height(Len(frames), Cnt(frames), Bas(frames))
         /\ Nested(Len(frames), Cnt(frames), Bas(frames))
         /\ \A i \in DOMAIN map : map[i].name \in Vars /\ map[i].reg \in Low
<1>1. InProgress(map, Code, frames) /\ map \in Maps /\ Code \in Codes
      /\ frames \in Seq(FrameSet) /\ LowLeft(map)
  BY DEF IInv, InProgress
<1>2. Code.stack = stack /\ Code.machine = machine
  BY DEF Code
<1>3. stack \in Seq(Int) /\ machine \in [RegisterNumbers -> Int]
  BY <1>1, <1>2 DEF Codes
<1>4. \A i \in DOMAIN map : map[i] \in Entries
  BY <1>1 DEF Maps
<1>5. \A i \in DOMAIN map : map[i].name \in Vars /\ map[i].reg \in Low
  BY <1>4 DEF Entries
<1>6. /\ Len(stack) = Height(Len(frames), Cnt(frames), Bas(frames))
      /\ Nested(Len(frames), Cnt(frames), Bas(frames))
  BY <1>1, <1>2 DEF InProgress, SaveArea
<1>. QED
  BY <1>1, <1>2, <1>3, <1>5, <1>6, AreasOf

LEMMA Counts ==
  ASSUME IInv, NEW k \in 1 .. Len(frames)
  PROVE  /\ SavedBy(k) = Cnt(frames)[k] /\ Cnt(frames)[k] \in 0 .. MAX_ARGS
         /\ frames[k] \in FrameSet /\ frames[k].arg \in 0 .. MAX_ARGS
         /\ k < Len(frames) => Cnt(frames)[k] = frames[k].arg + 1 /\ ~frames[k].back
         /\ k = Len(frames) => Cnt(frames)[k] = frames[k].arg
<1>1. frames \in Seq(FrameSet) /\ AtArguments(frames) /\ DOMAIN frames = 1 .. Len(frames)
  BY DEF IInv, InProgress
<1>2. frames[k] \in FrameSet /\ frames[k].arg \in 0 .. MAX_ARGS /\ MAX_ARGS \in Nat
  BY <1>1, FrameIn, CallsAssumption
<1>3. Cnt(frames)[k] = (IF k < Len(frames) THEN frames[k].arg + 1 ELSE frames[k].arg)
  BY DEF Cnt
<1>4. CASE k < Len(frames)
  <2>1. frames[k].arg < MAX_ARGS /\ ~frames[k].back
    BY <1>1, <1>4 DEF AtArguments
  <2>. QED
    BY <1>2, <1>3, <1>4, <2>1 DEF SavedBy
<1>5. CASE ~(k < Len(frames))
  BY <1>2, <1>3, <1>5 DEF SavedBy
<1>. QED
  BY <1>4, <1>5

\* Untouched, as the lemmas say it.
LEMMA UntouchedIs ==
  ASSUME IInv, NEW r \in Int
  PROVE  Untouched(r) <=> NoneOver(Len(frames), Cnt(frames), r)
<1>1. \A k \in 1 .. Len(frames) : SavedBy(k) <= r <=> ~Over(Cnt(frames), k, r)
  <2>. SUFFICES ASSUME NEW k \in 1 .. Len(frames)
                PROVE  SavedBy(k) <= r <=> ~Over(Cnt(frames), k, r)
    OBVIOUS
  <2>1. SavedBy(k) = Cnt(frames)[k] /\ Cnt(frames)[k] \in 0 .. MAX_ARGS /\ MAX_ARGS \in Nat
    BY Counts, CallsAssumption
  <2>. QED
    BY <2>1 DEF Over
<1>. QED
  BY <1>1, Now DEF Untouched, NoneOver

\* A variable that is not lost has an entry of its own.
LEMMA EntryOf ==
  ASSUME VInv, ~done, NEW x \in Vars \ lost, env[x] # Unassigned
  PROVE  \E i \in DOMAIN map :
           /\ map[i].name = x /\ map[i].reg \in Low
           /\ HasName(map, x) /\ RegOf(map, x) = map[i].reg
           /\ ValueAt(frames, stack, machine, map[i].reg, env[x])
<1>1. map \in Maps /\ MapOnce(map)
  BY Now DEF VInv
<1>2. PICK i \in DOMAIN map : /\ map[i].name = x
                             /\ ValueAt(frames, stack, machine, map[i].reg, env[x])
  BY DEF VInv, ValuesKept
<1>3. HasName(map, x) /\ RegOf(map, x) = map[i].reg
  BY <1>1, <1>2, RegOfIs
<1>. QED
  BY <1>2, <1>3, Now DEF VInv

\* No call has saved the register.
LEMMA Plain ==
  ASSUME NEW fr, NEW st, NEW mach, NEW r, NEW v, ValueAt(fr, st, mach, r, v),
         NoneOver(Len(fr), Cnt(fr), r)
  PROVE  mach[r] = v
  BY DEF ValueAt, AtX0, NameKept

LEMMA Idles ==
  /\ \A st, mach, r, v : ValueAt(<<>>, st, mach, r, v) <=> mach[r] = v
  /\ \A cnt, r : NoneOver(0, cnt, r)
<1>1. Len(<<>>) = 0 /\ 1..0 = {}
  OBVIOUS
<1>2. \A cnt, r : NoneOver(0, cnt, r)
  BY <1>1 DEF NoneOver
<1>3. ASSUME NEW st, NEW mach, NEW r, NEW v
      PROVE  ValueAt(<<>>, st, mach, r, v) <=> mach[r] = v
  BY <1>1, <1>2 DEF ValueAt, AtX0, NameKept
<1>. QED
  BY <1>2, <1>3

LEMMA VInit == Init => VInv
<1>. SUFFICES ASSUME Init PROVE VInv
  OBVIOUS
<1>1. IInv
  BY InitInv
<1>2. /\ stack = <<>> /\ machine = Entry /\ frames = <<>> /\ done = FALSE /\ lost = {}
  BY DEF Init
<1>3. PICK n \in 0 .. Len(Parameters) :
        /\ map = [i \in 1..n |-> [name |-> Parameters[i], reg |-> i - 1]]
        /\ env = [x \in Vars |-> IF \E i \in 1..n : Parameters[i] = x
                                 THEN Entry[(CHOOSE i \in 1..n : Parameters[i] = x) - 1]
                                 ELSE Unassigned]
  BY DEF Init
<1>4. /\ Parameters \in Seq(Vars)
      /\ \A i, j \in DOMAIN Parameters : Parameters[i] = Parameters[j] => i = j
  BY CallsAssumption
<1>5. /\ DOMAIN map = 1..n /\ \A i \in 1..n : i \in DOMAIN Parameters
      /\ \A i \in 1..n : map[i].name = Parameters[i] /\ map[i].reg = i - 1
  BY <1>3, <1>4
<1>6. MapOnce(map)
  <2>. SUFFICES ASSUME NEW i \in 1..n, NEW j \in 1..n,
                       map[i].name = map[j].name \/ map[i].reg = map[j].reg
                PROVE  i = j
    BY <1>5 DEF MapOnce
  <2>1. CASE map[i].name = map[j].name
    BY <1>4, <1>5, <2>1
  <2>2. CASE map[i].reg = map[j].reg
    BY <1>5, <2>2
  <2>. QED
    BY <2>1, <2>2
<1>7. ValuesKept
  <2>. SUFFICES ASSUME NEW x \in Vars, env[x] # Unassigned
                PROVE  \E i \in DOMAIN map : /\ map[i].name = x
                                             /\ ValueAt(frames, stack, machine, map[i].reg, env[x])
    BY DEF ValuesKept
  <2>. DEFINE k == CHOOSE i \in 1..n : Parameters[i] = x
  <2>1. (\E i \in 1..n : Parameters[i] = x) /\ env[x] = Entry[k - 1]
    BY <1>3
  <2>2. k \in 1..n /\ Parameters[k] = x
    BY <2>1
  <2>. HIDE DEF k
  <2>3. map[k].name = x /\ machine[map[k].reg] = env[x]
    BY <1>2, <1>5, <2>1, <2>2
  <2>. QED
    BY <1>2, <1>5, <2>2, <2>3, Idles
<1>8. FramesOk /\ ArgumentsArrive /\ ResultKept
  BY <1>2 DEF FramesOk, ArgumentsArrive, ResultKept
<1>. QED
  BY <1>1, <1>6, <1>7, <1>8 DEF VInv
-----------------------------------------------------------------------------
\* An assignment of a value in a register, once every other variable is where
\* its entry says.
LEMMA AssignValues ==
  ASSUME VInv, IInv', NEW x \in Targets, NEW c \in Codes, NEW reg \in Low, NEW value \in Int,
         NEW kept \in BOOLEAN, Assign(map, x, c, reg, value, kept), frames' = <<>>,
         kept => c.machine[reg] = value,
         x # Ret => \A y \in Vars \ lost : env[y] # Unassigned /\ y # x =>
                      \E i \in DOMAIN map : /\ map[i].name = y
                                            /\ c.machine[map[i].reg] = env[y]
  PROVE  VInv'
<1>. DEFINE dest == TargetReg(map, x)
            moved == IF dest = reg THEN c ELSE Move(c, dest, reg)
<1>1. FramesOk' /\ ArgumentsArrive' /\ ResultKept'
  BY DEF FramesOk, ArgumentsArrive, ResultKept
<1>2. /\ LowLeft(TargetMap(map, x)) /\ map' = TargetMap(map, x)
      /\ CodeIs(IF x = Ret THEN Emit(moved, moved.stack, moved.machine, 1) ELSE moved)
      /\ done' = (x = Ret)
      /\ env' = (IF x = Ret THEN env ELSE [env EXCEPT ![x] = value])
      /\ lost' = IF kept THEN lost \ {x} ELSE lost \cup ({x} \cap Vars)
  BY DEF Assign
<1>3. map \in Maps /\ MapOnce(map) /\ env \in [Vars -> Int]
  BY Now DEF VInv, IInv
<1>4. CASE x = Ret
  BY <1>1, <1>2, <1>3, <1>4 DEF VInv, ValuesKept, TargetMap
<1>5. CASE x # Ret
  <2>1. /\ map' = MapAfterGet(map, x) /\ dest = GetRegister(map, x) /\ CodeIs(moved)
        /\ LowLeft(MapAfterGet(map, x)) /\ x \in Vars
        /\ env' = [env EXCEPT ![x] = value]
    BY <1>2, <1>5 DEF TargetMap, TargetReg, Targets
  <2>2. /\ MapOnce(map')
        /\ \A i \in DOMAIN map : /\ i \in DOMAIN map' /\ map'[i] = map[i]
                                 /\ map[i].name # x => map[i].reg # dest
        /\ \E i \in DOMAIN map' : map'[i].name = x /\ map'[i].reg = dest
    <3>1. MapOnce(MapAfterGet(map, x))
      BY <1>3, <2>1, GetOnce
    <3>2. ASSUME NEW i \in DOMAIN map
          PROVE  /\ i \in DOMAIN MapAfterGet(map, x) /\ MapAfterGet(map, x)[i] = map[i]
                 /\ map[i].name # x => map[i].reg # GetRegister(map, x)
      BY <1>3, <2>1, GetKeeps
    <3>3. \E i \in DOMAIN MapAfterGet(map, x) : /\ MapAfterGet(map, x)[i].name = x
                                                /\ MapAfterGet(map, x)[i].reg = GetRegister(map, x)
      BY <1>3, <2>1, GetEnters
    <3>. HIDE DEF dest
    <3>. QED
      BY <2>1, <3>1, <3>2, <3>3, Zenon
  <2>3. dest \in RegisterNumbers /\ reg \in RegisterNumbers
    BY <1>3, <2>1, GetLow, Ranges
  <2>4. /\ moved.machine[dest] = c.machine[reg]
        /\ \A r \in RegisterNumbers : r # dest => moved.machine[r] = c.machine[r]
    <3>. HIDE DEF dest
    <3>1. CASE dest = reg
      BY <3>1
    <3>2. CASE dest # reg
      <4>1. moved = Move(c, dest, reg)
        BY <3>2
      <4>2. Move(c, dest, reg).machine = [c.machine EXCEPT ![dest] = c.machine[reg]]
        BY <2>3, MoveIs
      <4>3. c.machine \in [RegisterNumbers -> Int]
        BY DEF Codes
      <4>. QED
        BY <2>3, <4>1, <4>2, <4>3
    <3>. QED
      BY <3>1, <3>2
  <2>. HIDE DEF dest, moved
  <2>5. machine' = moved.machine
    BY <2>1 DEF CodeIs
  <2>6. ValuesKept'
    <3>. SUFFICES ASSUME NEW y \in Vars \ lost', env'[y] # Unassigned
                  PROVE  \E i \in DOMAIN map' : /\ map'[i].name = y
                                                /\ machine'[map'[i].reg] = env'[y]
      BY Idles DEF ValuesKept
    <3>1. CASE y = x
      <4>1. kept /\ env'[x] = value
        BY <1>2, <1>3, <2>1, <3>1
      <4>. QED
        BY <2>2, <2>4, <2>5, <3>1, <4>1
    <3>2. CASE y # x
      <4>1. y \in Vars \ lost /\ env'[y] = env[y]
        BY <1>2, <1>3, <2>1, <3>2
      <4>2. PICK i \in DOMAIN map : map[i].name = y /\ c.machine[map[i].reg] = env[y]
        BY <1>5, <3>2, <4>1
      <4>3. map[i].reg \in RegisterNumbers
        BY Now, Ranges DEF VInv
      <4>. QED
        BY <2>2, <2>4, <2>5, <3>2, <4>1, <4>2, <4>3
    <3>. QED
      BY <3>1, <3>2
  <2>. QED
    BY <1>1, <2>2, <2>6 DEF VInv
<1>. QED
  BY <1>4, <1>5

\* Between two statements every variable is where its entry says.
LEMMA IdleValues ==
  ASSUME VInv, ~done, frames = <<>>, NEW x \in Vars \ lost, env[x] # Unassigned
  PROVE  \E i \in DOMAIN map : /\ map[i].name = x /\ map[i].reg \in Low
                               /\ RegOf(map, x) = map[i].reg /\ HasName(map, x)
                               /\ machine[map[i].reg] = env[x]
  BY EntryOf, Idles

LEMMA PutAt ==
  ASSUME NEW c \in Codes, NEW reg \in RegisterNumbers, NEW v \in Int
  PROVE  /\ Put(c, reg, v) \in Codes /\ Put(c, reg, v).stack = c.stack
         /\ Put(c, reg, v).machine[reg] = v
         /\ \A r \in RegisterNumbers : r # reg => Put(c, reg, v).machine[r] = c.machine[r]
<1>1. /\ Put(c, reg, v) \in Codes /\ Put(c, reg, v).stack = c.stack
      /\ Put(c, reg, v).machine = [c.machine EXCEPT ![reg] = v]
  BY PutIs
<1>2. c.machine \in [RegisterNumbers -> Int]
  BY DEF Codes
<1>. QED
  BY <1>1, <1>2

LEMMA ValuesAssign ==
  ASSUME VInv, IInv',
         \/ \E x \in Targets, v \in Ints : AssignInt(x, v)
         \/ \E x \in Targets, v \in Larges : AssignLarge(x, v)
         \/ \E x \in Targets, y \in Vars : AssignName(x, y)
  PROVE  VInv'
<1>1. /\ map \in Maps /\ MapOnce(map) /\ LowLeft(map) /\ Code \in Codes
      /\ Code.machine = machine /\ machine \in [RegisterNumbers -> Int]
  BY Now DEF VInv
<1>2. ASSUME NEW c \in Codes, NEW reg \in Low, NEW v \in Int, c = Put(Code, reg, v)
      PROVE  /\ c.machine[reg] = v
             /\ \A r \in Low : r # reg => c.machine[r] = machine[r]
  <2>1. reg \in RegisterNumbers /\ \A r \in Low : r \in RegisterNumbers
    BY Ranges
  <2>. QED
    BY <1>1, <1>2, <2>1, PutAt
<1>3. ASSUME NEW x \in Targets, NEW v \in Ints, AssignInt(x, v) PROVE VInv'
  <2>. DEFINE dest == TargetReg(map, x)
              c == Put(Code, dest, v)
  <2>1. /\ frames = <<>> /\ frames' = <<>> /\ ~done
        /\ Assign(map, x, c, dest, v, TRUE)
    BY <1>3 DEF AssignInt, Idle, Compiling
  <2>2. LowLeft(TargetMap(map, x))
    BY <2>1 DEF Assign
  <2>3. dest \in Low
    BY <1>1, <2>2, GetLow, Ranges DEF TargetMap, TargetReg, Targets
  <2>4. v \in Int /\ dest \in RegisterNumbers
    BY <2>3, IntsIn, Ranges
  <2>5. x # Ret => \A i \in DOMAIN map : map[i].name # x => map[i].reg # dest
    <3>. SUFFICES ASSUME x # Ret, NEW i \in DOMAIN map, map[i].name # x
                  PROVE  map[i].reg # dest
      OBVIOUS
    <3>1. LowLeft(MapAfterGet(map, x)) /\ dest = GetRegister(map, x)
      BY <2>2 DEF TargetMap, TargetReg
    <3>2. map[i].reg # GetRegister(map, x)
      BY <1>1, <3>1, GetKeeps
    <3>. QED
      BY <3>1, <3>2
  <2>. HIDE DEF dest
  <2>6. c \in Codes
    BY <1>1, <2>4, PutIs
  <2>7. c.machine[dest] = v /\ \A r \in Low : r # dest => c.machine[r] = machine[r]
    BY <1>2, <2>3, <2>4, <2>6
  <2>. HIDE DEF c
  <2>8. x # Ret => \A y \in Vars \ lost : env[y] # Unassigned /\ y # x =>
          \E i \in DOMAIN map : map[i].name = y /\ c.machine[map[i].reg] = env[y]
    BY <2>1, <2>5, <2>7, IdleValues
  <2>. QED
    BY <2>1, <2>3, <2>4, <2>6, <2>7, <2>8, AssignValues
<1>4. ASSUME NEW x \in Targets, NEW v \in Larges, AssignLarge(x, v) PROVE VInv'
  <2>. DEFINE reg == FreeIntermediary(map)
              c == Put(Code, reg, v)
  <2>1. /\ frames = <<>> /\ frames' = <<>> /\ ~done
        /\ Assign(map, x, c, reg, v, TRUE)
    BY <1>4 DEF AssignLarge, Idle, Compiling
  <2>2. reg \in Low /\ \A i \in DOMAIN map : map[i].reg # reg
    BY <1>1, FreeLow DEF Mapped
  <2>3. v \in Int /\ reg \in RegisterNumbers
    BY <2>2, IntsIn, Ranges
  <2>. HIDE DEF reg
  <2>4. c \in Codes
    BY <1>1, <2>3, PutIs
  <2>5. c.machine[reg] = v /\ \A r \in Low : r # reg => c.machine[r] = machine[r]
    BY <1>2, <2>2, <2>3, <2>4
  <2>. HIDE DEF c
  <2>6. \A y \in Vars \ lost : env[y] # Unassigned =>
          \E i \in DOMAIN map : map[i].name = y /\ c.machine[map[i].reg] = env[y]
    BY <2>1, <2>2, <2>5, IdleValues
  <2>. QED
    BY <2>1, <2>2, <2>3, <2>4, <2>5, <2>6, AssignValues
<1>5. ASSUME NEW x \in Targets, NEW y \in Vars, AssignName(x, y) PROVE VInv'
  <2>1. /\ frames = <<>> /\ frames' = <<>> /\ ~done /\ HasName(map, y) /\ env[y] # Unassigned
        /\ Assign(map, x, Code, RegOf(map, y), env[y], y \notin lost)
    BY <1>5 DEF AssignName, Idle, Readable, Compiling
  <2>2. RegOf(map, y) \in Low /\ env[y] \in Int /\ (y \notin lost) \in BOOLEAN
    BY <1>1, <2>1, NameLow DEF VInv, IInv
  <2>3. y \notin lost => Code.machine[RegOf(map, y)] = env[y]
    BY <1>1, <2>1, IdleValues
  <2>4. \A z \in Vars \ lost : env[z] # Unassigned =>
          \E i \in DOMAIN map : map[i].name = z /\ Code.machine[map[i].reg] = env[z]
    BY <1>1, <2>1, IdleValues
  <2>. QED
    BY <1>1, <2>1, <2>2, <2>3, <2>4, AssignValues
<1>. QED
  BY <1>3, <1>4, <1>5
-----------------------------------------------------------------------------
\* An argument that is no call: other is the register its evaluation has used.
LEMMA ArgumentValues ==
  ASSUME VInv, IInv', TakesArgument, NEW other \in Low,
         other = Top.arg \/ other \notin Mapped(map),
         NEW areg \in RegisterNumbers, NEW value \in Int, NEW sound \in BOOLEAN,
         stack' = Append(stack, machine[SavedBase + Top.arg]),
         machine'[SavedBase + Top.arg] = machine[Top.arg],
         \A r \in RegisterNumbers :
           r # Top.arg /\ r # other /\ r # SavedBase + Top.arg => machine'[r] = machine[r],
         sound => other >= Top.arg /\ machine'[Top.arg] = value,
         frames' = WithTop(Taken(Top, areg, value, sound)),
         UNCHANGED <<map, done, env, lost>>
  PROVE  VInv'
<1>. DEFINE n == Len(frames)
            f == Taken(Top, areg, value, sound)
            cnt == Cnt(frames)
            base == Bas(frames)
            cnt2 == [cnt EXCEPT ![n] = @ + 1]
            arg == Top.arg
<1>1. /\ frames # <<>> /\ ~Top.back /\ Top.arg < MAX_ARGS /\ ~done
  BY DEF TakesArgument, Compiling
<1>2. /\ frames \in Seq(FrameSet) /\ n \in Nat \ {0} /\ n \in 1..n /\ DOMAIN frames = 1..n
      /\ AtArguments(frames)
  BY <1>1, Now DEF VInv, IInv, InProgress
<1>3. /\ Top \in FrameSet /\ arg \in 0 .. MAX_ARGS - 1 /\ cnt[n] = arg
      /\ arg \in Low /\ arg \in Nat /\ arg + SavedBase \in RegisterNumbers
  <2>1. Top \in FrameSet /\ Top.arg \in 0 .. MAX_ARGS /\ cnt[n] = Top.arg
    BY <1>2, Counts DEF VInv, Top
  <2>2. arg \in 0 .. MAX_ARGS - 1
    BY <1>1, <2>1, CallsAssumption
  <2>. QED
    BY <2>1, <2>2, Ranges
<1>4. /\ f.arg = arg + 1 /\ ~f.back /\ f.kept /\ f.means = Append(Top.means, value)
      /\ f.sound = (Top.sound /\ sound)
      /\ f \in FrameSet /\ f.base = Top.base
  BY <1>1, <1>3, TakenIn DEF Taken
<1>5. Top.means \in Seq(Int) /\ Len(Top.means) = arg
  BY <1>1, <1>2, <1>3 DEF VInv, FramesOk, FrameSet, Top
<1>6. /\ frames' = [frames EXCEPT ![n] = f] /\ Len(frames') = n /\ DOMAIN frames' = 1..n
      /\ frames'[n] = f /\ \A k \in 1..n : k # n => frames'[k] = frames[k]
  <2>1. frames' = [frames EXCEPT ![n] = f]
    BY DEF WithTop
  <2>. HIDE DEF f, n
  <2>. QED
    BY <1>2, <1>4, <2>1
<1>7. /\ Cnt(frames') = cnt2 /\ Bas(frames') = base
  <2>3. /\ Bas([frames EXCEPT ![n] = f]) = base
        /\ Cnt([frames EXCEPT ![n] = f]) = [cnt EXCEPT ![n] = f.arg]
    <3>. HIDE DEF f
    <3>. QED
      BY <1>1, <1>2, <1>4, TopReplaced DEF Top
  <2>. QED
    BY <1>3, <1>4, <1>6, <2>3
<1>8. /\ SavedBase \in Nat /\ MAX_ARGS \in Nat
      /\ \A r \in Low : r \in RegisterNumbers /\ r \in Nat /\ r < SavedBase
  <2>1. SavedBase \in Nat /\ MAX_ARGS \in Nat
    BY CallsAssumption
  <2>2. \A r \in Low : r \in Nat /\ r < SavedBase
    BY <2>1 DEF Low
  <2>. QED
    BY <2>1, <2>2, Ranges
<1>. HIDE DEF f, n
<1>9. FramesOk' /\ ResultKept'
  <2>1. ASSUME NEW k \in 1..n
        PROVE  /\ frames'[k].kept \/ (frames'[k].back /\ frames'[k].arg = 0)
               /\ ~frames'[k].back => Len(frames'[k].means) = frames'[k].arg
    <3>1. CASE k = n
      BY <1>3, <1>4, <1>5, <1>6, <3>1
    <3>2. CASE k # n
      BY <1>2, <1>6, <3>2 DEF VInv, FramesOk
    <3>. QED
      BY <3>1, <3>2
  <2>2. Top' = f
    BY <1>6 DEF Top
  <2>. QED
    BY <1>4, <1>6, <2>1, <2>2 DEF FramesOk, ResultKept
<1>10. ArgumentsArrive'
  <2>. SUFFICES ASSUME f.sound, NEW i \in DOMAIN f.means PROVE machine'[i - 1] = f.means[i]
    BY <1>6 DEF ArgumentsArrive, Top
  <2>1. Top.sound /\ sound /\ i \in 1 .. arg + 1
    <3>1. DOMAIN Append(Top.means, value) = 1 .. arg + 1
      BY <1>5
    <3>. QED
      BY <1>4, <3>1
  <2>2. CASE i = arg + 1
    BY <1>3, <1>4, <1>5, <2>1, <2>2
  <2>3. CASE i # arg + 1
    <3>1. i \in DOMAIN Top.means /\ f.means[i] = Top.means[i]
      BY <1>3, <1>4, <1>5, <2>1, <2>3
    <3>2. machine[i - 1] = Top.means[i]
      BY <1>1, <2>1, <3>1 DEF VInv, ArgumentsArrive
    <3>3. i - 1 \in Low /\ i - 1 < arg
      <4>1. i - 1 \in Nat /\ i - 1 < arg
        BY <1>3, <2>1, <2>3
      <4>2. arg < SavedBase
        BY <1>3, <1>8
      <4>. QED
        BY <1>3, <1>8, <4>1, <4>2 DEF Low
    <3>4. other \in Int /\ i - 1 # arg /\ i - 1 # other /\ i - 1 # SavedBase + arg
      BY <1>3, <1>8, <2>1, <3>3
    <3>. QED
      BY <1>8, <3>1, <3>2, <3>3, <3>4
  <2>. QED
    BY <2>2, <2>3
<1>11. ASSUME NEW i \in DOMAIN map, NEW v, ValueAt(frames, stack, machine, map[i].reg, v)
       PROVE  ValueAt(frames', stack', machine', map[i].reg, v)
  <2>. DEFINE r == map[i].reg
  <2>1. /\ r \in Low /\ r \in Nat /\ r \in RegisterNumbers /\ (r # arg => r # other)
        /\ r < SavedBase
    BY <1>8, Now DEF VInv, Mapped
  <2>2. cnt \in Areas(n) /\ base \in Areas(n) /\ stack \in Seq(Int)
        /\ Len(stack) = Height(n, cnt, base) /\ Nested(n, cnt, base)
        /\ machine[SavedBase + arg] \in Int
    <3>1. SavedBase + arg \in RegisterNumbers
      BY <1>3, <1>8
    <3>2. machine \in [RegisterNumbers -> Int]
      BY Now DEF VInv
    <3>. QED
      BY <3>1, <3>2, Now DEF VInv, n
  <2>. HIDE DEF r
  <2>3. cnt2[n] = arg + 1 /\ Over(cnt2, n, X0)
    BY <1>2, <1>3, <2>2 DEF Areas, Over, X0, n
  <2>4. r # arg => /\ NoneOver(n, cnt, r) => machine'[r] = machine[r]
                   /\ ~NoneOver(n, cnt, r) =>
                        machine'[SavedBase + r] = machine[SavedBase + r]
    <3>1. ASSUME r # arg, ~NoneOver(n, cnt, r)
          PROVE  machine'[SavedBase + r] = machine[SavedBase + r]
      <4>1. PICK k \in 1..n : Over(cnt, k, r)
        BY <3>1 DEF NoneOver
      <4>2. cnt[k] \in 0 .. MAX_ARGS
        BY Counts DEF VInv, n
      <4>3. r \in 0 .. MAX_ARGS - 1
        BY <1>8, <2>1, <4>1, <4>2 DEF Over
      <4>4. SavedBase + r \in RegisterNumbers
        BY <1>8, <2>1, <4>3, Ranges
      <4>5. /\ SavedBase + r # arg /\ SavedBase + r # other
            /\ SavedBase + r # SavedBase + arg
        BY <1>3, <1>8, <2>1, <3>1
      <4>. QED
        BY <4>4, <4>5
    <3>2. ASSUME r # arg PROVE machine'[r] = machine[r]
      <4>1. r # SavedBase + arg
        BY <1>3, <1>8, <2>1
      <4>. QED
        BY <2>1, <3>2, <4>1
    <3>. QED
      BY <3>1, <3>2
  <2>5. CASE r = X0
    <3>1. AtX0(n, cnt, frames, machine, v)
      BY <1>11, <2>5 DEF ValueAt, n, r
    <3>2. AtX0(n, cnt2, frames', machine', v)
      <4>1. \A k \in 1..n : k < n => frames'[k].arg = 0
        BY <1>2, <1>6, <3>1 DEF AtX0
      <4>2. ~NoneOver(n, cnt2, X0) /\ frames'[n].arg # 0
        BY <1>2, <1>3, <1>4, <1>6, <2>3 DEF NoneOver, n
      <4>3. CASE arg = 0
        <5>1. machine[X0] = v
          BY <1>1, <1>2, <3>1, <4>3 DEF AtX0, Top, n
        <5>. QED
          BY <1>8, <4>1, <4>2, <4>3, <5>1 DEF AtX0, X0
      <4>4. CASE arg # 0
        <5>1. Over(cnt, n, X0)
          BY <1>3, <4>4 DEF Over, X0
        <5>2. ~NoneOver(n, cnt, X0)
          BY <1>2, <5>1 DEF NoneOver, n
        <5>3. machine'[SavedBase + r] = machine[SavedBase + r] /\ SavedBase + r = SavedBase
          BY <1>8, <2>4, <2>5, <4>4, <5>2 DEF X0
        <5>. QED
          BY <3>1, <4>1, <4>2, <5>2, <5>3 DEF AtX0
      <4>. QED
        BY <4>3, <4>4
    <3>. QED
      BY <1>6, <1>7, <2>5, <3>2 DEF ValueAt, r
  <2>6. CASE r # X0
    <3>1. NameKept(n, cnt, base, stack, machine, r, v)
      BY <1>11, <2>6 DEF ValueAt, n, r
    <3>. HIDE DEF cnt, base, arg
    <3>2. /\ stack' = Append(stack, machine[SavedBase + cnt[n]])
          /\ machine[SavedBase + cnt[n]] \in Int
          /\ r = cnt[n] => machine'[SavedBase + r] = machine[r]
          /\ r # cnt[n] => /\ NoneOver(n, cnt, r) => machine'[r] = machine[r]
                           /\ ~NoneOver(n, cnt, r) =>
                                machine'[SavedBase + r] = machine[SavedBase + r]
      BY <1>3, <2>2, <2>4 DEF arg
    <3>3. NameKept(n, cnt2, base, Append(stack, machine[SavedBase + cnt[n]]), machine', r, v)
      BY <1>2, <2>1, <2>2, <3>1, <3>2, KeptSave DEF n
    <3>. QED
      BY <1>6, <1>7, <2>6, <3>2, <3>3 DEF ValueAt, r
  <2>. QED
    BY <2>5, <2>6
<1>12. ValuesKept'
  BY <1>11 DEF VInv, ValuesKept
<1>. QED
  BY <1>9, <1>10, <1>12 DEF VInv

LEMMA PutArgumentAt ==
  ASSUME NEW c \in Codes, NEW arg \in RegisterNumbers, NEW arg_reg, NEW v \in Int
  PROVE  /\ PutArgument(c, arg, arg_reg, v).stack = c.stack
         /\ \A r \in RegisterNumbers : r # arg =>
              PutArgument(c, arg, arg_reg, v).machine[r] = c.machine[r]
         /\ arg_reg # arg => PutArgument(c, arg, arg_reg, v).machine[arg] = v
         /\ arg_reg = arg => PutArgument(c, arg, arg_reg, v).machine[arg] = c.machine[arg]
<1>1. CASE arg_reg = arg
  <2>1. PutArgument(c, arg, arg_reg, v) = [c EXCEPT !.line = @ + 1]
    BY <1>1 DEF PutArgument
  <2>2. /\ [c EXCEPT !.line = @ + 1].machine = c.machine
        /\ [c EXCEPT !.line = @ + 1].stack = c.stack
    BY DEF Codes
  <2>. QED
    BY <1>1, <2>1, <2>2
<1>2. CASE arg_reg # arg
  <2>1. PutArgument(c, arg, arg_reg, v) = Put(c, arg, v)
    BY <1>2 DEF PutArgument
  <2>. QED
    BY <1>2, <2>1, PutAt
<1>. QED
  BY <1>1, <1>2

\* What saving the register of the next argument leaves.
LEMMA SavedNow ==
  ASSUME VInv, TakesArgument
  PROVE  /\ Save(map, Code, Top.arg) \in Codes /\ Top.arg \in Low /\ Top.arg \in RegisterNumbers
         /\ Save(map, Code, Top.arg).stack = Append(stack, machine[SavedBase + Top.arg])
         /\ Save(map, Code, Top.arg).machine[SavedBase + Top.arg] = machine[Top.arg]
         /\ \A r \in RegisterNumbers : r # SavedBase + Top.arg =>
              Save(map, Code, Top.arg).machine[r] = machine[r]
         /\ Top.arg \in Nat /\ SavedBase \in Nat /\ SavedBase + Top.arg \in RegisterNumbers
         /\ \A r \in Low : r # SavedBase + Top.arg /\ r \in RegisterNumbers /\ r \in Int
<1>1. InProgress(map, Code, frames) /\ frames # <<>> /\ Top.arg < MAX_ARGS
      /\ Code \in Codes /\ Code.stack = stack /\ Code.machine = machine
  BY Now DEF VInv, TakesArgument
<1>2. Top \in FrameSet /\ Len(Code.stack) > 0
  BY <1>1, StackThere DEF Top
<1>3. Top.arg \in 0 .. MAX_ARGS /\ MAX_ARGS \in Nat /\ SavedBase \in Nat
  BY <1>2, CallsAssumption DEF FrameSet
<1>4. Top.arg \in 0 .. MAX_ARGS - 1 /\ Top.arg \in Nat
  BY <1>1, <1>3
<1>5. /\ Top.arg \in Low /\ Top.arg + SavedBase \in RegisterNumbers
      /\ \A r \in Low : r \in RegisterNumbers
  BY <1>4, Ranges
<1>6. SavedBase + Top.arg \in RegisterNumbers /\ SavedBase + Top.arg \notin Low
  BY <1>3, <1>4, <1>5 DEF Low
<1>7. \A r \in Low : r \in Int
  BY DEF Low
<1>. DEFINE arg == Top.arg
            saved == Save(map, Code, arg)
<1>8. /\ saved \in Codes /\ saved.stack = Append(stack, machine[SavedBase + arg])
      /\ saved.machine[SavedBase + arg] = machine[arg]
      /\ \A r \in RegisterNumbers : r # SavedBase + arg => saved.machine[r] = machine[r]
  <2>1. arg \in 0 .. MAX_ARGS - 1
    BY <1>4
  <2>. HIDE DEF arg
  <2>. QED
    BY <1>1, <1>2, <2>1, SaveIs, SaveMoves
<1>. HIDE DEF saved
<1>9. \A r \in Low : r # SavedBase + Top.arg /\ r \in RegisterNumbers /\ r \in Int
  BY <1>5, <1>6, <1>7
<1>. QED
  BY <1>3, <1>4, <1>5, <1>6, <1>8, <1>9 DEF saved

LEMMA ValuesArgumentInt ==
  ASSUME VInv, IInv', NEW v \in Ints, ArgumentInt(v)
  PROVE  VInv'
<1>. DEFINE saved == Save(map, Code, Top.arg)
            c2 == PutArgument(saved, Top.arg, Top.arg_reg, v)
<1>1. /\ TakesArgument /\ CodeIs(c2)
      /\ frames' = WithTop(Taken(Top, Top.arg_reg, v, Top.arg_reg # Top.arg))
      /\ UNCHANGED <<map, done, env, lost>>
  BY DEF ArgumentInt
<1>2. v \in Int /\ Top.arg_reg \in RegisterNumbers /\ (Top.arg_reg # Top.arg) \in BOOLEAN
  BY <1>1, IntsIn, Saving DEF VInv, FrameSet
<1>3. /\ c2.stack = saved.stack
      /\ \A r \in RegisterNumbers : r # Top.arg => c2.machine[r] = saved.machine[r]
      /\ Top.arg_reg # Top.arg => c2.machine[Top.arg] = v
  BY <1>1, <1>2, SavedNow, PutArgumentAt
<1>4. stack' = c2.stack /\ machine' = c2.machine
  BY <1>1 DEF CodeIs
<1>. HIDE DEF c2
<1>5. /\ stack' = Append(stack, machine[SavedBase + Top.arg])
      /\ machine'[SavedBase + Top.arg] = machine[Top.arg]
      /\ \A r \in RegisterNumbers :
           r # Top.arg /\ r # SavedBase + Top.arg => machine'[r] = machine[r]
      /\ Top.arg_reg # Top.arg => Top.arg >= Top.arg /\ machine'[Top.arg] = v
      /\ Top.arg \in Low
  BY <1>1, <1>3, <1>4, SavedNow
<1>. QED
  BY <1>1, <1>2, <1>5, ArgumentValues

LEMMA ValuesArgumentLarge ==
  ASSUME VInv, IInv', NEW v \in Larges, ArgumentLarge(v)
  PROVE  VInv'
<1>. DEFINE reg == FreeIntermediary(map)
            saved == Save(map, Code, Top.arg)
            loaded == Put(saved, reg, v)
            c2 == PutArgument(loaded, Top.arg, reg, v)
<1>1. /\ TakesArgument /\ CodeIs(c2)
      /\ frames' = WithTop(Taken(Top, reg, v, reg >= Top.arg))
      /\ UNCHANGED <<map, done, env, lost>>
  BY DEF ArgumentLarge
<1>2. LowLeft(map) /\ saved \in Codes
  BY <1>1, Saving DEF VInv
<1>3. v \in Int /\ reg \in Low /\ reg \in RegisterNumbers /\ reg \notin Mapped(map)
      /\ (reg >= Top.arg) \in BOOLEAN
  BY <1>2, IntsIn, FreeLow, Ranges
<1>. HIDE DEF reg
<1>4. /\ loaded \in Codes /\ loaded.stack = saved.stack /\ loaded.machine[reg] = v
      /\ \A r \in RegisterNumbers : r # reg => loaded.machine[r] = saved.machine[r]
  BY <1>2, <1>3, PutAt
<1>. HIDE DEF loaded
<1>5. /\ c2.stack = loaded.stack
      /\ \A r \in RegisterNumbers : r # Top.arg => c2.machine[r] = loaded.machine[r]
      /\ c2.machine[Top.arg] = v
  BY <1>1, <1>3, <1>4, SavedNow, PutArgumentAt
<1>6. stack' = c2.stack /\ machine' = c2.machine
  BY <1>1 DEF CodeIs
<1>. HIDE DEF c2
<1>7. /\ stack' = Append(stack, machine[SavedBase + Top.arg])
      /\ machine'[SavedBase + Top.arg] = machine[Top.arg]
      /\ \A r \in RegisterNumbers :
           r # Top.arg /\ r # reg /\ r # SavedBase + Top.arg => machine'[r] = machine[r]
      /\ machine'[Top.arg] = v
  BY <1>1, <1>3, <1>4, <1>5, <1>6, SavedNow
<1>. QED
  BY <1>1, <1>3, <1>7, ArgumentValues

LEMMA ValuesArgumentName ==
  ASSUME VInv, IInv', NEW y \in Vars, ArgumentName(y)
  PROVE  VInv'
<1>. DEFINE reg == RegOf(map, y)
            saved == Save(map, Code, Top.arg)
            v == saved.machine[reg]
            c2 == PutArgument(saved, Top.arg, reg, v)
            sound == Untouched(reg) /\ y \notin lost
<1>1. /\ TakesArgument /\ HasName(map, y) /\ env[y] # Unassigned /\ ~done /\ CodeIs(c2)
      /\ frames' = WithTop(Taken(Top, reg, env[y], sound))
      /\ UNCHANGED <<map, done, env, lost>>
  BY DEF ArgumentName, Readable, TakesArgument, Compiling
<1>2. saved \in Codes /\ map \in Maps /\ env[y] \in Int
  BY <1>1, Saving DEF VInv, IInv
<1>3. reg \in Low /\ reg \in RegisterNumbers /\ sound \in BOOLEAN
  BY <1>1, <1>2, NameLow, Ranges
<1>4. v \in Int
  BY <1>2, <1>3 DEF Codes
<1>5. ASSUME sound PROVE reg >= Top.arg /\ machine[reg] = env[y]
  <2>1. /\ frames # <<>> /\ Len(frames) \in Nat /\ DOMAIN frames = 1 .. Len(frames)
        /\ frames \in Seq(FrameSet)
    BY <1>1, Now DEF VInv, TakesArgument
  <2>2. Len(frames) \in 1 .. Len(frames)
    BY <2>1
  <2>3. SavedBy(Len(frames)) = Top.arg
    BY <2>2, Counts DEF VInv, Top
  <2>4. NoneOver(Len(frames), Cnt(frames), reg)
    <3>1. reg \in Int
      BY <1>3 DEF Low
    <3>. HIDE DEF reg
    <3>. QED
      BY <1>5, <3>1, UntouchedIs DEF VInv
  <2>5. PICK i \in DOMAIN map : /\ reg = map[i].reg
                                /\ ValueAt(frames, stack, machine, map[i].reg, env[y])
    BY <1>1, <1>5, EntryOf
  <2>6. machine[reg] = env[y]
    BY <2>4, <2>5, Plain
  <2>7. Top.arg <= reg
    BY <1>5, <2>1, <2>2, <2>3 DEF Untouched
  <2>8. Top.arg \in Int /\ reg \in Int
    BY <1>1, <1>3, SavedNow
  <2>. HIDE DEF reg
  <2>. QED
    BY <2>6, <2>7, <2>8
<1>. HIDE DEF reg, sound
<1>6. /\ c2.stack = saved.stack
      /\ \A r \in RegisterNumbers : r # Top.arg => c2.machine[r] = saved.machine[r]
      /\ c2.machine[Top.arg] = v
  BY <1>1, <1>2, <1>3, <1>4, SavedNow, PutArgumentAt
<1>7. stack' = c2.stack /\ machine' = c2.machine
  BY <1>1 DEF CodeIs
<1>. HIDE DEF c2
<1>8. /\ stack' = Append(stack, machine[SavedBase + Top.arg])
      /\ machine'[SavedBase + Top.arg] = machine[Top.arg]
      /\ \A r \in RegisterNumbers :
           r # Top.arg /\ r # SavedBase + Top.arg => machine'[r] = machine[r]
      /\ machine'[Top.arg] = machine[reg] /\ Top.arg \in Low
      /\ Top.arg >= Top.arg
  BY <1>1, <1>3, <1>6, <1>7, SavedNow
<1>. QED
  BY <1>1, <1>2, <1>3, <1>5, <1>8, ArgumentValues

\* A register that a call has saved is one of the first.
LEMMA OverLow ==
  ASSUME NEW n \in Nat, NEW cnt, \A k \in 1..n : cnt[k] \in 0 .. MAX_ARGS,
         NEW r \in Nat, ~NoneOver(n, cnt, r)
  PROVE  /\ SavedBase + r \in RegisterNumbers /\ SavedBase + r # RP
         /\ SavedBase + r \notin Low
<1>1. PICK k \in 1..n : r < cnt[k]
  BY DEF NoneOver, Over
<1>2. MAX_ARGS \in Nat /\ SavedBase \in Nat
  BY CallsAssumption
<1>3. r \in 0 .. MAX_ARGS - 1
  BY <1>1, <1>2
<1>4. r + SavedBase = SavedBase + r
  BY <1>2
<1>. QED
  BY <1>3, <1>4, Ranges

LEMMA ValuesBegin ==
  ASSUME VInv, IInv', NEW x \in Targets, NEW garbage \in RegisterNumbers, BeginCall(x, garbage)
  PROVE  VInv'
<1>. DEFINE f == NewFrame(garbage, Len(stack))
<1>1. /\ frames = <<>> /\ CodeIs(Begin(Code)) /\ frames' = << f >> /\ ~done
      /\ UNCHANGED <<map, done, env, lost>>
  BY DEF BeginCall, Idle, Compiling
<1>2. f.arg = 0 /\ ~f.back /\ f.kept /\ f.means = <<>>
  BY DEF NewFrame
<1>. HIDE DEF f
<1>3. \A r \in RegisterNumbers : r # RP => machine'[r] = machine[r]
  <2>1. Code \in Codes /\ Code.machine = machine
    BY Now DEF VInv
  <2>2. machine' = Begin(Code).machine
    BY <1>1 DEF CodeIs
  <2>. QED
    BY <2>1, <2>2, BeginIs
<1>4. /\ Len(<< f >>) = 1 /\ << f >>[1] = f /\ DOMAIN << f >> = {1} /\ 1..1 = {1}
  OBVIOUS
<1>5. FramesOk' /\ ArgumentsArrive' /\ ResultKept'
  <2>1. Top' = f
    BY <1>1, <1>4 DEF Top
  <2>. QED
    BY <1>1, <1>2, <1>4, <2>1 DEF FramesOk, ArgumentsArrive, ResultKept
<1>6. ASSUME NEW i \in DOMAIN map, NEW v, ValueAt(frames, stack, machine, map[i].reg, v)
      PROVE  ValueAt(frames', stack', machine', map[i].reg, v)
  <2>1. map[i].reg \in Low /\ map[i].reg \in RegisterNumbers /\ map[i].reg # RP
        /\ map[i].reg \in Nat
    BY Now, Ranges DEF VInv, Low
  <2>2. machine[map[i].reg] = v
    BY <1>1, <1>6, Idles
  <2>3. machine'[map[i].reg] = v
    BY <1>3, <2>1, <2>2
  <2>4. Cnt(<< f >>)[1] = 0
    BY <1>2, <1>4 DEF Cnt
  <2>5. ~Over(Cnt(<< f >>), 1, map[i].reg)
    BY <2>1, <2>4 DEF Over
  <2>6. NoneOver(1, Cnt(<< f >>), map[i].reg)
    BY <1>4, <2>5 DEF NoneOver
  <2>7. \A k \in 1..1 : k = 1
    OBVIOUS
  <2>8. CASE map[i].reg = X0
    <3>1. NoneOver(1, Cnt(<< f >>), X0) /\ machine'[X0] = v
      BY <2>3, <2>6, <2>8
    <3>2. AtX0(1, Cnt(<< f >>), << f >>, machine', v)
      BY <2>7, <3>1 DEF AtX0
    <3>. QED
      BY <1>1, <1>4, <2>8, <3>2 DEF ValueAt
  <2>9. CASE map[i].reg # X0
    <3>1. NameKept(1, Cnt(<< f >>), Bas(<< f >>), stack', machine', map[i].reg, v)
      BY <2>3, <2>5, <2>7 DEF NameKept, OnlyOver, SecondOver
    <3>. QED
      BY <1>1, <1>4, <2>9, <3>1 DEF ValueAt
  <2>. QED
    BY <2>8, <2>9
<1>. QED
  BY <1>1, <1>5, <1>6 DEF VInv, ValuesKept

LEMMA ValuesArgumentCall ==
  ASSUME VInv, IInv', NEW garbage \in RegisterNumbers, ArgumentCall(garbage)
  PROVE  VInv'
<1>. DEFINE n == Len(frames)
            arg == Top.arg
            saved == Save(map, Code, arg)
            new == NewFrame(garbage, Len(saved.stack))
            cnt == Cnt(frames)
            base == Bas(frames)
            cnt2 == [cnt EXCEPT ![n] = @ + 1]
<1>1. /\ TakesArgument /\ ~done /\ CodeIs(Begin(saved)) /\ frames' = Append(frames, new)
      /\ UNCHANGED <<map, done, env>>
      /\ frames # <<>> /\ ~Top.back /\ Top.arg < MAX_ARGS
      /\ lost' = (IF \E k \in DOMAIN frames : frames[k].arg > 0
                  THEN lost \cup {x \in Vars : Readable(x) /\ RegOf(map, x) = X0}
                  ELSE lost)
  BY DEF ArgumentCall, TakesArgument, Compiling
<1>2. /\ frames \in Seq(FrameSet) /\ n \in Nat \ {0} /\ n \in 1..n /\ DOMAIN frames = 1..n
      /\ InProgress(map, Code, frames) /\ AtArguments(frames)
  BY <1>1, Now DEF VInv, IInv, InProgress
<1>3. Top \in FrameSet /\ arg \in 0 .. MAX_ARGS /\ cnt[n] = arg /\ arg \in Nat
  BY <1>2, Counts, CallsAssumption DEF VInv, Top
<1>4. /\ new.arg = 0 /\ ~new.back /\ new.kept /\ new.means = <<>> /\ new.sound
  BY DEF NewFrame
<1>. HIDE DEF new
<1>5. /\ Len(frames') = n + 1 /\ frames'[n + 1] = new /\ DOMAIN frames' = 1 .. n + 1
      /\ \A k \in 1..n : frames'[k] = frames[k]
      /\ \A k \in 1 .. n + 1 : k = n + 1 \/ k \in 1..n
  BY <1>1, <1>2
<1>6. FramesOk' /\ ArgumentsArrive' /\ ResultKept'
  <2>1. Top' = new
    BY <1>5 DEF Top
  <2>2. ASSUME NEW k \in 1 .. n + 1
        PROVE  /\ frames'[k].kept \/ (frames'[k].back /\ frames'[k].arg = 0)
               /\ ~frames'[k].back => Len(frames'[k].means) = frames'[k].arg
    <3>1. CASE k = n + 1
      BY <1>4, <1>5, <3>1
    <3>2. CASE k \in 1..n
      BY <1>2, <1>5, <3>2 DEF VInv, FramesOk
    <3>. QED
      BY <1>5, <3>1, <3>2
  <2>. QED
    BY <1>4, <1>5, <2>1, <2>2 DEF FramesOk, ArgumentsArrive, ResultKept
<1>7. /\ saved \in Codes /\ saved.stack = Append(stack, machine[SavedBase + arg])
      /\ saved.machine[SavedBase + arg] = machine[arg]
      /\ \A r \in RegisterNumbers : r # SavedBase + arg => saved.machine[r] = machine[r]
      /\ SavedBase \in Nat /\ machine[SavedBase + arg] \in Int
  BY <1>1, SavedNow, Now DEF VInv
<1>. HIDE DEF saved
<1>8. /\ stack' = Append(saved.stack, saved.machine[RP])
      /\ \A r \in RegisterNumbers : r # RP => machine'[r] = saved.machine[r]
  <2>1. stack' = Begin(saved).stack /\ machine' = Begin(saved).machine
    BY <1>1 DEF CodeIs
  <2>. QED
    BY <1>7, <2>1, BeginIs
<1>9. /\ cnt \in Areas(n) /\ base \in Areas(n) /\ cnt2 \in Areas(n) /\ cnt2[n] = arg + 1
      /\ \A k \in 1..n : k # n => cnt2[k] = cnt[k]
      /\ stack \in Seq(Int) /\ Len(stack) = Height(n, cnt, base) /\ Nested(n, cnt, base)
      /\ \A k \in 1..n : cnt[k] \in 0 .. MAX_ARGS
  <2>1. /\ cnt \in Areas(n) /\ base \in Areas(n) /\ stack \in Seq(Int)
        /\ Len(stack) = Height(n, cnt, base) /\ Nested(n, cnt, base)
    BY Now DEF VInv
  <2>2. \A k \in 1..n : cnt[k] \in 0 .. MAX_ARGS
    BY Counts DEF VInv
  <2>. HIDE DEF cnt, base, n
  <2>3. /\ cnt2 \in Areas(n) /\ cnt2[n] = arg + 1
        /\ \A k \in 1..n : k # n => cnt2[k] = cnt[k]
    BY <1>2, <1>3, <2>1 DEF Areas
  <2>. QED
    BY <2>1, <2>2, <2>3
<1>10. \A k \in 1..n : cnt2[k] \in 0 .. MAX_ARGS
  BY <1>1, <1>3, <1>9, CallsAssumption
<1>11. Len(saved.stack) = Height(n, cnt2, base) /\ Nested(n, cnt2, base)
       /\ saved.stack \in Seq(Int) /\ Len(saved.stack) \in Nat
  <2>. DEFINE f == [Top EXCEPT !.arg = @ + 1]
              fr1 == [frames EXCEPT ![n] = f]
  <2>1. f \in FrameSet /\ f.arg = arg + 1 /\ f.base = Top.base
    <3>1. arg + 1 \in 0 .. MAX_ARGS
      BY <1>1, <1>3, CallsAssumption
    <3>. QED
      BY <1>3, <3>1 DEF FrameSet
  <2>. HIDE DEF f
  <2>2. InProgress(map, saved, fr1)
    BY <1>1, <1>2, <2>1, ProgressArgument DEF Top, saved
  <2>3. Bas(fr1) = base /\ Cnt(fr1) = [cnt EXCEPT ![n] = f.arg] /\ Len(fr1) = n
    BY <1>1, <1>2, <2>1, TopReplaced DEF Top
  <2>4. Cnt(fr1) = cnt2
    BY <1>3, <2>1, <2>3
  <2>. HIDE DEF fr1, cnt2, cnt, base
  <2>5. Len(saved.stack) = Height(n, cnt2, base) /\ Nested(n, cnt2, base)
    BY <2>2, <2>3, <2>4 DEF InProgress, SaveArea
  <2>6. saved.stack \in Seq(Int)
    BY <1>7 DEF Codes
  <2>. QED
    BY <2>5, <2>6
<1>12. /\ \A k \in 1..n : Cnt(frames')[k] = cnt2[k] /\ Bas(frames')[k] = base[k]
       /\ Cnt(frames')[n + 1] = 0
  <2>1. ASSUME NEW k \in 1..n PROVE Cnt(frames')[k] = cnt2[k] /\ Bas(frames')[k] = base[k]
    <3>1. k \in 1 .. Len(frames') /\ k < Len(frames') /\ frames'[k] = frames[k]
      BY <1>2, <1>5
    <3>2. Cnt(frames')[k] = frames[k].arg + 1 /\ Bas(frames')[k] = frames[k].base
      BY <3>1 DEF Cnt, Bas
    <3>3. base[k] = frames[k].base
      BY DEF Bas
    <3>4. CASE k = n
      BY <1>3, <1>9, <3>2, <3>3, <3>4 DEF Top
    <3>5. CASE k # n
      <4>1. k < n
        <5>1. n \in Nat /\ k \in 1..n /\ k # n
          BY <1>2, <3>5
        <5>. HIDE DEF n
        <5>. QED
          BY <5>1
      <4>. QED
        BY <1>9, <3>2, <3>3, <3>5, <4>1, Counts DEF VInv
    <3>. QED
      BY <3>4, <3>5
  <2>2. n + 1 \in 1 .. Len(frames') /\ ~(n + 1 < Len(frames'))
    BY <1>2, <1>5
  <2>3. Cnt(frames')[n + 1] = 0
    BY <1>4, <1>5, <2>2 DEF Cnt
  <2>. QED
    BY <2>1, <2>3
<1>. HIDE DEF cnt, base, cnt2
<1>13. ASSUME NEW r \in Low, r # X0, NEW v, ValueAt(frames, stack, machine, r, v)
       PROVE  ValueAt(frames', stack', machine', r, v)
  <2>1. r \in RegisterNumbers /\ r # RP /\ r # SavedBase + arg /\ r \in Nat
    BY <1>1, SavedNow, Ranges DEF Low
  <2>2. NameKept(n, cnt, base, stack, machine, r, v)
    BY <1>13 DEF ValueAt, cnt, base
  <2>3. ASSUME ~NoneOver(n, cnt, r), r # arg
        PROVE  saved.machine[SavedBase + r] = machine[SavedBase + r]
    <3>1. SavedBase + r \in RegisterNumbers
      BY <1>2, <1>9, <2>1, <2>3, OverLow
    <3>2. SavedBase + r # SavedBase + arg
      BY <1>3, <1>7, <2>1, <2>3
    <3>. QED
      BY <1>7, <3>1, <3>2
  <2>4. NameKept(n, cnt2, base, saved.stack, saved.machine, r, v)
    <3>1. /\ r # cnt[n] => /\ NoneOver(n, cnt, r) => saved.machine[r] = machine[r]
                           /\ ~NoneOver(n, cnt, r) =>
                                saved.machine[SavedBase + r] = machine[SavedBase + r]
          /\ r = cnt[n] => saved.machine[SavedBase + r] = machine[r]
          /\ machine[SavedBase + cnt[n]] \in Int
      BY <1>3, <1>7, <2>1, <2>3
    <3>2. NameKept(n, cnt2, base, Append(stack, machine[SavedBase + cnt[n]]), saved.machine, r, v)
      BY <1>2, <1>9, <2>1, <2>2, <3>1, KeptSave DEF cnt2
    <3>. QED
      BY <1>3, <1>7, <3>2
  <2>5. \A k \in 1..n : Over(cnt2, k, r) <=> Over(Cnt(frames'), k, r)
    BY <1>12 DEF Over
  <2>6. ~Over(Cnt(frames'), n + 1, r)
    BY <1>12, <2>1 DEF Over
  <2>7. ASSUME NEW k \in 1..n, Over(cnt2, k, r)
        PROVE  stack'[base[k] + 2 + r] = saved.stack[base[k] + 2 + r]
    <3>1. base[k] + 2 + r \in 1 .. Len(saved.stack)
      BY <1>2, <1>9, <1>11, <2>1, <2>7, SlotOver
    <3>. QED
      BY <1>8, <1>11, <3>1
  <2>8. ~NoneOver(n, cnt2, r) => machine'[SavedBase + r] = saved.machine[SavedBase + r]
    BY <1>2, <1>8, <1>10, <2>1, OverLow
  <2>9. machine'[r] = saved.machine[r]
    BY <1>8, <2>1
  <2>10. \A k \in 1 .. n + 1 : Over(Cnt(frames'), k, r) => k \in 1..n /\ Over(cnt2, k, r)
    BY <1>5, <2>5, <2>6
  <2>11. \A k \in 1..n : Over(cnt2, k, r) =>
           /\ k \in 1 .. n + 1 /\ Over(Cnt(frames'), k, r)
           /\ Bas(frames')[k] = base[k] /\ stack'[base[k] + 2 + r] = saved.stack[base[k] + 2 + r]
    BY <1>12, <2>5, <2>7
  <2>12. NameKept(n + 1, Cnt(frames'), Bas(frames'), stack', machine', r, v)
    <3>1. n \in Nat /\ n + 1 \in Nat
      BY <1>2
    <3>. QED
      BY <2>4, <2>8, <2>9, <2>10, <2>11, <3>1, KeptSame
  <2>. QED
    BY <1>5, <1>13, <2>12 DEF ValueAt
<1>14. ASSUME \A k \in DOMAIN frames : ~(frames[k].arg > 0),
              NEW v, ValueAt(frames, stack, machine, X0, v)
       PROVE  ValueAt(frames', stack', machine', X0, v)
  <2>1. arg = 0
    BY <1>2, <1>3, <1>14 DEF Top
  <2>2. machine[X0] = v
    BY <1>1, <1>2, <1>14, <2>1 DEF ValueAt, AtX0, Top
  <2>3. machine'[X0] = v /\ machine'[SavedBase] = v
    <3>1. X0 \in RegisterNumbers /\ X0 # RP /\ X0 # SavedBase + arg
      BY <1>1, SavedNow, Ranges
    <3>2. SavedBase + arg \in RegisterNumbers /\ SavedBase + arg = SavedBase /\ SavedBase # RP
      BY <1>1, <2>1, SavedNow, CallsAssumption
    <3>. QED
      BY <1>7, <1>8, <2>1, <2>2, <3>1, <3>2 DEF X0
  <2>4. ASSUME NEW k \in 1 .. n + 1, k < n + 1 PROVE frames'[k].arg = 0
    <3>1. k \in 1..n /\ frames'[k] = frames[k]
      BY <1>5, <2>4
    <3>2. frames[k].arg \in 0 .. MAX_ARGS
      BY <3>1, Counts DEF VInv
    <3>. QED
      BY <1>2, <1>14, <3>1, <3>2, CallsAssumption
  <2>5. AtX0(n + 1, Cnt(frames'), frames', machine', v)
    BY <2>3, <2>4 DEF AtX0
  <2>. QED
    BY <1>5, <2>5 DEF ValueAt
<1>15. ValuesKept'
  <2>. SUFFICES ASSUME NEW x \in Vars \ lost', env[x] # Unassigned
                PROVE  \E i \in DOMAIN map : /\ map[i].name = x
                         /\ ValueAt(frames', stack', machine', map[i].reg, env[x])
    BY <1>1 DEF ValuesKept
  <2>1. x \in Vars \ lost
    BY <1>1
  <2>2. PICK i \in DOMAIN map : /\ map[i].name = x /\ map[i].reg \in Low
                                /\ HasName(map, x) /\ RegOf(map, x) = map[i].reg
                                /\ ValueAt(frames, stack, machine, map[i].reg, env[x])
    BY <1>1, <2>1, EntryOf
  <2>3. CASE map[i].reg # X0
    BY <1>13, <2>2, <2>3
  <2>4. CASE map[i].reg = X0
    <3>1. \A k \in DOMAIN frames : ~(frames[k].arg > 0)
      BY <1>1, <2>2, <2>4 DEF Readable
    <3>. QED
      BY <1>14, <2>2, <2>4, <3>1
  <2>. QED
    BY <2>3, <2>4
<1>. QED
  BY <1>1, <1>6, <1>15 DEF VInv

LEMMA ValuesBranch ==
  ASSUME VInv, IInv', NEW size \in CalleeSizes, NEW result \in Results, Branch(size, result)
  PROVE  VInv'
<1>. DEFINE n == Len(frames)
            cnt == Cnt(frames)
            base == Bas(frames)
            called == [Top EXCEPT !.back = TRUE]
            f == [called EXCEPT !.result = result]
<1>1. /\ frames # <<>> /\ ~Top.back /\ ~done /\ frames' = [frames EXCEPT ![n] = f]
      /\ machine' = [r \in RegisterNumbers |->
                       IF r = X0 THEN result ELSE IF r < size THEN Junk ELSE machine[r]]
      /\ UNCHANGED <<map, stack, done, env>>
      /\ lost' = lost \cup {x \in Vars : /\ Readable(x) /\ RegOf(map, x) < size
                                         /\ Untouched(RegOf(map, x))}
  BY DEF Branch, WithTop, Compiling
<1>2. /\ frames \in Seq(FrameSet) /\ n \in Nat \ {0} /\ n \in 1..n /\ DOMAIN frames = 1..n
      /\ AtArguments(frames)
  BY <1>1, Now DEF VInv, IInv, InProgress
<1>3. Top \in FrameSet /\ Top.kept
  BY <1>1, <1>2, Counts DEF VInv, FramesOk, Top
<1>4. /\ f.arg = Top.arg /\ f.base = Top.base /\ f.back /\ f.kept /\ f.result = result
      /\ f \in FrameSet
  <2>1. /\ called \in FrameSet /\ called.arg = Top.arg /\ called.base = Top.base
        /\ called.kept = Top.kept /\ called.back
    BY <1>3 DEF FrameSet
  <2>2. result \in Int
    BY IntsIn
  <2>. HIDE DEF called
  <2>. QED
    BY <1>3, <2>1, <2>2 DEF FrameSet
<1>. HIDE DEF f
<1>5. /\ Len(frames') = n /\ DOMAIN frames' = 1..n /\ frames'[n] = f
      /\ \A k \in 1..n : k # n => frames'[k] = frames[k]
  <2>. HIDE DEF n
  <2>. QED
    BY <1>1, <1>2, <1>4
<1>6. Cnt(frames') = cnt /\ Bas(frames') = base
  <2>1. /\ Bas([frames EXCEPT ![n] = f]) = base
        /\ Cnt([frames EXCEPT ![n] = f]) = [cnt EXCEPT ![n] = f.arg]
    BY <1>1, <1>2, <1>4, TopReplaced DEF Top
  <2>2. cnt[n] = f.arg /\ cnt \in Areas(n)
    BY <1>2, <1>4, Counts, Now DEF VInv, Top
  <2>. HIDE DEF cnt, n, base
  <2>. QED
    BY <1>1, <1>2, <2>1, <2>2 DEF Areas
<1>7. /\ size \in Nat /\ X0 < size /\ SavedBase \in Nat /\ SavedBase \in RegisterNumbers
      /\ machine'[X0] = result
      /\ \A r \in RegisterNumbers : r >= size => machine'[r] = machine[r]
      /\ size <= SavedBase
  <2>1. size \in 1 .. SavedBase /\ SavedBase \in Nat \ {0} /\ X0 \in RegisterNumbers
        /\ RP \in Nat /\ NUM_REGISTERS \in Nat /\ SavedBase + MAX_ARGS <= RP /\ RP < NUM_REGISTERS
        /\ MAX_ARGS \in Nat
    BY Ranges, CallsAssumption, RegistersAssumption
  <2>2. SavedBase \in RegisterNumbers
    BY <2>1 DEF RegisterNumbers
  <2>3. size \in Nat /\ X0 < size /\ size <= SavedBase
    BY <2>1 DEF X0
  <2>4. \A r \in RegisterNumbers : r >= size => r # X0 /\ ~(r < size)
    BY <2>1 DEF X0, RegisterNumbers
  <2>. QED
    BY <1>1, <2>1, <2>2, <2>3, <2>4
<1>. HIDE DEF n, cnt, base
<1>8. FramesOk' /\ ArgumentsArrive' /\ ResultKept'
  <2>1. Top' = f
    BY <1>5 DEF Top
  <2>2. \A k \in 1..n : /\ frames'[k].kept \/ (frames'[k].back /\ frames'[k].arg = 0)
                        /\ ~frames'[k].back => Len(frames'[k].means) = frames'[k].arg
    BY <1>2, <1>4, <1>5 DEF VInv, FramesOk
  <2>. QED
    BY <1>4, <1>5, <1>7, <2>1, <2>2 DEF FramesOk, ArgumentsArrive, ResultKept
<1>9. ASSUME NEW x \in Vars \ lost', env[x] # Unassigned
      PROVE  \E i \in DOMAIN map : /\ map[i].name = x
               /\ ValueAt(frames', stack, machine', map[i].reg, env[x])
  <2>1. x \in Vars \ lost
    BY <1>1
  <2>2. PICK i \in DOMAIN map : /\ map[i].name = x /\ map[i].reg \in Low
                                /\ HasName(map, x) /\ RegOf(map, x) = map[i].reg
                                /\ ValueAt(frames, stack, machine, map[i].reg, env[x])
    BY <1>1, <2>1, <1>9, EntryOf
  <2>. DEFINE r == map[i].reg
              v == env[x]
  <2>3. r \in RegisterNumbers /\ r \in Nat /\ r \in Int
    BY <2>2, Ranges DEF Low
  <2>4. ~(r < size) \/ ~NoneOver(n, cnt, r)
    <3>1. ~(r < size /\ Untouched(r))
      BY <1>1, <1>9, <2>2 DEF Readable
    <3>. HIDE DEF r
    <3>. QED
      BY <2>3, <3>1, UntouchedIs DEF VInv, n, cnt
  <2>. HIDE DEF r, v
  <2>5. CASE r = X0
    <3>1. ~NoneOver(n, cnt, X0)
      BY <1>7, <2>4, <2>5
    <3>2. AtX0(n, cnt, frames, machine, v)
      BY <2>2, <2>5 DEF ValueAt, r, v, n, cnt
    <3>3. machine'[SavedBase] = machine[SavedBase]
      BY <1>7
    <3>4. \A k \in 1..n : k < n => frames'[k].arg = 0
      BY <1>2, <1>5, <3>2 DEF AtX0
    <3>5. AtX0(n, cnt, frames', machine', v)
      BY <1>4, <1>5, <3>1, <3>2, <3>3, <3>4 DEF AtX0
    <3>. QED
      BY <1>5, <1>6, <2>2, <2>5, <3>5 DEF ValueAt, r, v
  <2>6. CASE r # X0
    <3>1. NameKept(n, cnt, base, stack, machine, r, v)
      BY <2>2, <2>6 DEF ValueAt, r, v, n, cnt, base
    <3>2. NoneOver(n, cnt, r) => machine'[r] = machine[r]
      BY <1>7, <2>3, <2>4
    <3>3. ASSUME ~NoneOver(n, cnt, r) PROVE machine'[SavedBase + r] = machine[SavedBase + r]
      <4>1. SavedBase + r \in RegisterNumbers
        BY <1>2, <2>3, <3>3, Counts, OverLow DEF VInv, n, cnt
      <4>2. SavedBase + r >= size
        BY <1>7, <2>3
      <4>. QED
        BY <1>7, <4>1, <4>2
    <3>4. NameKept(n, cnt, base, stack, machine', r, v)
      BY <1>2, <3>1, <3>2, <3>3, KeptSame
    <3>. QED
      BY <1>5, <1>6, <2>2, <2>6, <3>4 DEF ValueAt, r, v
  <2>. QED
    BY <2>5, <2>6
<1>10. ValuesKept'
  BY <1>1, <1>9 DEF ValuesKept
<1>. QED
  BY <1>1, <1>8, <1>10 DEF VInv

LEMMA ValuesLeaveToStatement ==
  ASSUME VInv, IInv', LeaveToStatement
  PROVE  VInv'
<1>. DEFINE popped == Pop(Code, RP)
<1>1. /\ Len(frames) = 1 /\ Top.arg = 0 /\ Top.back /\ frames' = <<>> /\ ~done
      /\ Assign(map, target, popped, X0, Top.result, Top.kept)
  BY DEF LeaveToStatement, Compiling
<1>2. /\ InProgress(map, Code, frames) /\ frames # <<>> /\ Code \in Codes
      /\ Code.machine = machine /\ machine \in [RegisterNumbers -> Int]
  <2>1. Len(frames) = 1
    BY DEF LeaveToStatement, Compiling
  <2>2. frames # <<>>
    BY <2>1
  <2>. QED
    BY <2>2, Now DEF VInv
<1>3. Top \in FrameSet /\ Len(Code.stack) > 0 /\ Cnt(frames)[1] = 0
  BY <1>1, <1>2, StackThere DEF Top
<1>4. /\ popped \in Codes
      /\ \A r \in Low : popped.machine[r] = machine[r]
  <2>1. RP \in RegisterNumbers /\ \A r \in Low : r # RP /\ r \in RegisterNumbers
    BY Ranges
  <2>2. /\ popped \in Codes
        /\ popped.machine = [Code.machine EXCEPT ![RP] = Code.stack[Len(Code.stack)]]
    BY <1>2, <1>3, <2>1, PopIs
  <2>. HIDE DEF popped
  <2>. QED
    BY <1>2, <2>1, <2>2
<1>. HIDE DEF popped
<1>5. X0 \in Low /\ Top.result \in Int /\ Top.kept \in BOOLEAN /\ target \in Targets
  BY <1>3, Ranges DEF FrameSet, VInv, IInv
<1>6. Top.kept => popped.machine[X0] = Top.result
  BY <1>1, <1>2, <1>4, <1>5 DEF VInv, ResultKept
<1>7. ASSUME NEW y \in Vars \ lost, env[y] # Unassigned
      PROVE  \E i \in DOMAIN map : /\ map[i].name = y /\ popped.machine[map[i].reg] = env[y]
  <2>1. PICK i \in DOMAIN map : /\ map[i].name = y /\ map[i].reg \in Low
                                /\ ValueAt(frames, stack, machine, map[i].reg, env[y])
    BY <1>1, <1>7, EntryOf
  <2>2. map[i].reg \in Nat /\ \A k \in 1..1 : k = 1
    BY <2>1 DEF Low
  <2>3. NoneOver(Len(frames), Cnt(frames), map[i].reg)
    BY <1>1, <1>3, <2>2 DEF NoneOver, Over
  <2>. QED
    BY <1>4, <2>1, <2>3, Plain
<1>. QED
  BY <1>1, <1>4, <1>5, <1>6, <1>7, AssignValues

\* What restoring a register leaves, while the call has pushed it.
LEMMA RestoreAt ==
  ASSUME NEW m \in Maps, LowLeft(m), NEW c \in Codes, NEW reg \in 0 .. MAX_ARGS - 1,
         Len(c.stack) > 0
  PROVE  /\ Restore(m, c, reg) \in Codes
         /\ Popped(c.stack, Restore(m, c, reg).stack)
         /\ Restore(m, c, reg).machine[SavedBase + reg] = c.stack[Len(c.stack)]
         /\ Restore(m, c, reg).machine[RestoredTo(m, reg)] = c.machine[SavedBase + reg]
         /\ \A r \in RegisterNumbers : r # SavedBase + reg /\ r # RestoredTo(m, reg) =>
              Restore(m, c, reg).machine[r] = c.machine[r]
<1>1. Used(m, c.stack, reg)
  BY DEF Used
<1>2. /\ reg \in Low /\ reg + SavedBase \in Saved /\ reg + SavedBase \in RegisterNumbers
      /\ reg + SavedBase = SavedBase + reg
  BY Ranges, CallsAssumption
<1>3. RestoredTo(m, reg) \in Low
  BY <1>2, FreeLow DEF RestoredTo
<1>. DEFINE to == RestoredTo(m, reg)
            moved == Move(c, to, reg + SavedBase)
<1>4. to \in RegisterNumbers /\ to # reg + SavedBase
  BY <1>2, <1>3, Ranges
<1>5. Restore(m, c, reg) = Pop(moved, reg + SavedBase)
  BY <1>1 DEF Restore
<1>. HIDE DEF to
<1>6. /\ moved \in Codes /\ moved.stack = c.stack
      /\ moved.machine[to] = c.machine[reg + SavedBase]
      /\ \A r \in RegisterNumbers : r # to => moved.machine[r] = c.machine[r]
  <2>1. c.machine[reg + SavedBase] \in Int
    BY <1>2 DEF Codes
  <2>. QED
    BY <1>4, <2>1, PutAt DEF Move
<1>. HIDE DEF moved
<1>7. /\ Pop(moved, reg + SavedBase) \in Codes
      /\ Popped(moved.stack, Pop(moved, reg + SavedBase).stack)
      /\ Pop(moved, reg + SavedBase).machine =
           [moved.machine EXCEPT ![reg + SavedBase] = moved.stack[Len(moved.stack)]]
  BY <1>2, <1>6, PopIs
<1>8. moved.machine \in [RegisterNumbers -> Int]
  BY <1>6 DEF Codes
<1>. QED
  BY <1>2, <1>4, <1>5, <1>6, <1>7, <1>8 DEF to

\* The map after it.
LEMMA RestoredMap ==
  ASSUME NEW m \in Maps, LowLeft(m), MapOnce(m), NEW reg
  PROVE  /\ MapOnce(MapAfterRestore(m, reg)) /\ DOMAIN MapAfterRestore(m, reg) = DOMAIN m
         /\ \A i \in DOMAIN m :
              /\ MapAfterRestore(m, reg)[i].name = m[i].name
              /\ MapAfterRestore(m, reg)[i].reg =
                   IF reg = X0 /\ m[i].reg = X0 THEN FreeIntermediary(m) ELSE m[i].reg
<1>. DEFINE m2 == MapAfterRestore(m, reg)
            g == FreeIntermediary(m)
<1>1. g \notin Mapped(m)
  BY FreeLow
<1>2. /\ DOMAIN m2 = DOMAIN m
      /\ \A i \in DOMAIN m :
           /\ m2[i].name = m[i].name
           /\ m2[i].reg = IF reg = X0 /\ m[i].reg = X0 THEN g ELSE m[i].reg
  <2>1. CASE reg # X0
    BY <2>1 DEF MapAfterRestore
  <2>2. CASE reg = X0
    <3>1. m2 = [i \in DOMAIN m |-> IF m[i].reg = X0 THEN [m[i] EXCEPT !.reg = g] ELSE m[i]]
      BY <2>2 DEF MapAfterRestore
    <3>2. \A i \in DOMAIN m : m[i] \in Entries
      BY DEF Maps
    <3>. HIDE DEF m2, g
    <3>. QED
      BY <2>2, <3>1, <3>2 DEF Entries
  <2>. QED
    BY <2>1, <2>2
<1>. HIDE DEF m2, g
<1>3. MapOnce(m2)
  <2>. SUFFICES ASSUME NEW i \in DOMAIN m, NEW j \in DOMAIN m,
                       m2[i].name = m2[j].name \/ m2[i].reg = m2[j].reg
                PROVE  i = j
    BY <1>2 DEF MapOnce
  <2>1. m[i].reg # g /\ m[j].reg # g
    BY <1>1 DEF Mapped
  <2>2. m[i].name = m[j].name \/ m[i].reg = m[j].reg
    BY <1>2, <2>1
  <2>. QED
    BY <2>2 DEF MapOnce
<1>. QED
  BY <1>2, <1>3 DEF m2, g

LEMMA ValuesRestore ==
  ASSUME VInv, IInv', RestoreArgument
  PROVE  VInv'
<1>. DEFINE n == Len(frames)
            cnt == Cnt(frames)
            base == Bas(frames)
            reg == Top.arg - 1
            to == RestoredTo(map, reg)
            g == FreeIntermediary(map)
            kept == reg # X0 \/ X0 \in Mapped(map)
            restored == [Top EXCEPT !.arg = reg]
            f == [restored EXCEPT !.kept = kept]
            c2 == Restore(map, Code, reg)
            cnt2 == [cnt EXCEPT ![n] = @ - 1]
<1>1. /\ frames # <<>> /\ Top.back /\ Top.arg > 0 /\ ~done
      /\ frames' = [frames EXCEPT ![n] = f]
      /\ CodeIs(c2) /\ map' = MapAfterRestore(map, reg)
      /\ UNCHANGED <<done, env, lost>>
  BY DEF RestoreArgument, WithTop, Compiling
<1>2. /\ frames \in Seq(FrameSet) /\ n \in Nat \ {0} /\ n \in 1..n /\ DOMAIN frames = 1..n
      /\ AtArguments(frames) /\ InProgress(map, Code, frames)
      /\ map \in Maps /\ LowLeft(map) /\ MapOnce(map)
      /\ Code \in Codes /\ Code.stack = stack /\ Code.machine = machine
  BY <1>1, Now DEF VInv, IInv, InProgress
<1>3. /\ Top \in FrameSet /\ Top.arg \in 0 .. MAX_ARGS /\ cnt[n] = Top.arg
      /\ SavedBase \in Nat /\ MAX_ARGS \in Nat
  BY <1>2, Counts, CallsAssumption DEF VInv, Top
<1>4. reg \in 0 .. MAX_ARGS - 1 /\ reg \in Nat /\ Top.arg = reg + 1 /\ reg \in 0 .. MAX_ARGS
  BY <1>1, <1>3
<1>5. Top.kept /\ machine[X0] = Top.result
  BY <1>1, <1>2, <1>3 DEF VInv, FramesOk, ResultKept, Top
<1>6. /\ f.arg = reg /\ f.base = Top.base /\ f.back /\ f.kept = kept /\ f.result = Top.result
      /\ f \in FrameSet
  <2>1. kept \in BOOLEAN
    OBVIOUS
  <2>. HIDE DEF kept, reg
  <2>2. /\ restored \in FrameSet /\ restored.arg = reg /\ restored.base = Top.base
        /\ restored.back /\ restored.result = Top.result
    BY <1>1, <1>3, <1>4 DEF FrameSet
  <2>. HIDE DEF restored
  <2>. QED
    BY <2>1, <2>2 DEF FrameSet
<1>. HIDE DEF f
<1>7. /\ Len(frames') = n /\ DOMAIN frames' = 1..n /\ frames'[n] = f
      /\ \A k \in 1..n : k # n => frames'[k] = frames[k]
  <2>. HIDE DEF n
  <2>. QED
    BY <1>1, <1>2, <1>6
<1>8. Cnt(frames') = cnt2 /\ Bas(frames') = base
  <2>1. /\ Bas([frames EXCEPT ![n] = f]) = base
        /\ Cnt([frames EXCEPT ![n] = f]) = [cnt EXCEPT ![n] = f.arg]
    BY <1>1, <1>2, <1>6, TopReplaced DEF Top
  <2>2. cnt[n] - 1 = f.arg
    BY <1>3, <1>6
  <2>. HIDE DEF cnt, n, base
  <2>. QED
    BY <1>1, <2>1, <2>2
<1>9. /\ cnt \in Areas(n) /\ base \in Areas(n)
      /\ stack \in Seq(Int) /\ Len(stack) = Height(n, cnt, base) /\ Nested(n, cnt, base)
      /\ \A k \in 1..n : cnt[k] \in 0 .. MAX_ARGS
      /\ machine \in [RegisterNumbers -> Int]
  BY Now, Counts DEF VInv
<1>. HIDE DEF cnt, base, n
<1>10. /\ reg \in Low
       /\ reg # X0 => to = reg
       /\ reg = X0 => to = g
       /\ to \in Low /\ g \in Low /\ g \notin Mapped(map)
       /\ SavedBase + reg \in RegisterNumbers /\ SavedBase + reg \notin Low
       /\ \A r \in Low : r \in RegisterNumbers /\ r \in Nat /\ r # SavedBase + reg
       /\ \A r \in RegisterNumbers : r >= SavedBase => r # to
       /\ X0 \in Low
  <2>1. /\ reg \in Low /\ reg + SavedBase \in RegisterNumbers /\ reg + SavedBase \notin Low
        /\ X0 \in Low
    BY <1>4, Ranges
  <2>2. g \in Low /\ g \notin Mapped(map)
    BY <1>2, FreeLow
  <2>3. reg + SavedBase = SavedBase + reg
    BY <1>3, <1>4
  <2>4. (reg # X0 => to = reg) /\ (reg = X0 => to = g)
    BY DEF RestoredTo
  <2>. HIDE DEF reg, to, g
  <2>5. to \in Low
    BY <2>1, <2>2, <2>4
  <2>6. \A r \in Low : r \in RegisterNumbers /\ r \in Nat /\ r < SavedBase
    BY <1>3, Ranges DEF Low
  <2>. QED
    BY <1>3, <2>1, <2>2, <2>3, <2>4, <2>5, <2>6
<1>11. /\ Popped(stack, stack')
       /\ machine'[SavedBase + reg] = stack[Len(stack)]
       /\ machine'[to] = machine[SavedBase + reg]
       /\ \A r \in RegisterNumbers : r # SavedBase + reg /\ r # to => machine'[r] = machine[r]
  <2>1. Len(Code.stack) > 0
    BY <1>1, <1>2, StackThere
  <2>2. stack' = c2.stack /\ machine' = c2.machine
    BY <1>1 DEF CodeIs
  <2>. HIDE DEF reg
  <2>. QED
    BY <1>2, <1>4, <2>1, <2>2, RestoreAt
<1>12. /\ MapOnce(map') /\ DOMAIN map' = DOMAIN map
       /\ \A i \in DOMAIN map :
            /\ map'[i].name = map[i].name
            /\ map'[i].reg = IF reg = X0 /\ map[i].reg = X0 THEN g ELSE map[i].reg
  <2>. HIDE DEF reg
  <2>. QED
    BY <1>1, <1>2, RestoredMap
<1>. HIDE DEF c2, to, reg, g
<1>13. FramesOk' /\ ArgumentsArrive' /\ ResultKept'
  <2>1. Top' = f
    BY <1>7 DEF Top
  <2>2. reg # X0 => f.kept
    BY <1>6
  <2>3. f.kept \/ (f.back /\ f.arg = 0)
    BY <1>6, <2>2 DEF X0
  <2>4. \A k \in 1..n : /\ frames'[k].kept \/ (frames'[k].back /\ frames'[k].arg = 0)
                        /\ ~frames'[k].back => Len(frames'[k].means) = frames'[k].arg
    BY <1>2, <1>6, <1>7, <2>3 DEF VInv, FramesOk
  <2>5. ASSUME f.kept PROVE machine'[X0] = Top.result
    <3>1. X0 # to
      <4>1. CASE reg = X0
        BY <1>6, <1>10, <2>5, <4>1
      <4>2. CASE reg # X0
        BY <1>10, <4>2
      <4>. QED
        BY <4>1, <4>2
    <3>. QED
      BY <1>5, <1>10, <1>11, <3>1
  <2>. QED
    BY <1>6, <1>7, <2>1, <2>4, <2>5 DEF FramesOk, ArgumentsArrive, ResultKept
<1>14. /\ n \in 1..n /\ cnt[n] = reg + 1 /\ cnt2[n] = reg
       /\ \A k \in 1..n : k # n => cnt2[k] = cnt[k]
       /\ cnt[n] > 0 /\ reg = cnt[n] - 1
  <2>1. cnt[n] = reg + 1
    BY <1>3, <1>4
  <2>2. cnt2[n] = cnt[n] - 1 /\ \A k \in 1..n : k # n => cnt2[k] = cnt[k]
    BY <1>2, <1>9 DEF Areas
  <2>. HIDE DEF cnt2
  <2>. QED
    BY <1>2, <1>4, <2>1, <2>2
<1>15. ASSUME NEW r \in Low, r # X0, r # reg => r # to, NEW v,
              ValueAt(frames, stack, machine, r, v)
       PROVE  ValueAt(frames', stack', machine', r, v)
  <2>1. r \in RegisterNumbers /\ r \in Nat /\ r # SavedBase + reg
    BY <1>10
  <2>2. NameKept(n, cnt, base, stack, machine, r, v)
    BY <1>15 DEF ValueAt, n, cnt, base
  <2>3. ASSUME r # reg, ~NoneOver(n, cnt, r)
        PROVE  machine'[SavedBase + r] = machine[SavedBase + r]
    <3>1. SavedBase + r \in RegisterNumbers /\ SavedBase + r \notin Low
      BY <1>2, <1>9, <2>1, <2>3, OverLow
    <3>2. SavedBase + r # SavedBase + reg
      BY <1>3, <1>4, <2>1, <2>3
    <3>. QED
      BY <1>10, <1>11, <3>1, <3>2
  <2>4. r # reg => machine'[r] = machine[r]
    BY <1>11, <1>15, <2>1
  <2>5. r = reg => /\ machine'[r] = machine[SavedBase + r]
                   /\ machine'[SavedBase + r] = stack[Len(stack)]
    BY <1>10, <1>11, <1>15
  <2>6. NameKept(n, cnt2, base, stack', machine', r, v)
    <3>1. n \in Nat \ {0}
      BY <1>2
    <3>. QED
      BY <1>9, <1>11, <1>14, <2>1, <2>2, <2>3, <2>4, <2>5, <3>1, KeptRestore
  <2>. QED
    BY <1>7, <1>8, <1>15, <2>6 DEF ValueAt
<1>16. ASSUME NEW v, ValueAt(frames, stack, machine, X0, v)
       PROVE  /\ AtX0(n, cnt, frames, machine, v) /\ machine[SavedBase] = v
              /\ \A k \in 1..n : k < n => frames[k].arg = 0
  <2>1. AtX0(n, cnt, frames, machine, v)
    BY <1>16 DEF ValueAt, n, cnt
  <2>2. ~NoneOver(n, cnt, X0)
    BY <1>14 DEF NoneOver, Over, X0
  <2>. QED
    BY <2>1, <2>2 DEF AtX0
<1>17. ASSUME NEW v, ValueAt(frames, stack, machine, X0, v), reg # X0
       PROVE  ValueAt(frames', stack', machine', X0, v)
  <2>1. ~NoneOver(n, cnt2, X0)
    <3>1. reg > 0
      BY <1>4, <1>17 DEF X0
    <3>. QED
      BY <1>14, <3>1 DEF NoneOver, Over, X0
  <2>2. machine'[SavedBase] = machine[SavedBase]
    <3>1. SavedBase \in RegisterNumbers /\ SavedBase # SavedBase + reg /\ SavedBase >= SavedBase
      <4>1. /\ RP \in Nat /\ NUM_REGISTERS \in Nat
            /\ SavedBase + MAX_ARGS <= RP /\ RP < NUM_REGISTERS
        BY CallsAssumption, RegistersAssumption
      <4>. QED
        BY <1>3, <1>4, <1>17, <4>1 DEF RegisterNumbers, X0
    <3>. QED
      BY <1>10, <1>11, <3>1
  <2>3. \A k \in 1..n : k < n => frames'[k].arg = 0
    BY <1>2, <1>7, <1>16, <1>17
  <2>4. AtX0(n, cnt2, frames', machine', v)
    BY <1>6, <1>7, <1>16, <1>17, <2>1, <2>2, <2>3 DEF AtX0
  <2>. QED
    BY <1>7, <1>8, <2>4 DEF ValueAt
<1>18. ASSUME NEW v, ValueAt(frames, stack, machine, X0, v), reg = X0, g # X0
       PROVE  ValueAt(frames', stack', machine', g, v)
  <2>1. machine'[g] = v
    <3>1. SavedBase + reg = SavedBase
      BY <1>3, <1>18 DEF X0
    <3>. QED
      BY <1>10, <1>11, <1>16, <1>18, <3>1
  <2>2. \A k \in 1..n : ~Over(cnt2, k, g)
    <3>. SUFFICES ASSUME NEW k \in 1..n PROVE ~Over(cnt2, k, g)
      OBVIOUS
    <3>1. g \in Nat /\ g > 0
      BY <1>10, <1>18 DEF X0
    <3>2. CASE k = n
      BY <1>14, <1>18, <3>1, <3>2 DEF Over, X0
    <3>3. CASE k # n
      <4>1. k < n
        BY <1>2, <3>3
      <4>2. frames[k].arg = 0
        BY <1>16, <1>18, <4>1
      <4>3. cnt[k] = 1
        BY <4>1, <4>2, Counts DEF VInv, n, cnt
      <4>. QED
        BY <1>14, <3>1, <3>3, <4>3 DEF Over
    <3>. QED
      BY <3>2, <3>3
  <2>3. NameKept(n, cnt2, base, stack', machine', g, v)
    BY <2>1, <2>2 DEF NameKept, OnlyOver, SecondOver
  <2>. QED
    BY <1>7, <1>8, <1>18, <2>3 DEF ValueAt
<1>19. ASSUME NEW i \in DOMAIN map, NEW v, ValueAt(frames, stack, machine, map[i].reg, v)
       PROVE  ValueAt(frames', stack', machine', map'[i].reg, v)
  <2>1. map[i].reg \in Low /\ map[i].reg # g /\ map[i].reg \in Mapped(map)
    BY <1>10, Now DEF VInv, Mapped
  <2>2. CASE map[i].reg # X0
    <3>1. map[i].reg # reg => map[i].reg # to
      BY <1>10, <2>1
    <3>2. map'[i].reg = map[i].reg
      BY <1>12, <2>2
    <3>. QED
      BY <1>15, <1>19, <2>1, <2>2, <3>1, <3>2
  <2>3. CASE map[i].reg = X0 /\ reg # X0
    BY <1>12, <1>17, <1>19, <2>3
  <2>4. CASE map[i].reg = X0 /\ reg = X0
    BY <1>12, <1>18, <1>19, <2>1, <2>4
  <2>. QED
    BY <2>2, <2>3, <2>4
<1>20. ValuesKept'
  <2>. SUFFICES ASSUME NEW x \in Vars \ lost, env[x] # Unassigned
                PROVE  \E i \in DOMAIN map' : /\ map'[i].name = x
                         /\ ValueAt(frames', stack', machine', map'[i].reg, env[x])
    BY <1>1 DEF ValuesKept
  <2>1. PICK i \in DOMAIN map : /\ map[i].name = x
                                /\ ValueAt(frames, stack, machine, map[i].reg, env[x])
    BY <1>1, EntryOf
  <2>. QED
    BY <1>12, <1>19, <2>1
<1>. QED
  BY <1>12, <1>13, <1>20 DEF VInv

LEMMA ValuesLeaveToArgument ==
  ASSUME VInv, IInv', LeaveToArgument
  PROVE  VInv'
<1>. DEFINE n == Len(frames)
            m == n - 1
            cnt == Cnt(frames)
            base == Bas(frames)
            outer == frames[m]
            popped == Pop(Code, RP)
            v0 == popped.machine[X0]
            f == Taken(outer, X0, Top.result, Top.kept /\ outer.arg = 0)
            c2 == PutArgument(popped, outer.arg, X0, v0)
<1>1. /\ n > 1 /\ Top.back /\ Top.arg = 0 /\ ~done /\ CodeIs(c2)
      /\ frames' = Append(SubSeq(frames, 1, n - 2), f)
      /\ UNCHANGED <<map, done, env, lost>>
  BY DEF LeaveToArgument, Compiling
<1>2. /\ frames \in Seq(FrameSet) /\ n \in Nat \ {0} /\ DOMAIN frames = 1..n
      /\ InProgress(map, Code, frames) /\ Code \in Codes
      /\ Code.stack = stack /\ Code.machine = machine /\ machine \in [RegisterNumbers -> Int]
      /\ stack \in Seq(Int) /\ frames # <<>>
  <2>1. frames # <<>>
    BY <1>1
  <2>. QED
    BY <1>1, <2>1, Now DEF VInv
<1>3. /\ m \in Nat \ {0} /\ m \in 1..n /\ m < n /\ n \in 1..n /\ n = m + 1
      /\ \A k \in 1..n : k = n \/ k \in 1..m
      /\ \A k \in 1..m : k \in 1..n /\ k < n /\ k # n
      /\ \A k \in 1..m : k = m \/ (k \in 1 .. n - 2 /\ k < m)
      /\ n - 2 \in Nat /\ (n - 2) + 1 = m
  <2>. HIDE DEF n
  <2>. QED
    BY <1>1, <1>2
<1>. HIDE DEF m
<1>4. /\ cnt \in Areas(n) /\ base \in Areas(n)
      /\ Len(stack) = Height(n, cnt, base) /\ Nested(n, cnt, base)
      /\ \A k \in 1..n : cnt[k] \in 0 .. MAX_ARGS
      /\ cnt[n] = 0 /\ Top = frames[n] /\ Top \in FrameSet
      /\ outer \in FrameSet /\ ~outer.back /\ cnt[m] = outer.arg + 1
      /\ outer.arg \in 0 .. MAX_ARGS
  <2>1. Top = frames[n]
    BY DEF Top
  <2>. QED
    BY <1>1, <1>3, <2>1, Now, Counts DEF VInv
<1>5. /\ MAX_ARGS \in Nat /\ outer.arg \in Nat /\ outer.arg < MAX_ARGS
      /\ outer.arg \in RegisterNumbers /\ outer.arg \in Low
  <2>1. MAX_ARGS \in Nat /\ outer.arg + 1 \in 0 .. MAX_ARGS
    BY <1>3, <1>4, CallsAssumption
  <2>2. outer.arg \in 0 .. MAX_ARGS - 1 /\ outer.arg \in Nat /\ outer.arg < MAX_ARGS
    BY <1>4, <2>1
  <2>. QED
    BY <2>1, <2>2, Ranges
<1>6. /\ f.arg = outer.arg + 1 /\ f.base = outer.base /\ ~f.back /\ f.kept
      /\ f.means = Append(outer.means, Top.result)
      /\ f.sound = (outer.sound /\ Top.kept /\ outer.arg = 0)
      /\ f \in FrameSet
  <2>1. Top.result \in Int /\ Top.kept \in BOOLEAN /\ X0 \in RegisterNumbers
    BY <1>4, Ranges DEF FrameSet
  <2>2. (Top.kept /\ outer.arg = 0) \in BOOLEAN
    BY <2>1
  <2>3. f \in FrameSet
    BY <1>4, <1>5, <2>1, <2>2, TakenIn
  <2>. QED
    BY <2>3 DEF Taken
<1>. HIDE DEF f
<1>7. /\ Len(frames') = m /\ frames'[m] = f /\ DOMAIN frames' = 1..m
      /\ \A k \in 1..m : k # m => frames'[k] = frames[k]
  <2>. DEFINE rest == SubSeq(frames, 1, n - 2)
  <2>1. /\ rest \in Seq(FrameSet) /\ Len(rest) = n - 2
        /\ \A k \in 1 .. n - 2 : rest[k] = frames[k]
    BY <1>2, <1>3
  <2>. HIDE DEF rest
  <2>2. /\ Append(rest, f) \in Seq(FrameSet) /\ Len(Append(rest, f)) = Len(rest) + 1
        /\ Append(rest, f)[Len(rest) + 1] = f
        /\ \A k \in 1 .. Len(rest) : Append(rest, f)[k] = rest[k]
    BY <1>6, <2>1
  <2>3. DOMAIN Append(rest, f) = 1..m
    BY <1>3, <2>1, <2>2
  <2>4. frames' = Append(rest, f)
    BY <1>1 DEF rest
  <2>. QED
    BY <1>3, <2>1, <2>2, <2>3, <2>4
<1>8. \A k \in 1..m : Cnt(frames')[k] = cnt[k] /\ Bas(frames')[k] = base[k]
  <2>. SUFFICES ASSUME NEW k \in 1..m
                PROVE  Cnt(frames')[k] = cnt[k] /\ Bas(frames')[k] = base[k]
    OBVIOUS
  <2>1. cnt[k] = frames[k].arg + 1 /\ base[k] = frames[k].base
    BY <1>3, Counts DEF VInv, Bas
  <2>2. Cnt(frames')[k] = (IF k < m THEN frames'[k].arg + 1 ELSE frames'[k].arg)
        /\ Bas(frames')[k] = frames'[k].base
    BY <1>7 DEF Cnt, Bas
  <2>3. CASE k = m
    BY <1>3, <1>4, <1>6, <1>7, <2>1, <2>2, <2>3
  <2>4. CASE k # m
    BY <1>3, <1>7, <2>1, <2>2, <2>4
  <2>. QED
    BY <2>3, <2>4
<1>9. /\ Popped(stack, stack')
      /\ \A r \in RegisterNumbers : r # RP /\ r # outer.arg => machine'[r] = machine[r]
      /\ outer.arg = X0 => machine'[X0] = machine[X0]
  <2>1. Len(Code.stack) > 0 /\ RP \in RegisterNumbers /\ X0 \in RegisterNumbers /\ X0 # RP
        /\ outer.arg # RP
    BY <1>2, <1>5, StackThere, Ranges
  <2>2. /\ popped \in Codes /\ Popped(Code.stack, popped.stack)
        /\ popped.machine = [Code.machine EXCEPT ![RP] = Code.stack[Len(Code.stack)]]
    BY <1>2, <2>1, PopIs
  <2>3. \A r \in RegisterNumbers : r # RP => popped.machine[r] = machine[r]
    <3>. HIDE DEF popped
    <3>. QED
      BY <1>2, <2>1, <2>2
  <2>4. v0 \in Int
    BY <2>1, <2>2 DEF Codes
  <2>. HIDE DEF popped, outer, v0
  <2>5. /\ c2.stack = popped.stack
        /\ \A r \in RegisterNumbers : r # outer.arg => c2.machine[r] = popped.machine[r]
        /\ X0 = outer.arg => c2.machine[outer.arg] = popped.machine[outer.arg]
    <3>1. popped \in Codes /\ v0 \in Int /\ outer.arg \in RegisterNumbers
      BY <1>5, <2>2, <2>4
    <3>2. ASSUME NEW c \in Codes, NEW arg \in RegisterNumbers, NEW v \in Int
          PROVE  /\ PutArgument(c, arg, X0, v).stack = c.stack
                 /\ \A r \in RegisterNumbers :
                      r # arg => PutArgument(c, arg, X0, v).machine[r] = c.machine[r]
                 /\ X0 = arg => PutArgument(c, arg, X0, v).machine[arg] = c.machine[arg]
      BY PutArgumentAt
    <3>. QED
      BY <3>1, <3>2, Zenon
  <2>6. stack' = c2.stack /\ machine' = c2.machine
    BY <1>1 DEF CodeIs
  <2>. QED
    BY <1>2, <2>1, <2>2, <2>3, <2>5, <2>6
<1>. HIDE DEF c2, popped, v0, n, cnt, base
<1>10. FramesOk' /\ ResultKept'
  <2>1. Top' = f
    BY <1>7 DEF Top
  <2>2. Len(outer.means) = outer.arg /\ outer.means \in Seq(Int)
    BY <1>2, <1>3, <1>4 DEF VInv, FramesOk, FrameSet
  <2>3. Len(f.means) = f.arg
    BY <1>6, <2>2
  <2>4. \A k \in 1..m : /\ frames'[k].kept \/ (frames'[k].back /\ frames'[k].arg = 0)
                        /\ ~frames'[k].back => Len(frames'[k].means) = frames'[k].arg
    BY <1>2, <1>3, <1>6, <1>7, <2>3 DEF VInv, FramesOk
  <2>. QED
    BY <1>6, <1>7, <2>1, <2>4 DEF FramesOk, ResultKept
<1>11. ArgumentsArrive'
  <2>. SUFFICES ASSUME f.sound, NEW i \in DOMAIN f.means PROVE machine'[i - 1] = f.means[i]
    BY <1>7 DEF ArgumentsArrive, Top
  <2>1. Top.kept /\ outer.arg = 0
    BY <1>6
  <2>2. outer.means \in Seq(Int) /\ Len(outer.means) = 0
    BY <1>2, <1>3, <1>4, <2>1 DEF VInv, FramesOk, FrameSet
  <2>3. i = 1 /\ f.means[1] = Top.result
    <3>1. DOMAIN Append(outer.means, Top.result) = 1..1
          /\ Append(outer.means, Top.result)[1] = Top.result
      BY <2>2
    <3>. QED
      BY <1>6, <3>1
  <2>4. machine[X0] = Top.result
    BY <1>1, <1>2, <2>1 DEF VInv, ResultKept
  <2>. QED
    BY <1>9, <2>1, <2>3, <2>4 DEF X0
<1>12. ASSUME NEW r \in Low, r # X0, NEW v, ValueAt(frames, stack, machine, r, v)
       PROVE  ValueAt(frames', stack', machine', r, v)
  <2>1. r \in RegisterNumbers /\ r # RP /\ r \in Nat
    BY Ranges DEF Low
  <2>2. NameKept(n, cnt, base, stack, machine, r, v)
    BY <1>12 DEF ValueAt, n, cnt, base
  <2>3. ~Over(cnt, n, r)
    BY <1>4, <2>1 DEF Over
  <2>4. \A k \in 1..m : Over(Cnt(frames'), k, r) <=> Over(cnt, k, r)
    BY <1>8 DEF Over
  <2>5. ASSUME NEW k \in 1..n, Over(cnt, k, r)
        PROVE  /\ k \in 1..m /\ Over(Cnt(frames'), k, r)
               /\ Bas(frames')[k] = base[k] /\ stack'[base[k] + 2 + r] = stack[base[k] + 2 + r]
    <3>1. k \in 1..m /\ k # n
      BY <1>3, <2>3, <2>5
    <3>2. base[k] + 2 + r \in 1 .. Len(stack) - 1
      BY <1>2, <1>4, <2>1, <2>5, <3>1, SlotOver
    <3>3. stack'[base[k] + 2 + r] = stack[base[k] + 2 + r]
      BY <1>9, <3>2 DEF Popped
    <3>. QED
      BY <1>8, <2>4, <2>5, <3>1, <3>3
  <2>6. ASSUME NoneOver(n, cnt, r) PROVE machine'[r] = machine[r]
    <3>1. ~Over(cnt, m, r)
      BY <1>3, <2>6 DEF NoneOver
    <3>2. r # outer.arg
      BY <1>4, <1>5, <2>1, <3>1 DEF Over
    <3>. QED
      BY <1>9, <2>1, <3>2
  <2>7. ASSUME ~NoneOver(n, cnt, r) PROVE machine'[SavedBase + r] = machine[SavedBase + r]
    <3>1. /\ SavedBase + r \in RegisterNumbers /\ SavedBase + r # RP
          /\ SavedBase + r \notin Low
      BY <1>2, <1>4, <2>1, <2>7, OverLow
    <3>. QED
      BY <1>5, <1>9, <3>1
  <2>8. NameKept(m, Cnt(frames'), Bas(frames'), stack', machine', r, v)
    <3>1. n \in Nat /\ m \in Nat
      BY <1>2, <1>3
    <3>2. \A k \in 1..m : Over(Cnt(frames'), k, r) => k \in 1..n /\ Over(cnt, k, r)
      BY <1>3, <2>4
    <3>. QED
      BY <2>2, <2>5, <2>6, <2>7, <3>1, <3>2, KeptSame
  <2>. QED
    BY <1>7, <1>12, <2>8 DEF ValueAt
<1>13. ASSUME NEW v, ValueAt(frames, stack, machine, X0, v)
       PROVE  ValueAt(frames', stack', machine', X0, v)
  <2>1. AtX0(n, cnt, frames, machine, v)
    BY <1>13 DEF ValueAt, n, cnt
  <2>2. /\ Over(cnt, m, X0) /\ Over(Cnt(frames'), m, X0)
    BY <1>3, <1>4, <1>5, <1>8 DEF Over, X0
  <2>3. ~NoneOver(n, cnt, X0) /\ ~NoneOver(m, Cnt(frames'), X0)
    BY <1>3, <2>2 DEF NoneOver
  <2>4. machine'[SavedBase] = v
    <3>1. machine[SavedBase] = v
      BY <2>1, <2>3 DEF AtX0
    <3>2. X0 \in Nat /\ SavedBase + X0 = SavedBase
      BY CallsAssumption DEF X0
    <3>3. SavedBase \in RegisterNumbers /\ SavedBase # RP /\ SavedBase \notin Low
      <4>1. /\ SavedBase + X0 \in RegisterNumbers /\ SavedBase + X0 # RP
            /\ SavedBase + X0 \notin Low
        BY <1>2, <1>4, <2>3, <3>2, OverLow
      <4>. QED
        BY <3>2, <4>1
    <3>. QED
      BY <1>5, <1>9, <3>1, <3>3
  <2>5. \A k \in 1..m : k < m => frames'[k].arg = 0
    <3>. SUFFICES ASSUME NEW k \in 1..m, k < m PROVE frames'[k].arg = 0
      OBVIOUS
    <3>1. k # m /\ k \in 1..n /\ k < n
      BY <1>3
    <3>. QED
      BY <1>7, <2>1, <3>1 DEF AtX0
  <2>6. frames'[m].arg # 0
    BY <1>5, <1>6, <1>7
  <2>7. AtX0(m, Cnt(frames'), frames', machine', v)
    BY <2>3, <2>4, <2>5, <2>6 DEF AtX0
  <2>. QED
    BY <1>7, <2>7 DEF ValueAt
<1>14. ASSUME NEW i \in DOMAIN map, NEW v, ValueAt(frames, stack, machine, map[i].reg, v)
       PROVE  ValueAt(frames', stack', machine', map[i].reg, v)
  <2>1. map[i].reg \in Low
    BY Now DEF VInv
  <2>. QED
    BY <1>12, <1>13, <1>14, <2>1
<1>15. ValuesKept'
  BY <1>1, <1>14 DEF VInv, ValuesKept
<1>. QED
  BY <1>1, <1>10, <1>11, <1>15 DEF VInv

LEMMA VStep == VInv /\ [Next]_vars => VInv'
<1>. SUFFICES ASSUME VInv, [Next]_vars PROVE VInv'
  OBVIOUS
<1>1. IInv' /\ Garbage \subseteq RegisterNumbers
  BY StepInv, CallsAssumption DEF VInv
<1>2. CASE \/ \E x \in Targets, v \in Ints : AssignInt(x, v)
           \/ \E x \in Targets, v \in Larges : AssignLarge(x, v)
           \/ \E x \in Targets, y \in Vars : AssignName(x, y)
  BY <1>1, <1>2, ValuesAssign
<1>3. CASE \E x \in Targets, garbage \in Garbage : BeginCall(x, garbage)
  BY <1>1, <1>3, ValuesBegin
<1>4. CASE \E v \in Ints : ArgumentInt(v)
  BY <1>1, <1>4, ValuesArgumentInt
<1>5. CASE \E v \in Larges : ArgumentLarge(v)
  BY <1>1, <1>5, ValuesArgumentLarge
<1>6. CASE \E y \in Vars : ArgumentName(y)
  BY <1>1, <1>6, ValuesArgumentName
<1>7. CASE \E garbage \in Garbage : ArgumentCall(garbage)
  BY <1>1, <1>7, ValuesArgumentCall
<1>8. CASE \E size \in CalleeSizes, result \in Results : Branch(size, result)
  BY <1>1, <1>8, ValuesBranch
<1>9. CASE RestoreArgument
  BY <1>1, <1>9, ValuesRestore
<1>10. CASE LeaveToArgument
  BY <1>1, <1>10, ValuesLeaveToArgument
<1>11. CASE LeaveToStatement
  BY <1>1, <1>11, ValuesLeaveToStatement
<1>12. CASE UNCHANGED vars
  <2>1. UNCHANGED <<map, stack, machine, frames, done, env, lost>>
    BY <1>12 DEF vars
  <2>2. /\ FramesOk' /\ ResultKept' /\ ArgumentsArrive' /\ MapOnce(map')
    BY <2>1 DEF VInv, FramesOk, ResultKept, ArgumentsArrive, Top
  <2>3. ValuesKept'
    BY <2>1 DEF VInv, ValuesKept
  <2>. QED
    BY <1>1, <2>2, <2>3 DEF VInv
<1>. QED
  BY <1>2, <1>3, <1>4, <1>5, <1>6, <1>7, <1>8, <1>9, <1>10, <1>11, <1>12 DEF Next

LEMMA ValuesMean == VInv => ArgumentsArrive /\ VariablesSurvive
<1>. SUFFICES ASSUME VInv, frames = <<>>, ~done, NEW x \in Vars \ lost, env[x] # Unassigned
              PROVE  HasName(map, x) /\ machine[RegOf(map, x)] = env[x]
  BY DEF VInv, VariablesSurvive
<1>. QED
  BY IdleValues

LEMMA ValuesInvariance == Spec => []VInv
<1>. QED
  BY VInit, VStep, PTL DEF Spec

\* The callee finds in X0, X1, ... what the arguments mean, for every call whose
\* arguments are integers that are moved, names whose registers hold them, or a
\* call as the first of them.
THEOREM PassedArguments == Spec => []ArgumentsArrive
<1>. QED
  BY ValuesInvariance, ValuesMean, PTL

\* After every statement a variable that is not lost is where get_register
\* looks for it, however the calls in between have saved, pushed and moved it.
THEOREM KeptVariables == Spec => []VariablesSurvive
<1>. QED
  BY ValuesInvariance, ValuesMean, PTL
=============================================================================
