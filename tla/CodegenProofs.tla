--------------------------- MODULE CodegenProofs ----------------------------
(***************************************************************************)
(* For every number of registers, width and program.                       *)
(*                                                                         *)
(* IInv: as long as get_free_register takes no variable's register, names  *)
(* and registers of the map are in one-to-one correspondence and every     *)
(* variable keeps its value in its register.  The invariants after it rest *)
(* on this one: MarkInv (mapped registers are marked as used), WaitInv (no *)
(* number of a wait is above the line's), LeakInv (what stays in use),     *)
(* Types, and HoldInv (what the operands hold).                            *)
(***************************************************************************)
EXTENDS Codegen, SharedProofs

-----------------------------------------------------------------------------
(* The allocator. *)

\* The least register that the loops find.
LEMMA LowestIn ==
  ASSUME NEW S \in SUBSET Nat, S # {}
  PROVE  Lowest(S) \in S /\ \A s \in S : Lowest(S) <= s
  BY LeastIn DEF Lowest

\* get_free_intermediary_register gives a register of no name.
LEMMA FreeIntermediaryIn ==
  ASSUME NEW m, Unmapped(m) # {}
  PROVE  FreeIntermediary(m) \in RegisterNumbers \ Mapped(m)
<1>1. Unmapped(m) \in SUBSET Nat
  BY RegistersAssumption DEF Unmapped, RegisterNumbers
<1>2. Lowest(Unmapped(m)) \in Unmapped(m)
  BY <1>1, LowestIn
<1>. QED
  BY <1>2 DEF FreeIntermediary, Unmapped

\* get_free_register gives a register that is marked NOT_USED.
LEMMA FreeRegisterIn ==
  ASSUME NEW regs, Unused(regs) # {}
  PROVE  FreeRegister(regs) \in RegisterNumbers /\ regs[FreeRegister(regs)] = NOT_USED
<1>1. Unused(regs) \in SUBSET Nat
  BY RegistersAssumption DEF Unused, RegisterNumbers
<1>2. Lowest(Unused(regs)) \in Unused(regs)
  BY <1>1, LowestIn
<1>. QED
  BY <1>2 DEF FreeRegister, Unused

\* The entry that get_register finds.
LEMMA FoundEntry ==
  ASSUME NEW Es, NEW m \in Seq(Es), NEW name, HasName(m, name)
  PROVE  \E i \in DOMAIN m : m[i].name = name /\ RegOf(m, name) = m[i].reg
<1>1. RegOf(m, name) = m[FirstOf(m, name)].reg
  BY DEF RegOf, FirstOf
<1>2. FirstOf(m, name) \in DOMAIN m /\ m[FirstOf(m, name)].name = name
  BY FirstNamed DEF HasName
<1>. QED
  BY <1>1, <1>2

Entries == [name : Names, reg : RegisterNumbers]

-----------------------------------------------------------------------------
NamesOnce(m) == \A i, j \in DOMAIN m : i # j => m[i].name # m[j].name
RegsOnce(m) == \A i, j \in DOMAIN m : i # j => m[i].reg # m[j].reg

\* Every variable with a value has an entry whose register holds it.
Kept(m, mach, e) ==
  \A x \in Vars : e[x] # Unassigned =>
    \E i \in DOMAIN m : m[i].name = x /\ mach[m[i].reg] = e[x]

LEMMA MappedIn ==
  ASSUME NEW m \in Seq(Entries)
  PROVE  Mapped(m) \subseteq RegisterNumbers
<1>. SUFFICES ASSUME NEW i \in DOMAIN m PROVE m[i].reg \in RegisterNumbers
  BY DEF Mapped
<1>1. m[i] \in Entries
  OBVIOUS
<1>. QED
  BY <1>1 DEF Entries

\* get_register and the map it leaves: the entries there were, and one for the
\* name that was asked for.
LEMMA AfterGet ==
  ASSUME NEW m \in Seq(Entries), NEW name \in Names, CanGet(m, name)
  PROVE  /\ MapAfterGet(m, name) \in Seq(Entries)
         /\ GetRegister(m, name) \in RegisterNumbers
         /\ \A i \in DOMAIN m : i \in DOMAIN MapAfterGet(m, name)
                               /\ MapAfterGet(m, name)[i] = m[i]
         /\ \E k \in DOMAIN MapAfterGet(m, name) :
              /\ MapAfterGet(m, name)[k].name = name
              /\ MapAfterGet(m, name)[k].reg = GetRegister(m, name)
         /\ NamesOnce(m) => NamesOnce(MapAfterGet(m, name))
         /\ RegsOnce(m) => RegsOnce(MapAfterGet(m, name))
<1>1. CASE HasName(m, name)
  <2>1. PICK i \in DOMAIN m : m[i].name = name /\ RegOf(m, name) = m[i].reg
    BY <1>1, FoundEntry
  <2>2. m[i] \in Entries
    OBVIOUS
  <2>3. m[i].reg \in RegisterNumbers
    BY <2>2 DEF Entries
  <2>. QED
    BY <1>1, <2>1, <2>3 DEF MapAfterGet, GetRegister
<1>2. CASE ~HasName(m, name)
  <2>. DEFINE reg == FreeIntermediary(m)
              entry == [name |-> name, reg |-> reg]
  <2>1. reg \in RegisterNumbers \ Mapped(m)
    BY <1>2, FreeIntermediaryIn DEF CanGet
  <2>2. entry \in Entries /\ entry.name = name /\ entry.reg = reg
    BY <2>1 DEF Entries
  <2>3. MapAfterGet(m, name) = Append(m, entry) /\ GetRegister(m, name) = reg
    BY <1>2 DEF MapAfterGet, GetRegister
  <2>4. \A i \in DOMAIN m : m[i].name # name /\ m[i].reg # reg
    BY <1>2, <2>1 DEF HasName, Mapped
  <2>. HIDE DEF reg, entry
  <2>5. /\ Append(m, entry) \in Seq(Entries)
        /\ DOMAIN Append(m, entry) = 1 .. Len(m) + 1
        /\ DOMAIN m = 1 .. Len(m)
        /\ Len(m) \in Nat
        /\ \A i \in 1..Len(m) : Append(m, entry)[i] = m[i]
        /\ Append(m, entry)[Len(m) + 1] = entry
    BY <2>2
  <2>6. NamesOnce(m) => NamesOnce(Append(m, entry))
    BY <2>2, <2>4, <2>5 DEF NamesOnce
  <2>7. RegsOnce(m) => RegsOnce(Append(m, entry))
    BY <2>2, <2>4, <2>5 DEF RegsOnce
  <2>8. Len(m) + 1 \in DOMAIN Append(m, entry)
    BY <2>5
  <2>. QED
    BY <2>1, <2>2, <2>3, <2>5, <2>6, <2>7, <2>8
<1>. QED
  BY <1>1, <1>2

\* Writing registers of no name changes no variable.
LEMMA KeptElsewhere ==
  ASSUME NEW m, NEW mach, NEW mach2, NEW e, Kept(m, mach, e),
         \A r \in Mapped(m) : mach2[r] = mach[r]
  PROVE  Kept(m, mach2, e)
  BY DEF Kept, Mapped

\* Nor does an entry that is added.
LEMMA KeptLonger ==
  ASSUME NEW m, NEW m2, NEW mach, NEW e, Kept(m, mach, e),
         \A i \in DOMAIN m : i \in DOMAIN m2 /\ m2[i] = m[i]
  PROVE  Kept(m2, mach, e)
  BY DEF Kept

\* An assignment writes the register of its variable and of no other.
LEMMA KeptAssigned ==
  ASSUME NEW m \in Seq(Entries), NamesOnce(m), RegsOnce(m),
         NEW mach, NEW mach2, NEW e, NEW e2, Kept(m, mach, e),
         NEW k \in DOMAIN m, NEW x \in Vars, m[k].name = x,
         \A r \in RegisterNumbers : r # m[k].reg => mach2[r] = mach[r],
         \A y \in Vars : e2[y] = IF y = x THEN mach2[m[k].reg] ELSE e[y]
  PROVE  Kept(m, mach2, e2)
<1>. SUFFICES ASSUME NEW y \in Vars, e2[y] # Unassigned
              PROVE  \E i \in DOMAIN m : m[i].name = y /\ mach2[m[i].reg] = e2[y]
  BY DEF Kept
<1>1. CASE y = x
  BY <1>1
<1>2. CASE y # x
  <2>1. e2[y] = e[y]
    BY <1>2
  <2>2. PICK i \in DOMAIN m : m[i].name = y /\ mach[m[i].reg] = e[y]
    BY <2>1 DEF Kept
  <2>3. i # k /\ m[i].reg # m[k].reg
    BY <1>2, <2>2 DEF RegsOnce
  <2>4. m[i] \in Entries
    OBVIOUS
  <2>5. m[i].reg \in RegisterNumbers
    BY <2>4 DEF Entries
  <2>. QED
    BY <2>1, <2>2, <2>3, <2>5
<1>. QED
  BY <1>1, <1>2
-----------------------------------------------------------------------------
DirectiveEntries == [name : DirectiveNames, value : Nat]

\* A function of the registers.
OnRegisters(f) == f = [r \in RegisterNumbers |-> f[r]]

\* What every piece of the compiler leaves behind.
Good(m, regs, mach, ds, over, e) ==
  /\ m \in Seq(Entries)
  /\ OnRegisters(regs)
  /\ OnRegisters(mach)
  /\ ds \in Seq(DirectiveEntries) /\ ds # <<>>
  /\ ~over => NamesOnce(m) /\ RegsOnce(m) /\ Kept(m, mach, e)

IInv ==
  /\ Good(map, registers, machine, directives, overtaken, env)
  /\ line \in Nat /\ overtaken \in BOOLEAN
  /\ env = [x \in Vars |-> env[x]]

LEMMA Pushed ==
  ASSUME NEW ds \in Seq(DirectiveEntries), ds # <<>>, NEW name \in DirectiveNames,
         NEW v \in Nat
  PROVE  /\ PushDirective(ds, name, v) \in Seq(DirectiveEntries)
         /\ PushDirective(ds, name, v) # <<>>
         /\ Last(PushDirective(ds, name, v)).value \in Nat
<1>. DEFINE d == [name |-> name, value |-> v]
<1>1. d \in DirectiveEntries
  BY DEF DirectiveEntries
<1>. HIDE DEF d
<1>2. PushDirective(ds, name, v) \in {ds, Append(ds, d)}
  BY DEF PushDirective, d
<1>3. ASSUME NEW s \in Seq(DirectiveEntries), s # <<>> PROVE Last(s).value \in Nat
  <2>1. s[Len(s)] \in DirectiveEntries
    BY <1>3
  <2>. QED
    BY <2>1 DEF Last, DirectiveEntries
<1>4. Append(ds, d) \in Seq(DirectiveEntries) /\ Append(ds, d) # <<>>
  BY <1>1
<1>. QED
  BY <1>2, <1>3, <1>4

\* An entry for a new name in a register that no name has.
LEMMA Appended ==
  ASSUME NEW m \in Seq(Entries), NEW name \in Names, NEW reg \in RegisterNumbers
  PROVE  LET m2 == Append(m, [name |-> name, reg |-> reg])
         IN  /\ m2 \in Seq(Entries)
             /\ \A i \in DOMAIN m : i \in DOMAIN m2 /\ m2[i] = m[i]
             /\ Mapped(m2) = Mapped(m) \cup {reg}
             /\ ~HasName(m, name) /\ NamesOnce(m) => NamesOnce(m2)
             /\ reg \notin Mapped(m) /\ RegsOnce(m) => RegsOnce(m2)
<1>. DEFINE entry == [name |-> name, reg |-> reg]
<1>1. entry \in Entries /\ entry.name = name /\ entry.reg = reg
  BY DEF Entries
<1>. HIDE DEF entry
<1>2. /\ Append(m, entry) \in Seq(Entries)
      /\ DOMAIN Append(m, entry) = 1 .. Len(m) + 1
      /\ DOMAIN m = 1 .. Len(m)
      /\ Len(m) \in Nat
      /\ \A i \in 1..Len(m) : Append(m, entry)[i] = m[i]
      /\ Append(m, entry)[Len(m) + 1] = entry
  BY <1>1
<1>3. Mapped(Append(m, entry)) = Mapped(m) \cup {reg}
  <2>1. \A i \in DOMAIN Append(m, entry) : i = Len(m) + 1 \/ i \in DOMAIN m
    BY <1>2
  <2>2. Len(m) + 1 \in DOMAIN Append(m, entry) /\ DOMAIN m \subseteq DOMAIN Append(m, entry)
    BY <1>2
  <2>. QED
    BY <1>1, <1>2, <2>1, <2>2 DEF Mapped
<1>4. ~HasName(m, name) /\ NamesOnce(m) => NamesOnce(Append(m, entry))
  BY <1>1, <1>2 DEF NamesOnce, HasName
<1>5. reg \notin Mapped(m) /\ RegsOnce(m) => RegsOnce(Append(m, entry))
  BY <1>1, <1>2 DEF RegsOnce, Mapped
<1>6. \A i \in DOMAIN m : i \in DOMAIN Append(m, entry) /\ Append(m, entry)[i] = m[i]
  BY <1>2
<1>. QED
  BY <1>2, <1>3, <1>4, <1>5, <1>6 DEF entry

\* free_register drops an entry only when the register was a variable's.
LEMMA AfterFree ==
  ASSUME NEW m \in Seq(Entries), NEW reg
  PROVE  /\ MapAfterFree(m, reg) \in Seq(Entries)
         /\ reg \notin Mapped(m) => MapAfterFree(m, reg) = m
<1>1. reg \in Mapped(m) => m # <<>>
  BY DEF Mapped
<1>2. m # <<>> => Tail(m) \in Seq(Entries)
  OBVIOUS
<1>. QED
  BY <1>1, <1>2 DEF MapAfterFree

\* A store to a device register leaves the variables alone, or takes one of
\* their registers.
LEMMA StoreGood ==
  ASSUME NEW c, NEW e,
         Good(c.map, c.registers, c.machine, c.directives, c.overtaken, e),
         c.overtaken \in BOOLEAN, c.line \in Nat, TwoUnused(c.registers),
         NEW device \in DirectiveNames, NEW imm, NEW name,
         name = NoName \/ (name \in Pins /\ ~HasName(c.map, name)),
         NEW d, d = StoreTo(c, device, imm, name)
  PROVE  /\ Good(d.map, d.registers, d.machine, d.directives, d.overtaken, e)
         /\ d.overtaken \in BOOLEAN
         /\ d.line \in Nat
<1>. DEFINE ds == PushDirective(c.directives, device, Address)
            address_reg == FreeRegister(c.registers)
            named == IF name = NoName THEN c.map
                     ELSE Append(c.map, [name |-> name, reg |-> address_reg])
            addressed == [c.registers EXCEPT ![address_reg] = Last(ds).value]
            move_reg == FreeRegister(addressed)
<1>1. /\ d.map = MapAfterFree(named, move_reg)
      /\ d.registers = Freed([addressed EXCEPT ![move_reg] = imm], move_reg)
      /\ d.machine = [c.machine EXCEPT ![address_reg] = Word(Last(ds).value),
                                        ![move_reg] = Token(imm)]
      /\ d.line = c.line + 3
      /\ d.directives = ds
      /\ d.overtaken = (c.overtaken \/ {address_reg, move_reg} \cap Mapped(c.map) # {})
  BY DEF StoreTo
<1>2. /\ c.map \in Seq(Entries)
      /\ OnRegisters(c.registers)
      /\ OnRegisters(c.machine)
      /\ c.directives \in Seq(DirectiveEntries)
      /\ c.directives # <<>>
      /\ ~c.overtaken => NamesOnce(c.map) /\ RegsOnce(c.map) /\ Kept(c.map, c.machine, e)
  BY DEF Good
<1>3. ds \in Seq(DirectiveEntries) /\ ds # <<>> /\ Last(ds).value \in Nat
  BY <1>2, Pushed, CodegenAssumption
<1>. HIDE DEF ds
<1>4. address_reg \in RegisterNumbers /\ c.registers[address_reg] = NOT_USED
  BY FreeRegisterIn DEF TwoUnused
<1>5. OnRegisters(addressed)
  BY <1>2 DEF OnRegisters
<1>6. move_reg \in RegisterNumbers /\ move_reg # address_reg
  <2>1. PICK r, s \in Unused(c.registers) : r # s
    BY DEF TwoUnused
  <2>2. addressed[address_reg] # NOT_USED
    BY <1>2, <1>3, <1>4 DEF NOT_USED, OnRegisters
  <2>3. \A q \in RegisterNumbers : q # address_reg => addressed[q] = c.registers[q]
    BY <1>2 DEF OnRegisters
  <2>4. Unused(addressed) # {}
    BY <2>1, <2>3 DEF Unused
  <2>5. move_reg \in RegisterNumbers /\ addressed[move_reg] = NOT_USED
    BY <2>4, FreeRegisterIn
  <2>. QED
    BY <2>2, <2>5
<1>. HIDE DEF address_reg, addressed, move_reg
<1>7. name # NoName => name \in Names /\ name \in Pins /\ ~HasName(c.map, name)
  BY DEF Names
<1>8. /\ named \in Seq(Entries)
      /\ \A i \in DOMAIN c.map : i \in DOMAIN named /\ named[i] = c.map[i]
      /\ Mapped(named) \subseteq Mapped(c.map) \cup {address_reg}
      /\ NamesOnce(c.map) => NamesOnce(named)
      /\ address_reg \notin Mapped(c.map) /\ RegsOnce(c.map) => RegsOnce(named)
  <2>1. CASE name = NoName
    BY <1>2, <2>1
  <2>2. CASE name # NoName
    BY <1>2, <1>4, <1>7, <2>2, Appended
  <2>. QED
    BY <2>1, <2>2
<1>. HIDE DEF named
<1>9. d.map \in Seq(Entries) /\ (move_reg \notin Mapped(named) => d.map = named)
  BY <1>1, <1>8, AfterFree
<1>10. /\ OnRegisters(d.registers)
       /\ OnRegisters(d.machine)
  BY <1>1, <1>2, <1>5 DEF Freed, OnRegisters
<1>11. ASSUME ~d.overtaken
       PROVE  NamesOnce(d.map) /\ RegsOnce(d.map) /\ Kept(d.map, d.machine, e)
  <2>1. ~c.overtaken /\ address_reg \notin Mapped(c.map) /\ move_reg \notin Mapped(c.map)
    BY <1>1, <1>11
  <2>2. d.map = named
    BY <1>6, <1>8, <1>9, <2>1
  <2>3. \A r \in Mapped(c.map) : d.machine[r] = c.machine[r]
    <3>1. \A r \in RegisterNumbers : r # address_reg /\ r # move_reg
                                     => d.machine[r] = c.machine[r]
      BY <1>1, <1>2 DEF OnRegisters
    <3>2. Mapped(c.map) \subseteq RegisterNumbers
      BY <1>2, MappedIn
    <3>. QED
      BY <2>1, <3>1, <3>2
  <2>4. Kept(c.map, d.machine, e)
    BY <1>2, <2>1, <2>3, KeptElsewhere
  <2>5. Kept(named, d.machine, e)
    BY <1>8, <2>4, KeptLonger
  <2>. QED
    BY <1>2, <1>8, <2>1, <2>2, <2>5
<1>12. Good(d.map, d.registers, d.machine, d.directives, d.overtaken, e)
  BY <1>1, <1>3, <1>9, <1>10, <1>11 DEF Good
<1>13. d.overtaken \in BOOLEAN
  BY <1>1
<1>14. d.line \in Nat
  BY <1>1
<1>. QED
  BY <1>12, <1>13, <1>14
-----------------------------------------------------------------------------
LEMMA InitInvariant == Init => IInv
<1>. SUFFICES ASSUME Init PROVE IInv
  OBVIOUS
<1>1. map = <<>> /\ line = 2 /\ overtaken = FALSE
  BY DEF Init
<1>2. /\ OnRegisters(registers)
      /\ OnRegisters(machine)
      /\ env = [x \in Vars |-> env[x]]
      /\ \A x \in Vars : env[x] = Unassigned
  BY DEF Init, OnRegisters
<1>3. directives \in Seq(DirectiveEntries) /\ directives # <<>>
  <2>. DEFINE d == [name |-> <<"stack_pointer", 0>>, value |-> StackPointer]
  <2>1. d \in DirectiveEntries
    <3>1. {StackPointer} \subseteq Nat
      BY CodegenAssumption
    <3>2. StackPointer \in Nat
      BY <3>1
    <3>3. <<"stack_pointer", 0>> \in DirectiveNames
      BY DEF DirectiveNames
    <3>. QED
      BY <3>2, <3>3 DEF DirectiveEntries
  <2>2. directives = <<d>>
    BY DEF Init
  <2>. HIDE DEF d
  <2>. QED
    BY <2>1, <2>2
<1>4. map \in Seq(Entries)
  BY <1>1
<1>5. NamesOnce(map) /\ RegsOnce(map)
  BY <1>1 DEF NamesOnce, RegsOnce
<1>6. Kept(map, machine, env)
  BY <1>2 DEF Kept
<1>7. Good(map, registers, machine, directives, overtaken, env)
  BY <1>2, <1>3, <1>4, <1>5, <1>6 DEF Good
<1>. QED
  BY <1>1, <1>2, <1>7 DEF IInv

\* An expression writes only registers of no name.
LEMMA ScratchStep ==
  ASSUME IInv, Unmapped(map) # {}, UNCHANGED <<map, env, overtaken>>,
         OnRegisters(machine'),
         \A r \in RegisterNumbers : r # FreeIntermediary(map) => machine'[r] = machine[r],
         OnRegisters(registers'),
         directives' \in Seq(DirectiveEntries), directives' # <<>>, line' \in Nat
  PROVE  IInv'
<1>1. FreeIntermediary(map) \in RegisterNumbers \ Mapped(map)
  BY FreeIntermediaryIn
<1>3. \A r \in Mapped(map) : machine'[r] = machine[r]
  <2>1. Mapped(map) \subseteq RegisterNumbers
    BY MappedIn DEF IInv, Good
  <2>. QED
    BY <1>1, <2>1 DEF IInv, Good
<1>4. ~overtaken => Kept(map, machine', env)
  BY <1>3, KeptElsewhere DEF IInv, Good
<1>. QED
  BY <1>4 DEF IInv, Good

\* An assignment writes the register that get_register gives.
LEMMA AssignStep ==
  ASSUME IInv, NEW x \in Vars, CanGet(map, x),
         map' = MapAfterGet(map, x),
         OnRegisters(registers'),
         OnRegisters(machine'),
         \A r \in RegisterNumbers : r # GetRegister(map, x) => machine'[r] = machine[r],
         env' = [env EXCEPT ![x] = machine'[GetRegister(map, x)]],
         line' \in Nat, UNCHANGED <<directives, overtaken>>
  PROVE  IInv'
<1>. DEFINE reg == GetRegister(map, x)
<1>1. /\ map' \in Seq(Entries)
      /\ reg \in RegisterNumbers
      /\ \A i \in DOMAIN map : i \in DOMAIN map' /\ map'[i] = map[i]
      /\ NamesOnce(map) => NamesOnce(map')
      /\ RegsOnce(map) => RegsOnce(map')
  BY AfterGet DEF IInv, Good, Names
<1>2. PICK k \in DOMAIN map' : map'[k].name = x /\ map'[k].reg = reg
  BY AfterGet DEF IInv, Good, Names
<1>3. /\ OnRegisters(machine')
      /\ \A r \in RegisterNumbers : r # reg => machine'[r] = machine[r]
  BY DEF IInv, Good
<1>4. /\ env' = [y \in Vars |-> env'[y]]
      /\ \A y \in Vars : env'[y] = IF y = x THEN machine'[reg] ELSE env[y]
  BY DEF IInv
<1>5. ASSUME ~overtaken PROVE Kept(map', machine', env')
  <2>. HIDE DEF reg
  <2>1. Kept(map', machine, env)
    BY <1>1, <1>5, KeptLonger DEF IInv, Good
  <2>2. NamesOnce(map') /\ RegsOnce(map')
    BY <1>1, <1>5 DEF IInv, Good
  <2>. QED
    BY <1>1, <1>2, <1>3, <1>4, <2>1, <2>2, KeptAssigned
<1>. QED
  BY <1>1, <1>3, <1>4, <1>5 DEF IInv, Good

LEMMA NextInvariant == IInv /\ [Next]_vars => IInv'
<1>. SUFFICES ASSUME IInv, [Next]_vars PROVE IInv'
  OBVIOUS
<1>. USE IInv
<1>1. ASSUME NEW x \in Vars, EvalName(x) PROVE IInv'
  <2>1. /\ CanGet(map, x)
        /\ map' = MapAfterGet(map, x)
        /\ registers' = RegistersAfterGet(map, registers, x)
        /\ UNCHANGED <<line, directives, machine, env, overtaken>>
    BY <1>1 DEF EvalName, tables, history
  <2>2. /\ map' \in Seq(Entries)
        /\ \A i \in DOMAIN map : i \in DOMAIN map' /\ map'[i] = map[i]
        /\ NamesOnce(map) => NamesOnce(map')
        /\ RegsOnce(map) => RegsOnce(map')
    BY <2>1, AfterGet DEF IInv, Good, Names
  <2>3. ~overtaken => Kept(map', machine, env)
    BY <2>2, KeptLonger DEF IInv, Good
  <2>4. OnRegisters(registers')
    BY <2>1 DEF IInv, Good, OnRegisters, RegistersAfterGet
  <2>. QED
    BY <2>1, <2>2, <2>3, <2>4 DEF IInv, Good
<1>2. ASSUME NEW v \in Ints, EvalInt(v) PROVE IInv'
  <2>. DEFINE reg == FreeIntermediary(map)
  <2>1. /\ Unmapped(map) # {}
        /\ UNCHANGED <<map, env, overtaken>>
        /\ registers' = [registers EXCEPT ![reg] = v]
        /\ line' = line + 1
    BY <1>2 DEF EvalInt, history
  <2>2. OnRegisters(registers')
    BY <2>1 DEF IInv, Good, OnRegisters
  <2>. DEFINE Written == /\ OnRegisters(machine')
                         /\ \A r \in RegisterNumbers : r # reg => machine'[r] = machine[r]
  <2>. DEFINE Small == machine' = [machine EXCEPT ![reg] = Token(v)]
                       /\ directives' = directives
              Large == machine' = [machine EXCEPT ![reg] = Word(Last(directives').value)]
                       /\ directives' = PushDirective(directives, <<"dir", Len(directives)>>, v)
  <2>3. Small \/ Large
    BY <1>2 DEF EvalInt
  <2>4. Written
    BY <2>3 DEF IInv, Good, OnRegisters
  <2>5. directives' \in Seq(DirectiveEntries) /\ directives' # <<>>
    <3>1. v \in Nat /\ <<"dir", Len(directives)>> \in DirectiveNames
      BY CodegenAssumption DEF IInv, Good, DirectiveNames
    <3>. QED
      BY <2>3, <3>1, Pushed DEF IInv, Good
  <2>. QED
    BY <2>1, <2>2, <2>4, <2>5, ScratchStep DEF IInv, Good
<1>3. ASSUME NEW op \in Ops, EvalBinary(op) PROVE IInv'
  <2>. DEFINE dest == FreeIntermediary(map)
              computed == [registers EXCEPT ![dest] = Apply(op, Top(1).reg, Top(0).reg)]
              result == Word(Apply(op, machine[Top(1).reg], machine[Top(0).reg]))
  <2>1. /\ Unmapped(map) # {}
        /\ UNCHANGED <<map, directives, env, overtaken>>
        /\ machine' = [machine EXCEPT ![dest] = result]
        /\ registers' = FreedIntermediary(map, FreedIntermediary(map, computed, Top(1).reg),
                                          Top(0).reg)
        /\ line' = line + 1
    BY <1>3 DEF EvalBinary, tables, history
  <2>. HIDE DEF result
  <2>2. OnRegisters(computed)
    BY DEF IInv, Good, OnRegisters
  <2>. HIDE DEF computed
  <2>3. OnRegisters(registers')
    BY <2>1, <2>2 DEF OnRegisters, FreedIntermediary, Freed
  <2>4. /\ OnRegisters(machine')
        /\ \A r \in RegisterNumbers : r # dest => machine'[r] = machine[r]
    BY <2>1 DEF IInv, Good, OnRegisters
  <2>. QED
    BY <2>1, <2>3, <2>4, ScratchStep DEF IInv, Good
<1>4. ASSUME NEW op \in {"-", "~"}, EvalUnary(op) PROVE IInv'
  <2>. DEFINE dest == FreeIntermediary(map)
              cleared == [registers EXCEPT ![dest] = 0]
              computed == [cleared EXCEPT ![dest] = Negated(op, cleared[Top(0).reg])]
              result == Word(Negated(op, machine[Top(0).reg]))
  <2>1. /\ Unmapped(map) # {}
        /\ UNCHANGED <<map, directives, env, overtaken>>
        /\ machine' = [machine EXCEPT ![dest] = result]
        /\ registers' = FreedIntermediary(map, computed, Top(0).reg)
        /\ line' = line + 1
    BY <1>4 DEF EvalUnary, tables, history
  <2>. HIDE DEF result
  <2>2. OnRegisters(computed)
    BY DEF IInv, Good, OnRegisters
  <2>. HIDE DEF computed
  <2>3. OnRegisters(registers')
    BY <2>1, <2>2 DEF OnRegisters, FreedIntermediary, Freed
  <2>4. /\ OnRegisters(machine')
        /\ \A r \in RegisterNumbers : r # dest => machine'[r] = machine[r]
    BY <2>1 DEF IInv, Good, OnRegisters
  <2>. QED
    BY <2>1, <2>3, <2>4, ScratchStep DEF IInv, Good
<1>5. ASSUME NEW x \in Vars, NEW v \in Ints, AssignInt(x, v) PROVE IInv'
  <2>. DEFINE reg == GetRegister(map, x)
              taken == RegistersAfterGet(map, registers, x)
  <2>1. /\ CanGet(map, x)
        /\ map' = MapAfterGet(map, x)
        /\ registers' = [taken EXCEPT ![reg] = v]
        /\ machine' = [machine EXCEPT ![reg] = Token(v)]
        /\ env' = [env EXCEPT ![x] = machine'[reg]]
        /\ line' = line + 1
        /\ UNCHANGED <<directives, overtaken>>
    BY <1>5 DEF AssignInt, tables
  <2>2. OnRegisters(taken)
    BY DEF IInv, Good, OnRegisters, RegistersAfterGet
  <2>. HIDE DEF taken
  <2>3. OnRegisters(registers')
    BY <2>1, <2>2 DEF OnRegisters
  <2>4. /\ OnRegisters(machine')
        /\ \A r \in RegisterNumbers : r # reg => machine'[r] = machine[r]
    BY <2>1 DEF IInv, Good, OnRegisters
  <2>5. line' \in Nat
    BY <2>1 DEF IInv
  <2>. QED
    BY <2>1, <2>3, <2>4, <2>5, AssignStep
<1>6. ASSUME NEW x \in Vars, AssignExpression(x) PROVE IInv'
  <2>. DEFINE reg == GetRegister(map, x)
              from == pending[1].reg
              taken == RegistersAfterGet(map, registers, x)
  <2>1. /\ CanGet(map, x)
        /\ map' = MapAfterGet(map, x)
        /\ env' = [env EXCEPT ![x] = machine'[reg]]
        /\ UNCHANGED <<directives, overtaken>>
        /\ \/ /\ machine' = [machine EXCEPT ![reg] = machine[from]]
              /\ registers' = [taken EXCEPT ![reg] = taken[from]]
              /\ line' = line + 1
           \/ machine' = machine /\ registers' = taken /\ line' = line
    BY <1>6 DEF AssignExpression, tables
  <2>2. OnRegisters(taken)
    BY DEF IInv, Good, OnRegisters, RegistersAfterGet
  <2>. HIDE DEF taken
  <2>3. OnRegisters(registers') /\ line' \in Nat
    BY <2>1, <2>2 DEF IInv, OnRegisters
  <2>4. /\ OnRegisters(machine')
        /\ \A r \in RegisterNumbers : r # reg => machine'[r] = machine[r]
    BY <2>1 DEF IInv, Good, OnRegisters
  <2>. QED
    BY <2>1, <2>3, <2>4, AssignStep
<1>7. ASSUME NEW pin \in Pins, NEW on \in BOOLEAN, Gpio(pin, on) PROVE IInv'
  <2>. DEFINE selects == ~HasName(map, pin)
              selected == IF selects THEN fsel_value(Context, pin) ELSE Context
              c == IF on THEN set_value(selected, pin) ELSE clear_value(selected, pin)
              Fine(d) == /\ Good(d.map, d.registers, d.machine, d.directives, d.overtaken, env)
                         /\ d.overtaken \in BOOLEAN
                         /\ d.line \in Nat
  <2>1. /\ selects => TwoUnused(registers)
        /\ TwoUnused(selected.registers)
        /\ map' = c.map /\ registers' = c.registers /\ machine' = c.machine
        /\ line' = c.line /\ directives' = c.directives /\ overtaken' = c.overtaken
        /\ env' = env
    BY <1>7 DEF Gpio
  <2>2. pin \in 0..10 /\ pin # NoName
    BY CodegenAssumption DEF NoName
  <2>3. /\ <<"gpio_fsel", pin \div 10>> \in DirectiveNames
        /\ <<"gpio_set", pin \div 32>> \in DirectiveNames
        /\ <<"gpio_clear", pin \div 32>> \in DirectiveNames
    BY <2>2 DEF DirectiveNames
  <2>4. /\ Context.map = map /\ Context.registers = registers
        /\ Fine(Context)
    BY DEF Context, IInv
  <2>5. Fine(selected)
    <3>1. CASE selects
      <4>1. TwoUnused(Context.registers) /\ ~HasName(Context.map, pin)
        BY <2>1, <2>4, <3>1
      <4>2. selected = StoreTo(Context, <<"gpio_fsel", pin \div 10>>, 2^(3 * pin), pin)
        BY <3>1 DEF fsel_value
      <4>. HIDE DEF selected
      <4>. QED
        BY <2>3, <2>4, <4>1, <4>2, StoreGood
    <3>2. CASE ~selects
      BY <2>4, <3>2
    <3>. QED
      BY <3>1, <3>2
  <2>6. Fine(c)
    <3>1. \E device \in DirectiveNames : c = StoreTo(selected, device, 2^pin, NoName)
      BY <2>3 DEF set_value, clear_value
    <3>. HIDE DEF selected, c
    <3>. QED
      BY <2>1, <2>5, <3>1, StoreGood
  <2>. HIDE DEF c
  <2>. QED
    BY <2>1, <2>6 DEF IInv
<1>8. ASSUME NEW time \in Times, Wait(time) PROVE IInv'
  <2>. DEFINE reg == FreeRegister(registers)
  <2>1. /\ Unused(registers) # {}
        /\ directives' = PushDirective(directives, <<"wait_time", WaitNumber(line)>>,
                                       time * WAIT_SECOND)
        /\ map' = MapAfterFree(map, reg)
        /\ registers' = Freed([registers EXCEPT ![reg] = time * WAIT_SECOND], reg)
        /\ machine' = [machine EXCEPT ![reg] = 0]
        /\ line' = line + 3
        /\ overtaken' = (overtaken \/ reg \in Mapped(map))
        /\ env' = env
    BY <1>8 DEF Wait
  <2>2. <<"wait_time", WaitNumber(line)>> \in DirectiveNames
    BY DEF WaitNumber, IInv, DirectiveNames
  <2>3. time * WAIT_SECOND \in Nat
    <3>1. {WAIT_SECOND} \subseteq Nat
      BY CodegenAssumption
    <3>2. WAIT_SECOND \in Nat /\ time \in Nat
      BY <3>1, CodegenAssumption
    <3>. QED
      BY <3>2
  <2>4. directives' \in Seq(DirectiveEntries) /\ directives' # <<>>
    BY <2>1, <2>2, <2>3, Pushed DEF IInv, Good
  <2>5. map' \in Seq(Entries) /\ (reg \notin Mapped(map) => map' = map)
    BY <2>1, AfterFree DEF IInv, Good
  <2>6. OnRegisters(registers')
    BY <2>1 DEF IInv, Good, OnRegisters, Freed
  <2>7. OnRegisters(machine')
    BY <2>1 DEF IInv, Good, OnRegisters
  <2>8. ASSUME ~overtaken' PROVE NamesOnce(map') /\ RegsOnce(map') /\ Kept(map', machine', env)
    <3>1. ~overtaken /\ reg \notin Mapped(map) /\ map' = map
      BY <2>1, <2>5, <2>8
    <3>2. \A r \in Mapped(map) : machine'[r] = machine[r]
      <4>1. Mapped(map) \subseteq RegisterNumbers
        BY MappedIn DEF IInv, Good
      <4>. QED
        BY <2>1, <3>1, <4>1 DEF IInv, Good, OnRegisters
    <3>3. Kept(map, machine', env)
      BY <3>1, <3>2, KeptElsewhere DEF IInv, Good
    <3>. QED
      BY <3>1, <3>3 DEF IInv, Good
  <2>9. line' \in Nat /\ overtaken' \in BOOLEAN
    BY <2>1 DEF IInv
  <2>. QED
    BY <2>1, <2>4, <2>5, <2>6, <2>7, <2>8, <2>9 DEF IInv, Good
<1>9. CASE UNCHANGED vars
  BY <1>9 DEF vars, IInv, Good
<1>. QED
  BY <1>1, <1>2, <1>3, <1>4, <1>5, <1>6, <1>7, <1>8, <1>9 DEF Next

LEMMA Invariant == Spec => []IInv
  BY InitInvariant, NextInvariant, PTL DEF Spec

\* As long as get_free_register takes no variable's register, every name has
\* one register and every register one name (get_register, free_register).
THEOREM RegistersOneToOne == Spec => []OneRegisterEach
<1>1. IInv => OneRegisterEach
  BY DEF IInv, Good, OneRegisterEach, NamesOnce, RegsOnce
<1>. QED
  BY <1>1, Invariant, PTL

\* And every variable keeps, in the register get_register finds for it, what
\* it was assigned.
THEOREM AssignmentsKept == Spec => []VariablesKept
<1>1. IInv => VariablesKept
  <2>. SUFFICES ASSUME IInv, ~overtaken, NEW x \in Vars, env[x] # Unassigned
                PROVE  HasName(map, x) /\ machine[RegOf(map, x)] = env[x]
    BY DEF VariablesKept
  <2>1. PICK i \in DOMAIN map : map[i].name = x /\ machine[map[i].reg] = env[x]
    BY DEF IInv, Good, Kept
  <2>2. HasName(map, x)
    BY <2>1 DEF HasName
  <2>3. PICK j \in DOMAIN map : map[j].name = x /\ RegOf(map, x) = map[j].reg
    BY <2>2, FoundEntry DEF IInv, Good
  <2>4. i = j
    BY <2>1, <2>3 DEF IInv, Good, NamesOnce
  <2>. QED
    BY <2>1, <2>2, <2>3, <2>4
<1>. QED
  BY <1>1, Invariant, PTL
-----------------------------------------------------------------------------
(* Until an expression is moved into a variable, a register of the map is    *)
(* marked as used, so that get_free_register does not find it.               *)
InUse(m, regs) == \A r \in Mapped(m) : regs[r] # NOT_USED

MarkInv == ~moved => ~overtaken /\ InUse(map, registers)

\* get_register marks the register of a new entry.
LEMMA GetMarks ==
  ASSUME NEW m \in Seq(Entries), NEW name \in Names, CanGet(m, name),
         NEW regs, OnRegisters(regs), InUse(m, regs)
  PROVE  InUse(MapAfterGet(m, name), RegistersAfterGet(m, regs, name))
<1>1. CASE HasName(m, name)
  BY <1>1 DEF MapAfterGet, RegistersAfterGet
<1>2. CASE ~HasName(m, name)
  <2>. DEFINE reg == FreeIntermediary(m)
  <2>1. reg \in RegisterNumbers
    BY <1>2, FreeIntermediaryIn DEF CanGet
  <2>2. Mapped(MapAfterGet(m, name)) = Mapped(m) \cup {reg}
    BY <1>2, <2>1, Appended DEF MapAfterGet, GetRegister
  <2>3. /\ RegistersAfterGet(m, regs, name)[reg] = 0
        /\ \A r \in RegisterNumbers : r # reg => RegistersAfterGet(m, regs, name)[r] = regs[r]
    BY <1>2, <2>1 DEF RegistersAfterGet, GetRegister, OnRegisters
  <2>4. Mapped(m) \subseteq RegisterNumbers
    BY MappedIn
  <2>. HIDE DEF reg
  <2>. QED
    BY <2>2, <2>3, <2>4 DEF InUse, NOT_USED
<1>. QED
  BY <1>1, <1>2

\* Registers of no name may be written and given back.
LEMMA ScratchMarks ==
  ASSUME NEW m \in Seq(Entries), NEW regs, NEW regs2, InUse(m, regs),
         \A r \in Mapped(m) : regs2[r] = regs[r]
  PROVE  InUse(m, regs2)
  BY DEF InUse

LEMMA FreedKeeps ==
  ASSUME NEW m \in Seq(Entries), NEW regs, OnRegisters(regs), NEW reg
  PROVE  /\ OnRegisters(FreedIntermediary(m, regs, reg))
         /\ \A r \in Mapped(m) : FreedIntermediary(m, regs, reg)[r] = regs[r]
<1>1. Mapped(m) \subseteq RegisterNumbers
  BY MappedIn
<1>. QED
  BY <1>1 DEF FreedIntermediary, Freed, OnRegisters

\* A store takes two registers that are marked free, and gives one back.
LEMMA StoreMarks ==
  ASSUME NEW c, c.map \in Seq(Entries), OnRegisters(c.registers),
         c.directives \in Seq(DirectiveEntries), c.directives # <<>>,
         c.overtaken = FALSE, InUse(c.map, c.registers), TwoUnused(c.registers),
         NEW device \in DirectiveNames, NEW imm, NEW name \in Pins \cup {NoName},
         NEW d, d = StoreTo(c, device, imm, name)
  PROVE  d.overtaken = FALSE /\ InUse(d.map, d.registers)
<1>. DEFINE ds == PushDirective(c.directives, device, Address)
            address_reg == FreeRegister(c.registers)
            named == IF name = NoName THEN c.map
                     ELSE Append(c.map, [name |-> name, reg |-> address_reg])
            addressed == [c.registers EXCEPT ![address_reg] = Last(ds).value]
            move_reg == FreeRegister(addressed)
<1>1. /\ d.map = MapAfterFree(named, move_reg)
      /\ d.registers = Freed([addressed EXCEPT ![move_reg] = imm], move_reg)
      /\ d.overtaken = (c.overtaken \/ {address_reg, move_reg} \cap Mapped(c.map) # {})
  BY DEF StoreTo
<1>2. Last(ds).value \in Nat
  BY Pushed, CodegenAssumption
<1>. HIDE DEF ds
<1>3. address_reg \in RegisterNumbers /\ c.registers[address_reg] = NOT_USED
  BY FreeRegisterIn DEF TwoUnused
<1>4. /\ OnRegisters(addressed)
      /\ addressed[address_reg] # NOT_USED
      /\ \A q \in RegisterNumbers : q # address_reg => addressed[q] = c.registers[q]
  BY <1>2, <1>3 DEF OnRegisters, NOT_USED
<1>5. move_reg \in RegisterNumbers /\ addressed[move_reg] = NOT_USED
  <2>1. PICK r, s \in Unused(c.registers) : r # s
    BY DEF TwoUnused
  <2>2. Unused(addressed) # {}
    BY <1>4, <2>1 DEF Unused
  <2>. QED
    BY <2>2, FreeRegisterIn
<1>. HIDE DEF address_reg, addressed, move_reg
<1>6. Mapped(c.map) \subseteq RegisterNumbers
  BY MappedIn
<1>7. address_reg \notin Mapped(c.map) /\ move_reg \notin Mapped(c.map)
  BY <1>3, <1>4, <1>5, <1>6 DEF InUse
<1>8. Mapped(named) \subseteq Mapped(c.map) \cup {address_reg}
  <2>1. CASE name = NoName
    BY <2>1
  <2>2. CASE name # NoName
    <3>1. name \in Names
      BY <2>2 DEF Names
    <3>. QED
      BY <1>3, <2>2, <3>1, Appended
  <2>. QED
    BY <2>1, <2>2
<1>. HIDE DEF named
<1>9. d.map = named
  BY <1>1, <1>4, <1>5, <1>7, <1>8 DEF MapAfterFree
<1>10. \A r \in RegisterNumbers : r # move_reg => d.registers[r] = addressed[r]
  BY <1>1, <1>4 DEF Freed, OnRegisters
<1>11. \A r \in Mapped(named) : d.registers[r] # NOT_USED
  BY <1>3, <1>4, <1>5, <1>6, <1>7, <1>8, <1>10 DEF InUse
<1>. QED
  BY <1>1, <1>7, <1>9, <1>11 DEF InUse

LEMMA MarkInit == Init => MarkInv
  BY DEF Init, MarkInv, InUse, Mapped

LEMMA MarkNext == IInv /\ MarkInv /\ [Next]_vars => MarkInv'
<1>. SUFFICES ASSUME IInv, MarkInv, [Next]_vars, ~moved'
              PROVE  ~overtaken' /\ InUse(map, registers)'
  BY DEF MarkInv
<1>1. /\ map \in Seq(Entries)
      /\ OnRegisters(registers)
      /\ directives \in Seq(DirectiveEntries) /\ directives # <<>>
      /\ overtaken \in BOOLEAN
      /\ Mapped(map) \subseteq RegisterNumbers
  BY MappedIn DEF IInv, Good
<1>2. ASSUME NEW x \in Vars, EvalName(x)
      PROVE  ~overtaken' /\ InUse(map', registers')
  <2>1. /\ CanGet(map, x)
        /\ map' = MapAfterGet(map, x)
        /\ registers' = RegistersAfterGet(map, registers, x)
        /\ moved' = moved /\ overtaken' = overtaken
    BY <1>2 DEF EvalName, history
  <2>. QED
    BY <1>1, <2>1, GetMarks DEF MarkInv, Names
<1>3. ASSUME NEW v \in Ints, EvalInt(v)
      PROVE  ~overtaken' /\ InUse(map', registers')
  <2>1. /\ Unmapped(map) # {}
        /\ registers' = [registers EXCEPT ![FreeIntermediary(map)] = v]
        /\ map' = map /\ moved' = moved /\ overtaken' = overtaken
    BY <1>3 DEF EvalInt, history
  <2>2. FreeIntermediary(map) \notin Mapped(map)
    BY <2>1, FreeIntermediaryIn
  <2>3. \A r \in Mapped(map) : registers'[r] = registers[r]
    BY <1>1, <2>1, <2>2 DEF OnRegisters
  <2>. QED
    BY <1>1, <2>1, <2>3, ScratchMarks DEF MarkInv
<1>4. ASSUME NEW op \in Ops, EvalBinary(op)
      PROVE  ~overtaken' /\ InUse(map', registers')
  <2>. DEFINE dest == FreeIntermediary(map)
              computed == [registers EXCEPT ![dest] = Apply(op, Top(1).reg, Top(0).reg)]
              once == FreedIntermediary(map, computed, Top(1).reg)
  <2>1. /\ Unmapped(map) # {}
        /\ registers' = FreedIntermediary(map, once, Top(0).reg)
        /\ map' = map /\ moved' = moved /\ overtaken' = overtaken
    BY <1>4 DEF EvalBinary, history
  <2>2. dest \notin Mapped(map)
    BY <2>1, FreeIntermediaryIn
  <2>3. OnRegisters(computed) /\ \A r \in Mapped(map) : computed[r] = registers[r]
    BY <1>1, <2>2 DEF OnRegisters
  <2>. HIDE DEF computed
  <2>4. OnRegisters(once) /\ \A r \in Mapped(map) : once[r] = computed[r]
    BY <1>1, <2>3, FreedKeeps
  <2>. HIDE DEF once
  <2>5. \A r \in Mapped(map) : registers'[r] = once[r]
    BY <1>1, <2>1, <2>4, FreedKeeps
  <2>. QED
    BY <1>1, <2>1, <2>3, <2>4, <2>5, ScratchMarks DEF MarkInv
<1>5. ASSUME NEW op \in {"-", "~"}, EvalUnary(op)
      PROVE  ~overtaken' /\ InUse(map', registers')
  <2>. DEFINE dest == FreeIntermediary(map)
              cleared == [registers EXCEPT ![dest] = 0]
              computed == [cleared EXCEPT ![dest] = Negated(op, cleared[Top(0).reg])]
  <2>1. /\ Unmapped(map) # {}
        /\ registers' = FreedIntermediary(map, computed, Top(0).reg)
        /\ map' = map /\ moved' = moved /\ overtaken' = overtaken
    BY <1>5 DEF EvalUnary, history
  <2>2. dest \notin Mapped(map)
    BY <2>1, FreeIntermediaryIn
  <2>3. OnRegisters(computed) /\ \A r \in Mapped(map) : computed[r] = registers[r]
    BY <1>1, <2>2 DEF OnRegisters
  <2>. HIDE DEF computed
  <2>4. \A r \in Mapped(map) : registers'[r] = computed[r]
    BY <1>1, <2>1, <2>3, FreedKeeps
  <2>. QED
    BY <1>1, <2>1, <2>3, <2>4, ScratchMarks DEF MarkInv
<1>6. ASSUME NEW x \in Vars, NEW v \in Ints, AssignInt(x, v)
      PROVE  ~overtaken' /\ InUse(map', registers')
  <2>. DEFINE taken == RegistersAfterGet(map, registers, x)
  <2>1. /\ CanGet(map, x)
        /\ map' = MapAfterGet(map, x)
        /\ registers' = [taken EXCEPT ![GetRegister(map, x)] = v]
        /\ moved' = moved /\ overtaken' = overtaken
    BY <1>6 DEF AssignInt
  <2>2. ~overtaken /\ InUse(map', taken)
    BY <1>1, <2>1, GetMarks DEF MarkInv, Names
  <2>3. v # NOT_USED
    BY CodegenAssumption DEF NOT_USED
  <2>4. OnRegisters(taken)
    BY <1>1 DEF RegistersAfterGet, OnRegisters
  <2>. HIDE DEF taken
  <2>5. map' \in Seq(Entries)
    BY <1>1, <2>1, AfterGet DEF Names
  <2>6. Mapped(map') \subseteq RegisterNumbers
    BY <2>5, MappedIn
  <2>. QED
    BY <2>1, <2>2, <2>3, <2>4, <2>6 DEF InUse, OnRegisters
<1>7. ASSUME NEW x \in Vars, AssignExpression(x)
      PROVE  ~overtaken' /\ InUse(map', registers')
  <2>1. /\ CanGet(map, x)
        /\ map' = MapAfterGet(map, x)
        /\ overtaken' = overtaken
        /\ \/ moved' = TRUE
           \/ moved' = moved /\ registers' = RegistersAfterGet(map, registers, x)
    BY <1>7 DEF AssignExpression
  <2>. QED
    BY <1>1, <2>1, GetMarks DEF MarkInv, Names
<1>8. ASSUME NEW pin \in Pins, NEW on \in BOOLEAN, Gpio(pin, on)
      PROVE  ~overtaken' /\ InUse(map', registers')
  <2>. DEFINE selects == ~HasName(map, pin)
              selected == IF selects THEN fsel_value(Context, pin) ELSE Context
              c == IF on THEN set_value(selected, pin) ELSE clear_value(selected, pin)
              Marked(d) == d.overtaken = FALSE /\ InUse(d.map, d.registers)
              Fine(d) == /\ d.map \in Seq(Entries) /\ OnRegisters(d.registers)
                         /\ d.directives \in Seq(DirectiveEntries) /\ d.directives # <<>>
  <2>1. /\ selects => TwoUnused(registers)
        /\ TwoUnused(selected.registers)
        /\ map' = c.map /\ registers' = c.registers /\ overtaken' = c.overtaken
        /\ moved' = moved
    BY <1>8 DEF Gpio
  <2>2. pin \in 0..10 /\ pin # NoName
    BY CodegenAssumption DEF NoName
  <2>3. /\ <<"gpio_fsel", pin \div 10>> \in DirectiveNames
        /\ <<"gpio_set", pin \div 32>> \in DirectiveNames
        /\ <<"gpio_clear", pin \div 32>> \in DirectiveNames
    BY <2>2 DEF DirectiveNames
  <2>4. /\ Context.map = map /\ Context.registers = registers
        /\ Fine(Context) /\ Marked(Context)
        /\ Good(Context.map, Context.registers, Context.machine, Context.directives,
                Context.overtaken, env)
        /\ Context.overtaken \in BOOLEAN /\ Context.line \in Nat
    BY <1>1, <2>1 DEF Context, MarkInv, IInv
  <2>5. Fine(selected) /\ Marked(selected)
    <3>1. CASE selects
      <4>1. TwoUnused(Context.registers) /\ ~HasName(Context.map, pin)
        BY <2>1, <2>4, <3>1
      <4>2. selected = StoreTo(Context, <<"gpio_fsel", pin \div 10>>, 2^(3 * pin), pin)
        BY <3>1 DEF fsel_value
      <4>. HIDE DEF selected
      <4>3. Marked(selected)
        BY <2>3, <2>4, <4>1, <4>2, StoreMarks
      <4>4. Good(selected.map, selected.registers, selected.machine, selected.directives,
                 selected.overtaken, env)
        BY <2>3, <2>4, <4>1, <4>2, StoreGood
      <4>. QED
        BY <4>3, <4>4 DEF Good
    <3>2. CASE ~selects
      BY <2>4, <3>2
    <3>. QED
      BY <3>1, <3>2
  <2>6. Marked(c)
    <3>1. \E device \in DirectiveNames : c = StoreTo(selected, device, 2^pin, NoName)
      BY <2>3 DEF set_value, clear_value
    <3>. HIDE DEF selected, c
    <3>. QED
      BY <2>1, <2>5, <3>1, StoreMarks
  <2>. HIDE DEF c
  <2>. QED
    BY <2>1, <2>6
<1>9. ASSUME NEW time \in Times, Wait(time)
      PROVE  ~overtaken' /\ InUse(map', registers')
  <2>. DEFINE reg == FreeRegister(registers)
              delayed == [registers EXCEPT ![reg] = time * WAIT_SECOND]
  <2>1. /\ Unused(registers) # {}
        /\ map' = MapAfterFree(map, reg)
        /\ registers' = Freed(delayed, reg)
        /\ overtaken' = (overtaken \/ reg \in Mapped(map))
        /\ moved' = moved
    BY <1>9 DEF Wait
  <2>2. registers[reg] = NOT_USED
    BY <2>1, FreeRegisterIn
  <2>3. ~overtaken /\ reg \notin Mapped(map)
    BY <2>1, <2>2 DEF MarkInv, InUse
  <2>4. map' = map
    BY <2>1, <2>3 DEF MapAfterFree
  <2>. HIDE DEF reg
  <2>5. \A r \in Mapped(map) : registers'[r] = registers[r]
    BY <1>1, <2>1, <2>3 DEF Freed, OnRegisters
  <2>. QED
    BY <1>1, <2>1, <2>3, <2>4, <2>5, ScratchMarks DEF MarkInv
<1>10. CASE UNCHANGED vars
  BY <1>10 DEF vars, MarkInv
<1>. QED
  BY <1>2, <1>3, <1>4, <1>5, <1>6, <1>7, <1>8, <1>9, <1>10 DEF Next

\* get_free_register takes no variable's register before an expression has been
\* moved into a variable: until then every register of the map is marked used.
THEOREM MovesOnlyOvertake == Spec => []OvertakenOnlyAfterMove
<1>1. MarkInv => OvertakenOnlyAfterMove
  BY DEF MarkInv, OvertakenOnlyAfterMove
<1>. QED
  BY <1>1, Invariant, MarkInit, MarkNext, PTL DEF Spec
-----------------------------------------------------------------------------
(* The table of directives. *)

\* A directive that is not there yet is pushed last.
LEMMA PushedNew ==
  ASSUME NEW ds \in Seq(DirectiveEntries), NEW name, NEW v, ~HasDirective(ds, name)
  PROVE  /\ Last(PushDirective(ds, name, v)).name = name
         /\ Last(PushDirective(ds, name, v)).value = v
<1>. DEFINE d == [name |-> name, value |-> v]
<1>1. PushDirective(ds, name, v) = Append(ds, d)
  BY DEF PushDirective
<1>2. Append(ds, d)[Len(Append(ds, d))] = d
  <2>. HIDE DEF d
  <2>1. Len(Append(ds, d)) = Len(ds) + 1 /\ Len(ds) \in Nat
    OBVIOUS
  <2>2. Append(ds, d)[Len(ds) + 1] = d
    OBVIOUS
  <2>. QED
    BY <2>1, <2>2
<1>3. d.name = name /\ d.value = v
  OBVIOUS
<1>. QED
  BY <1>1, <1>2, <1>3 DEF Last

\* What has been pushed is what was there and perhaps one more.
LEMMA PushedNames ==
  ASSUME NEW ds \in Seq(DirectiveEntries), NEW name \in DirectiveNames, NEW v \in Nat
  PROVE  \A i \in DOMAIN PushDirective(ds, name, v) :
           \/ i \in DOMAIN ds /\ PushDirective(ds, name, v)[i] = ds[i]
           \/ i = Len(ds) + 1 /\ PushDirective(ds, name, v)[i].name = name
<1>. DEFINE d == [name |-> name, value |-> v]
<1>1. d \in DirectiveEntries /\ d.name = name
  BY DEF DirectiveEntries
<1>. HIDE DEF d
<1>2. /\ DOMAIN ds = 1..Len(ds) /\ Len(ds) \in Nat
      /\ DOMAIN Append(ds, d) = 1 .. Len(ds) + 1
      /\ \A i \in 1..Len(ds) : Append(ds, d)[i] = ds[i]
      /\ Append(ds, d)[Len(ds) + 1] = d
  BY <1>1
<1>3. CASE PushDirective(ds, name, v) = ds
  BY <1>3
<1>4. CASE PushDirective(ds, name, v) = Append(ds, d)
  BY <1>1, <1>2, <1>4
<1>. QED
  BY <1>3, <1>4 DEF PushDirective, d

\* No two directives have the same name.
Distinct(ds) == \A i, j \in DOMAIN ds : ds[i].name = ds[j].name => i = j

LEMMA DistinctPush ==
  ASSUME NEW ds \in Seq(DirectiveEntries), Distinct(ds), NEW name \in DirectiveNames,
         NEW v \in Nat
  PROVE  Distinct(PushDirective(ds, name, v))
<1>. DEFINE pushed == PushDirective(ds, name, v)
<1>1. CASE HasDirective(ds, name)
  BY <1>1 DEF PushDirective
<1>2. CASE ~HasDirective(ds, name)
  <2>1. \A i \in DOMAIN ds : ds[i].name # name
    BY <1>2 DEF HasDirective
  <2>2. \A i \in DOMAIN pushed :
          \/ i \in DOMAIN ds /\ pushed[i] = ds[i]
          \/ i = Len(ds) + 1 /\ pushed[i].name = name
    BY PushedNames
  <2>3. ASSUME NEW i \in DOMAIN pushed, NEW j \in DOMAIN pushed,
               pushed[i].name = pushed[j].name
        PROVE  i = j
    <3>1. \/ i \in DOMAIN ds /\ pushed[i] = ds[i] /\ pushed[i].name # name
          \/ i = Len(ds) + 1 /\ pushed[i].name = name
      BY <2>1, <2>2
    <3>2. \/ j \in DOMAIN ds /\ pushed[j] = ds[j] /\ pushed[j].name # name
          \/ j = Len(ds) + 1 /\ pushed[j].name = name
      BY <2>1, <2>2
    <3>. HIDE DEF pushed
    <3>. QED
      BY <2>3, <3>1, <3>2 DEF Distinct
  <2>. HIDE DEF pushed
  <2>4. Distinct(pushed)
    BY <2>3 DEF Distinct
  <2>. QED
    BY <2>4 DEF pushed
<1>. QED
  BY <1>1, <1>2

LEMMA DistinctInit == Init => Distinct(directives)
<1>1. Init => DOMAIN directives = 1..1
  BY DEF Init
<1>. QED
  BY <1>1 DEF Distinct

LEMMA DistinctNext == IInv /\ Distinct(directives) /\ [Next]_vars => Distinct(directives)'
<1>. SUFFICES ASSUME IInv, Distinct(directives), [Next]_vars PROVE Distinct(directives')
  BY DEF Distinct
<1>0. directives \in Seq(DirectiveEntries) /\ directives # <<>> /\ line \in Nat
  BY DEF IInv, Good
<1>1. ASSUME NEW pin \in Pins, NEW on \in BOOLEAN, Gpio(pin, on) PROVE Distinct(directives')
  <2>. DEFINE selects == ~HasName(map, pin)
              selected == IF selects THEN fsel_value(Context, pin) ELSE Context
              c == IF on THEN set_value(selected, pin) ELSE clear_value(selected, pin)
              Fine(d) == /\ d.directives \in Seq(DirectiveEntries) /\ d.directives # <<>>
                         /\ Distinct(d.directives)
  <2>1. directives' = c.directives
    BY <1>1 DEF Gpio
  <2>2. pin \in 0..10
    BY CodegenAssumption
  <2>3. /\ <<"gpio_fsel", pin \div 10>> \in DirectiveNames
        /\ <<"gpio_set", pin \div 32>> \in DirectiveNames
        /\ <<"gpio_clear", pin \div 32>> \in DirectiveNames
    BY <2>2 DEF DirectiveNames
  <2>4. Fine(Context)
    BY <1>0 DEF Context
  <2>5. ASSUME NEW k, Fine(k), NEW device \in DirectiveNames, NEW imm, NEW name,
               NEW d, d = StoreTo(k, device, imm, name)
        PROVE  Fine(d)
    <3>1. d.directives = PushDirective(k.directives, device, Address)
      BY <2>5 DEF StoreTo
    <3>2. Address \in Nat
      <4>1. {Address} \subseteq Nat
        BY CodegenAssumption
      <4>. QED
        BY <4>1
    <3>. QED
      BY <2>5, <3>1, <3>2, Pushed, DistinctPush
  <2>6. Fine(selected)
    <3>1. CASE selects
      <4>1. selected = StoreTo(Context, <<"gpio_fsel", pin \div 10>>, 2^(3 * pin), pin)
        BY <3>1 DEF fsel_value
      <4>. HIDE DEF selected, Fine
      <4>. QED
        BY <2>3, <2>4, <2>5, <4>1
    <3>2. CASE ~selects
      BY <2>4, <3>2
    <3>. QED
      BY <3>1, <3>2
  <2>7. Fine(c)
    <3>1. \E device \in DirectiveNames : c = StoreTo(selected, device, 2^pin, NoName)
      BY <2>3 DEF set_value, clear_value
    <3>. HIDE DEF selected, c, Fine
    <3>. QED
      BY <2>5, <2>6, <3>1
  <2>. HIDE DEF c
  <2>. QED
    BY <2>1, <2>7
<1>2. ASSUME NEW time \in Times, Wait(time) PROVE Distinct(directives')
  <2>. DEFINE delay == time * WAIT_SECOND
              name == <<"wait_time", line \div 4>>
  <2>1. directives' = PushDirective(directives, name, delay)
    BY <1>2 DEF Wait, WaitNumber
  <2>2. delay \in Nat
    <3>1. {WAIT_SECOND} \subseteq Nat
      BY CodegenAssumption
    <3>2. WAIT_SECOND \in Nat /\ time \in Nat
      BY <3>1, CodegenAssumption
    <3>. QED
      BY <3>2
  <2>3. name \in DirectiveNames
    BY <1>0 DEF DirectiveNames
  <2>. HIDE DEF delay, name
  <2>. QED
    BY <1>0, <2>1, <2>2, <2>3, DistinctPush
<1>3. ASSUME NEW v \in Ints, EvalInt(v) PROVE Distinct(directives')
  <2>. DEFINE name == <<"dir", Len(directives)>>
  <2>1. directives' = directives \/ directives' = PushDirective(directives, name, v)
    BY <1>3 DEF EvalInt
  <2>2. name \in DirectiveNames /\ v \in Nat
    BY <1>0, CodegenAssumption DEF DirectiveNames
  <2>. HIDE DEF name
  <2>. QED
    BY <1>0, <2>1, <2>2, DistinctPush
<1>4. CASE UNCHANGED directives
  BY <1>4
<1>5. \/ \E pin \in Pins, on \in BOOLEAN : Gpio(pin, on)
      \/ \E time \in Times : Wait(time)
      \/ \E v \in Ints : EvalInt(v)
      \/ UNCHANGED directives
  BY DEF Next, vars, tables, EvalName, EvalBinary, EvalUnary, AssignInt, AssignExpression
<1>. QED
  BY <1>1, <1>2, <1>3, <1>4, <1>5
-----------------------------------------------------------------------------
(* The numbers that waits have taken are below those of the lines to come. *)
LabelEntries == [name : {"main", "wait"} \X Nat, address : Nat]

WaitInv ==
  /\ lastWait.end \in Nat /\ lastWait.end <= line
  /\ symbol_table \in Seq(LabelEntries)
  /\ \A i \in DOMAIN symbol_table :
       symbol_table[i].name[1] = "wait" => 4 * symbol_table[i].name[2] <= lastWait.end - 2
  /\ \A i \in DOMAIN directives :
       directives[i].name[1] = "wait_time" => 4 * directives[i].name[2] <= lastWait.end - 3
  /\ SeparateWaits

LEMMA WaitInit == Init => WaitInv
<1>. SUFFICES ASSUME Init PROVE WaitInv
  OBVIOUS
<1>1. line = 2 /\ lastWait.end = 0 /\ lastWait.at = lastWait.target
      /\ lastWait.loaded = lastWait.wanted
  BY DEF Init, NoWait
<1>2. symbol_table \in Seq(LabelEntries)
  <2>. DEFINE l == [name |-> <<"main", 0>>, address |-> 1]
  <2>1. l \in LabelEntries
    BY DEF LabelEntries
  <2>2. symbol_table = <<l>>
    BY DEF Init
  <2>. HIDE DEF l
  <2>. QED
    BY <2>1, <2>2
<1>3. \A i \in DOMAIN symbol_table : symbol_table[i].name[1] # "wait"
  BY DEF Init
<1>4. \A i \in DOMAIN directives : directives[i].name[1] # "wait_time"
  BY DEF Init
<1>. QED
  BY <1>1, <1>2, <1>3, <1>4 DEF WaitInv, SeparateWaits

\* What takes no wait's number keeps the others'.
LEMMA WaitElsewhere ==
  ASSUME IInv, WaitInv, line' \in Nat, line' >= line,
         UNCHANGED <<symbol_table, lastWait>>,
         \A i \in DOMAIN directives' :
           \/ i \in DOMAIN directives /\ directives'[i] = directives[i]
           \/ directives'[i].name[1] # "wait_time"
  PROVE  WaitInv'
<1>1. \A i \in DOMAIN directives' :
        directives'[i].name[1] = "wait_time" => 4 * directives'[i].name[2] <= lastWait.end - 3
  BY DEF WaitInv
<1>2. line \in Nat
  BY DEF IInv
<1>. QED
  BY <1>1, <1>2 DEF WaitInv, SeparateWaits

LEMMA WaitNext == IInv /\ WaitInv /\ [Next]_vars => WaitInv'
<1>. SUFFICES ASSUME IInv, WaitInv, [Next]_vars PROVE WaitInv'
  OBVIOUS
<1>. USE DEF WaitNumber
<1>0. line \in Nat /\ directives \in Seq(DirectiveEntries) /\ directives # <<>>
  BY DEF IInv, Good
<1>1. ASSUME NEW time \in Times, Wait(time) PROVE WaitInv'
  <2>. DEFINE delay == time * WAIT_SECOND
              name == <<"wait_time", line \div 4>>
              label == <<"wait", (line + 1) \div 4>>
              entry == [name |-> label, address |-> line + 1]
  <2>1. /\ directives' = PushDirective(directives, name, delay)
        /\ symbol_table' = Append(symbol_table, entry)
        /\ line' = line + 3
        /\ lastWait' = [end |-> line + 3, apart |-> lastWait.end # line, at |-> line + 1,
                        target |-> AddressOf(symbol_table', label),
                        wanted |-> delay, loaded |-> Last(directives').value]
    BY <1>1 DEF Wait
  <2>2. delay \in Nat
    <3>1. {WAIT_SECOND} \subseteq Nat
      BY CodegenAssumption
    <3>2. WAIT_SECOND \in Nat /\ time \in Nat
      BY <3>1, CodegenAssumption
    <3>. QED
      BY <3>2
  <2>. HIDE DEF delay
  <2>3. /\ name \in DirectiveNames /\ name[1] = "wait_time" /\ name[2] = line \div 4
        /\ label[1] = "wait" /\ label[2] = (line + 1) \div 4
        /\ entry \in LabelEntries /\ entry.name = label /\ entry.address = line + 1
        /\ 4 * (line \div 4) <= line /\ 4 * (line \div 4) > line - 4
        /\ 4 * ((line + 1) \div 4) <= line + 1 /\ 4 * ((line + 1) \div 4) > line - 3
    BY <1>0 DEF DirectiveNames, LabelEntries
  <2>. HIDE DEF name, label, entry
  <2>4. lastWait'.end = line + 3
    BY <2>1
  <2>5. /\ symbol_table' \in Seq(LabelEntries)
        /\ DOMAIN symbol_table = 1..Len(symbol_table) /\ Len(symbol_table) \in Nat
        /\ DOMAIN symbol_table' = 1 .. Len(symbol_table) + 1
        /\ \A i \in 1..Len(symbol_table) : symbol_table'[i] = symbol_table[i]
        /\ symbol_table'[Len(symbol_table) + 1] = entry
    BY <2>1, <2>3 DEF WaitInv
  <2>6. ASSUME NEW i \in DOMAIN symbol_table', symbol_table'[i].name[1] = "wait"
        PROVE  4 * symbol_table'[i].name[2] <= line + 1
    <3>1. CASE i = Len(symbol_table) + 1
      BY <2>3, <2>5, <3>1
    <3>2. CASE i \in 1..Len(symbol_table)
      <4>1. symbol_table[i] \in LabelEntries
        BY <2>5, <3>2 DEF WaitInv
      <4>2. symbol_table[i].name[2] \in Nat
        BY <4>1 DEF LabelEntries
      <4>. QED
        BY <1>0, <2>5, <2>6, <3>2, <4>2 DEF WaitInv
    <3>. QED
      BY <2>5, <3>1, <3>2
  <2>7. ASSUME NEW i \in DOMAIN directives', directives'[i].name[1] = "wait_time"
        PROVE  4 * directives'[i].name[2] <= line
    <3>1. CASE i \in DOMAIN directives /\ directives'[i] = directives[i]
      <4>1. directives[i] \in DirectiveEntries
        BY <1>0, <3>1
      <4>2. directives[i].name[2] \in Nat
        BY <4>1 DEF DirectiveEntries, DirectiveNames
      <4>. QED
        BY <1>0, <2>7, <3>1, <4>2 DEF WaitInv
    <3>2. CASE directives'[i].name = name
      BY <2>3, <3>2
    <3>. QED
      BY <1>0, <2>1, <2>2, <2>3, <3>1, <3>2, PushedNames
  <2>8. ASSUME lastWait.end # line
        PROVE  AddressOf(symbol_table', label) = line + 1 /\ Last(directives').value = delay
    <3>1. lastWait.end < line /\ lastWait.end \in Nat
      BY <1>0, <2>8 DEF WaitInv
    <3>2. ASSUME NEW i \in DOMAIN symbol_table, symbol_table[i].name = label PROVE FALSE
      BY <1>0, <2>3, <3>1, <3>2 DEF WaitInv
    <3>3. AddressOf(symbol_table', label) = line + 1
      <4>. DEFINE first == CHOOSE i \in DOMAIN symbol_table' :
                             /\ symbol_table'[i].name = label
                             /\ \A j \in 1..i-1 : symbol_table'[j].name # label
                  n == Len(symbol_table) + 1
      <4>1. /\ n \in DOMAIN symbol_table' /\ symbol_table'[n].name = label
            /\ \A j \in 1..n-1 : symbol_table'[j].name # label
        BY <2>3, <2>5, <3>2
      <4>2. first \in DOMAIN symbol_table' /\ symbol_table'[first].name = label
        BY <4>1
      <4>. HIDE DEF first
      <4>3. first = n
        BY <2>5, <3>2, <4>2
      <4>. QED
        BY <2>3, <2>5, <4>3 DEF AddressOf, first
    <3>4. ~HasDirective(directives, name)
      <4>. SUFFICES ASSUME NEW i \in DOMAIN directives, directives[i].name = name
                    PROVE  FALSE
        BY DEF HasDirective
      <4>. QED
        BY <1>0, <2>3, <3>1 DEF WaitInv
    <3>. QED
      BY <1>0, <2>1, <3>3, <3>4, PushedNew
  <2>9. SeparateWaits'
    BY <2>1, <2>8 DEF SeparateWaits
  <2>. QED
    BY <1>0, <2>1, <2>4, <2>5, <2>6, <2>7, <2>9 DEF WaitInv
<1>2. ASSUME NEW pin \in Pins, NEW on \in BOOLEAN, Gpio(pin, on) PROVE WaitInv'
  <2>. DEFINE selects == ~HasName(map, pin)
              selected == IF selects THEN fsel_value(Context, pin) ELSE Context
              c == IF on THEN set_value(selected, pin) ELSE clear_value(selected, pin)
              Devices == {"gpio_fsel", "gpio_set", "gpio_clear"} \X Nat
              Fine(d) == /\ d.directives \in Seq(DirectiveEntries) /\ d.directives # <<>>
                         /\ d.line \in Nat /\ d.line >= line
                         /\ \A i \in DOMAIN d.directives :
                              \/ i \in DOMAIN directives /\ d.directives[i] = directives[i]
                              \/ d.directives[i].name[1] # "wait_time"
  <2>1. /\ line' = c.line /\ directives' = c.directives
        /\ UNCHANGED <<symbol_table, lastWait>>
    BY <1>2 DEF Gpio
  <2>2. pin \in 0..10
    BY CodegenAssumption
  <2>3. /\ <<"gpio_fsel", pin \div 10>> \in Devices
        /\ <<"gpio_set", pin \div 32>> \in Devices
        /\ <<"gpio_clear", pin \div 32>> \in Devices
    BY <2>2
  <2>4. Fine(Context)
    BY <1>0 DEF Context
  <2>5. ASSUME NEW k, Fine(k), NEW device \in Devices, NEW imm, NEW x,
               NEW d, d = StoreTo(k, device, imm, x)
        PROVE  Fine(d)
    <3>1. d.directives = PushDirective(k.directives, device, Address) /\ d.line = k.line + 3
      BY <2>5 DEF StoreTo
    <3>2. device \in DirectiveNames /\ device[1] # "wait_time" /\ Address \in Nat
      BY CodegenAssumption DEF DirectiveNames
    <3>3. d.directives \in Seq(DirectiveEntries) /\ d.directives # <<>>
      BY <2>5, <3>1, <3>2, Pushed
    <3>4. \A i \in DOMAIN d.directives :
            \/ i \in DOMAIN k.directives /\ d.directives[i] = k.directives[i]
            \/ d.directives[i].name = device
      BY <2>5, <3>1, <3>2, PushedNames
    <3>. QED
      BY <1>0, <2>5, <3>1, <3>2, <3>3, <3>4
  <2>6. Fine(selected)
    <3>1. CASE selects
      <4>1. selected = StoreTo(Context, <<"gpio_fsel", pin \div 10>>, 2^(3 * pin), pin)
        BY <3>1 DEF fsel_value
      <4>. HIDE DEF selected, Fine, Devices
      <4>. QED
        BY <2>3, <2>4, <2>5, <4>1
    <3>2. CASE ~selects
      BY <2>4, <3>2
    <3>. QED
      BY <3>1, <3>2
  <2>7. Fine(c)
    <3>1. \E device \in Devices : c = StoreTo(selected, device, 2^pin, NoName)
      BY <2>3 DEF set_value, clear_value
    <3>. HIDE DEF selected, c, Fine, Devices
    <3>. QED
      BY <2>5, <2>6, <3>1
  <2>. HIDE DEF c
  <2>. QED
    BY <2>1, <2>7, WaitElsewhere
<1>3. ASSUME NEW v \in Ints, EvalInt(v) PROVE WaitInv'
  <2>1. /\ line' = line + 1 /\ UNCHANGED <<symbol_table, lastWait>>
        /\ \/ directives' = directives
           \/ directives' = PushDirective(directives, <<"dir", Len(directives)>>, v)
    BY <1>3 DEF EvalInt, history
  <2>2. v \in Nat /\ <<"dir", Len(directives)>> \in DirectiveNames
    BY <1>0, CodegenAssumption DEF DirectiveNames
  <2>3. \A i \in DOMAIN directives' :
          \/ i \in DOMAIN directives /\ directives'[i] = directives[i]
          \/ directives'[i].name = <<"dir", Len(directives)>>
    BY <1>0, <2>1, <2>2, PushedNames
  <2>. QED
    BY <1>0, <2>1, <2>3, WaitElsewhere
<1>4. line' \in {line, line + 1} /\ UNCHANGED <<symbol_table, lastWait, directives>>
      => WaitInv'
  BY <1>0, WaitElsewhere
<1>5. \/ \E v \in Ints : EvalInt(v)
      \/ \E pin \in Pins, on \in BOOLEAN : Gpio(pin, on)
      \/ \E time \in Times : Wait(time)
      \/ line' \in {line, line + 1} /\ UNCHANGED <<symbol_table, lastWait, directives>>
  BY DEF Next, vars, history, tables, EvalName, EvalBinary, EvalUnary, AssignInt,
         AssignExpression
<1>. QED
  BY <1>1, <1>2, <1>3, <1>4, <1>5

\* A WAIT behind at least one other instruction has a label and a delay of its
\* own, whatever the program: the numbers that earlier ones took, from their
\* lines divided by 4, are below its own (rpy.c, wait).
THEOREM WaitsApart == Spec => []SeparateWaits
<1>1. WaitInv => SeparateWaits
  BY DEF WaitInv
<1>. QED
  BY <1>1, WaitInit, WaitNext, Invariant, PTL DEF Spec
-----------------------------------------------------------------------------
(* What stays in use and is no name's.                                       *)
Leaked(m, regs) == {r \in RegisterNumbers : regs[r] # NOT_USED /\ r \notin Mapped(m)}

\* Without the register that the next intermediate result takes again.
Leak(m, regs) == Leaked(m, regs) \ {FreeIntermediary(m)}

LeakInv ==
  /\ devices \in Nat
  /\ ~overtaken => Cardinality(Leak(map, registers)) <= devices

LEMMA LeakFinite ==
  ASSUME NEW m, NEW regs
  PROVE  IsFiniteSet(Leak(m, regs)) /\ IsFiniteSet(Leaked(m, regs))
<1>1. IsFiniteSet(RegisterNumbers)
  <2>1. NUM_REGISTERS \in Int
    BY RegistersAssumption
  <2>. QED
    BY <2>1, FS_Interval DEF RegisterNumbers
<1>2. Leak(m, regs) \in SUBSET RegisterNumbers /\ Leaked(m, regs) \in SUBSET RegisterNumbers
  BY DEF Leak, Leaked
<1>. QED
  BY <1>1, <1>2, FS_Subset

\* An entry for a name takes the register that did not count.
LEMMA LeakGet ==
  ASSUME NEW m \in Seq(Entries), NEW name \in Names, CanGet(m, name),
         NEW regs, OnRegisters(regs), NEW regs2,
         \A r \in RegisterNumbers : r # GetRegister(m, name) => regs2[r] = regs[r]
  PROVE  Leak(MapAfterGet(m, name), regs2) \subseteq Leak(m, regs)
<1>1. CASE HasName(m, name)
  <2>1. PICK i \in DOMAIN m : m[i].name = name /\ RegOf(m, name) = m[i].reg
    BY <1>1, FoundEntry
  <2>2. GetRegister(m, name) \in Mapped(m) /\ MapAfterGet(m, name) = m
    BY <1>1, <2>1 DEF GetRegister, Mapped, MapAfterGet
  <2>. QED
    BY <2>2 DEF Leak, Leaked
<1>2. CASE ~HasName(m, name)
  <2>. DEFINE reg == FreeIntermediary(m)
  <2>1. reg \in RegisterNumbers \ Mapped(m)
    BY <1>2, FreeIntermediaryIn DEF CanGet
  <2>2. Mapped(MapAfterGet(m, name)) = Mapped(m) \cup {reg} /\ GetRegister(m, name) = reg
    BY <1>2, <2>1, Appended DEF MapAfterGet, GetRegister
  <2>. HIDE DEF reg
  <2>3. Leaked(MapAfterGet(m, name), regs2) \subseteq Leaked(m, regs) \ {reg}
    BY <2>2 DEF Leaked
  <2>. QED
    BY <2>3 DEF Leak, reg
<1>. QED
  BY <1>1, <1>2

\* Nor does an intermediate result count.
LEMMA LeakScratch ==
  ASSUME NEW m, NEW regs, NEW regs2,
         \A r \in RegisterNumbers :
           r # FreeIntermediary(m) /\ r \notin Mapped(m)
             => regs2[r] = regs[r] \/ regs2[r] = NOT_USED
  PROVE  Leak(m, regs2) \subseteq Leak(m, regs)
  BY DEF Leak, Leaked

\* A store leaves one register behind, or none if it becomes a name's.
LEMMA LeakStore ==
  ASSUME NEW c, NEW e,
         Good(c.map, c.registers, c.machine, c.directives, c.overtaken, e),
         c.overtaken \in BOOLEAN, TwoUnused(c.registers),
         NEW device \in DirectiveNames, NEW imm, NEW name,
         name = NoName \/ (name \in Pins /\ ~HasName(c.map, name)),
         NEW d, d = StoreTo(c, device, imm, name), ~d.overtaken
  PROVE  /\ ~c.overtaken
         /\ name # NoName => Leak(d.map, d.registers) \subseteq Leak(c.map, c.registers)
         /\ \E r : Leak(d.map, d.registers) \subseteq Leak(c.map, c.registers) \cup {r}
<1>. DEFINE ds == PushDirective(c.directives, device, Address)
            address_reg == FreeRegister(c.registers)
            named == IF name = NoName THEN c.map
                     ELSE Append(c.map, [name |-> name, reg |-> address_reg])
            addressed == [c.registers EXCEPT ![address_reg] = Last(ds).value]
            move_reg == FreeRegister(addressed)
<1>1. /\ d.map = MapAfterFree(named, move_reg)
      /\ d.registers = Freed([addressed EXCEPT ![move_reg] = imm], move_reg)
      /\ d.overtaken = (c.overtaken \/ {address_reg, move_reg} \cap Mapped(c.map) # {})
  BY DEF StoreTo
<1>2. /\ c.map \in Seq(Entries)
      /\ OnRegisters(c.registers)
      /\ c.directives \in Seq(DirectiveEntries)
      /\ c.directives # <<>>
  BY DEF Good
<1>3. Last(ds).value \in Nat
  BY <1>2, Pushed, CodegenAssumption
<1>. HIDE DEF ds
<1>4. address_reg \in RegisterNumbers /\ c.registers[address_reg] = NOT_USED
  BY FreeRegisterIn DEF TwoUnused
<1>5. /\ OnRegisters(addressed)
      /\ addressed[address_reg] # NOT_USED
      /\ \A q \in RegisterNumbers : q # address_reg => addressed[q] = c.registers[q]
  BY <1>2, <1>3, <1>4 DEF OnRegisters, NOT_USED
<1>6. move_reg \in RegisterNumbers /\ addressed[move_reg] = NOT_USED
  <2>1. PICK r, s \in Unused(c.registers) : r # s
    BY DEF TwoUnused
  <2>2. Unused(addressed) # {}
    BY <1>5, <2>1 DEF Unused
  <2>. QED
    BY <2>2, FreeRegisterIn
<1>. HIDE DEF address_reg, addressed, move_reg
<1>7. ~c.overtaken /\ address_reg \notin Mapped(c.map) /\ move_reg \notin Mapped(c.map)
      /\ move_reg # address_reg
  BY <1>1, <1>5, <1>6
<1>8. /\ d.registers[move_reg] = NOT_USED
      /\ \A r \in RegisterNumbers : r # move_reg /\ r # address_reg
                                    => d.registers[r] = c.registers[r]
  BY <1>1, <1>5, <1>6 DEF Freed, OnRegisters
<1>9. CASE name = NoName
  <2>1. d.map = c.map
    BY <1>1, <1>7, <1>9 DEF MapAfterFree
  <2>2. Leak(d.map, d.registers) \subseteq Leak(c.map, c.registers) \cup {address_reg}
    BY <1>8, <2>1 DEF Leak, Leaked
  <2>. QED
    BY <1>7, <1>9, <2>2
<1>10. CASE name # NoName
  <2>1. name \in Names
    BY <1>10 DEF Names
  <2>2. Mapped(named) = Mapped(c.map) \cup {address_reg}
    BY <1>2, <1>4, <1>10, <2>1, Appended
  <2>. HIDE DEF named
  <2>3. d.map = named
    BY <1>1, <1>7, <2>2 DEF MapAfterFree
  <2>4. Leaked(d.map, d.registers) \subseteq Leaked(c.map, c.registers)
    BY <1>8, <2>2, <2>3 DEF Leaked
  <2>5. ASSUME NEW r, r \in Leaked(d.map, d.registers), r = FreeIntermediary(c.map)
        PROVE  r = FreeIntermediary(d.map)
    <3>1. /\ r \in Unmapped(d.map) /\ Unmapped(d.map) \subseteq Unmapped(c.map)
          /\ Unmapped(c.map) \in SUBSET Nat /\ Unmapped(d.map) \in SUBSET Nat
      BY <2>2, <2>3, <2>5, RegistersAssumption DEF Unmapped, Leaked, RegisterNumbers
    <3>2. /\ Lowest(Unmapped(d.map)) \in Unmapped(d.map)
          /\ Lowest(Unmapped(d.map)) <= r
      BY <3>1, LowestIn
    <3>3. r <= Lowest(Unmapped(d.map))
      <4>1. Unmapped(c.map) # {} /\ Lowest(Unmapped(d.map)) \in Unmapped(c.map)
        BY <3>1, <3>2
      <4>2. Lowest(Unmapped(c.map)) <= Lowest(Unmapped(d.map))
        BY <3>1, <4>1, LowestIn
      <4>. QED
        BY <2>5, <4>2 DEF FreeIntermediary
    <3>4. r \in Nat /\ Lowest(Unmapped(d.map)) \in Nat
      BY <3>1, <3>2
    <3>. QED
      BY <3>2, <3>3, <3>4 DEF FreeIntermediary
  <2>6. Leak(d.map, d.registers) \subseteq Leak(c.map, c.registers)
    BY <2>4, <2>5 DEF Leak
  <2>. QED
    BY <1>7, <1>10, <2>6
<1>. QED
  BY <1>9, <1>10

LEMMA LeakFewer ==
  ASSUME LeakInv, devices' = devices,
         ~overtaken' => /\ ~overtaken
                        /\ Leak(map', registers') \subseteq Leak(map, registers)
  PROVE  LeakInv'
<1>. SUFFICES ASSUME ~overtaken' PROVE Cardinality(Leak(map', registers')) <= devices
  BY DEF LeakInv
<1>1. /\ Leak(map', registers') \in SUBSET Leak(map, registers)
      /\ Cardinality(Leak(map, registers)) <= devices /\ devices \in Nat
  BY DEF LeakInv
<1>2. IsFiniteSet(Leak(map, registers)) /\ IsFiniteSet(Leak(map', registers'))
  BY LeakFinite
<1>3. Cardinality(Leak(map', registers')) <= Cardinality(Leak(map, registers))
  BY <1>1, <1>2, FS_Subset
<1>4. /\ Cardinality(Leak(map', registers')) \in Nat
      /\ Cardinality(Leak(map, registers)) \in Nat
  BY <1>2, FS_CardinalityType
<1>. QED
  BY <1>1, <1>3, <1>4

LEMMA LeakInit == Init => LeakInv
<1>. SUFFICES ASSUME Init PROVE LeakInv
  OBVIOUS
<1>1. devices = 0 /\ \A r \in RegisterNumbers : registers[r] = NOT_USED
  BY DEF Init
<1>2. Leak(map, registers) = {}
  BY <1>1 DEF Leak, Leaked
<1>. QED
  BY <1>1, <1>2, FS_EmptySet DEF LeakInv

LEMMA LeakNext == IInv /\ LeakInv /\ [Next]_vars => LeakInv'
<1>. SUFFICES ASSUME IInv, LeakInv, [Next]_vars PROVE LeakInv'
  OBVIOUS
<1>0. /\ map \in Seq(Entries) /\ OnRegisters(registers) /\ overtaken \in BOOLEAN
      /\ Mapped(map) \subseteq RegisterNumbers
  BY MappedIn DEF IInv, Good
<1>1. ASSUME NEW x \in Vars, EvalName(x) PROVE LeakInv'
  <2>1. /\ CanGet(map, x)
        /\ map' = MapAfterGet(map, x)
        /\ registers' = RegistersAfterGet(map, registers, x)
        /\ UNCHANGED <<overtaken, devices>>
    BY <1>1 DEF EvalName, history
  <2>2. \A r \in RegisterNumbers : r # GetRegister(map, x) => registers'[r] = registers[r]
    BY <1>0, <2>1 DEF RegistersAfterGet, OnRegisters
  <2>. QED
    BY <1>0, <2>1, <2>2, LeakGet, LeakFewer DEF Names
<1>2. ASSUME NEW v \in Ints, EvalInt(v) PROVE LeakInv'
  <2>1. /\ registers' = [registers EXCEPT ![FreeIntermediary(map)] = v]
        /\ UNCHANGED <<map, overtaken, devices>>
    BY <1>2 DEF EvalInt, history
  <2>2. \A r \in RegisterNumbers : r # FreeIntermediary(map) => registers'[r] = registers[r]
    BY <1>0, <2>1 DEF OnRegisters
  <2>. QED
    BY <2>1, <2>2, LeakScratch, LeakFewer
<1>3. ASSUME NEW op \in Ops, EvalBinary(op) PROVE LeakInv'
  <2>. DEFINE dest == FreeIntermediary(map)
              computed == [registers EXCEPT ![dest] = Apply(op, Top(1).reg, Top(0).reg)]
              once == FreedIntermediary(map, computed, Top(1).reg)
  <2>1. /\ registers' = FreedIntermediary(map, once, Top(0).reg)
        /\ UNCHANGED <<map, overtaken, devices>>
    BY <1>3 DEF EvalBinary, history
  <2>2. OnRegisters(computed) /\ \A r \in RegisterNumbers : r # dest => computed[r] = registers[r]
    BY <1>0 DEF OnRegisters
  <2>. HIDE DEF computed
  <2>3. /\ OnRegisters(once)
        /\ \A r \in RegisterNumbers : once[r] = computed[r] \/ once[r] = NOT_USED
    BY <2>2 DEF FreedIntermediary, Freed, OnRegisters
  <2>. HIDE DEF once
  <2>4. \A r \in RegisterNumbers : registers'[r] = once[r] \/ registers'[r] = NOT_USED
    BY <2>1, <2>3 DEF FreedIntermediary, Freed, OnRegisters
  <2>5. \A r \in RegisterNumbers :
          r # dest => registers'[r] = registers[r] \/ registers'[r] = NOT_USED
    BY <2>2, <2>3, <2>4
  <2>. QED
    BY <2>1, <2>5, LeakScratch, LeakFewer
<1>4. ASSUME NEW op \in {"-", "~"}, EvalUnary(op) PROVE LeakInv'
  <2>. DEFINE dest == FreeIntermediary(map)
              cleared == [registers EXCEPT ![dest] = 0]
              computed == [cleared EXCEPT ![dest] = Negated(op, cleared[Top(0).reg])]
  <2>1. /\ registers' = FreedIntermediary(map, computed, Top(0).reg)
        /\ UNCHANGED <<map, overtaken, devices>>
    BY <1>4 DEF EvalUnary, history
  <2>2. OnRegisters(computed) /\ \A r \in RegisterNumbers : r # dest => computed[r] = registers[r]
    BY <1>0 DEF OnRegisters
  <2>. HIDE DEF computed
  <2>3. \A r \in RegisterNumbers : registers'[r] = computed[r] \/ registers'[r] = NOT_USED
    BY <2>1, <2>2 DEF FreedIntermediary, Freed, OnRegisters
  <2>. QED
    BY <2>1, <2>2, <2>3, LeakScratch, LeakFewer
<1>5. ASSUME NEW x \in Vars, NEW v \in Ints, AssignInt(x, v) PROVE LeakInv'
  <2>. DEFINE taken == RegistersAfterGet(map, registers, x)
  <2>1. /\ CanGet(map, x)
        /\ map' = MapAfterGet(map, x)
        /\ registers' = [taken EXCEPT ![GetRegister(map, x)] = v]
        /\ UNCHANGED <<overtaken, devices>>
    BY <1>5 DEF AssignInt
  <2>2. OnRegisters(taken)
        /\ \A r \in RegisterNumbers : r # GetRegister(map, x) => taken[r] = registers[r]
    BY <1>0 DEF RegistersAfterGet, OnRegisters
  <2>. HIDE DEF taken
  <2>3. \A r \in RegisterNumbers : r # GetRegister(map, x) => registers'[r] = registers[r]
    BY <2>1, <2>2 DEF OnRegisters
  <2>. QED
    BY <1>0, <2>1, <2>3, LeakGet, LeakFewer DEF Names
<1>6. ASSUME NEW x \in Vars, AssignExpression(x) PROVE LeakInv'
  <2>. DEFINE taken == RegistersAfterGet(map, registers, x)
              reg == GetRegister(map, x)
  <2>1. /\ CanGet(map, x)
        /\ map' = MapAfterGet(map, x)
        /\ registers' = [taken EXCEPT ![reg] = taken[pending[1].reg]] \/ registers' = taken
        /\ UNCHANGED <<overtaken, devices>>
    BY <1>6 DEF AssignExpression
  <2>2. OnRegisters(taken) /\ \A r \in RegisterNumbers : r # reg => taken[r] = registers[r]
    BY <1>0 DEF RegistersAfterGet, OnRegisters
  <2>. HIDE DEF taken
  <2>3. \A r \in RegisterNumbers : r # reg => registers'[r] = registers[r]
    BY <2>1, <2>2 DEF OnRegisters
  <2>. QED
    BY <1>0, <2>1, <2>3, LeakGet, LeakFewer DEF Names
<1>7. ASSUME NEW pin \in Pins, NEW on \in BOOLEAN, Gpio(pin, on) PROVE LeakInv'
  <2>. DEFINE selects == ~HasName(map, pin)
              selected == IF selects THEN fsel_value(Context, pin) ELSE Context
              c == IF on THEN set_value(selected, pin) ELSE clear_value(selected, pin)
              Fine(d) == /\ Good(d.map, d.registers, d.machine, d.directives, d.overtaken, env)
                         /\ d.overtaken \in BOOLEAN /\ d.line \in Nat
  <2>1. /\ selects => TwoUnused(registers)
        /\ TwoUnused(selected.registers)
        /\ map' = c.map /\ registers' = c.registers /\ overtaken' = c.overtaken
        /\ devices' = devices + 1
    BY <1>7 DEF Gpio
  <2>2. pin \in 0..10 /\ pin # NoName
    BY CodegenAssumption DEF NoName
  <2>3. /\ <<"gpio_fsel", pin \div 10>> \in DirectiveNames
        /\ <<"gpio_set", pin \div 32>> \in DirectiveNames
        /\ <<"gpio_clear", pin \div 32>> \in DirectiveNames
    BY <2>2 DEF DirectiveNames
  <2>4. /\ Context.map = map /\ Context.registers = registers
        /\ Context.overtaken = overtaken
        /\ Fine(Context)
    BY DEF Context, IInv
  <2>5. /\ Fine(selected)
        /\ ~selected.overtaken =>
             /\ ~overtaken
             /\ Leak(selected.map, selected.registers) \subseteq Leak(map, registers)
    <3>1. CASE selects
      <4>1. TwoUnused(Context.registers) /\ ~HasName(Context.map, pin)
        BY <2>1, <2>4, <3>1
      <4>2. selected = StoreTo(Context, <<"gpio_fsel", pin \div 10>>, 2^(3 * pin), pin)
        BY <3>1 DEF fsel_value
      <4>. HIDE DEF selected
      <4>3. Fine(selected)
        BY <2>3, <2>4, <4>1, <4>2, StoreGood
      <4>4. ASSUME ~selected.overtaken
            PROVE  /\ ~Context.overtaken
                   /\ Leak(selected.map, selected.registers)
                        \subseteq Leak(Context.map, Context.registers)
        <5>1. /\ Good(Context.map, Context.registers, Context.machine, Context.directives,
                      Context.overtaken, env)
              /\ Context.overtaken \in BOOLEAN
          BY <2>4
        <5>2. pin # NoName /\ ~HasName(Context.map, pin) /\ TwoUnused(Context.registers)
          BY <2>2, <4>1
        <5>3. <<"gpio_fsel", pin \div 10>> \in DirectiveNames
          BY <2>3
        <5>4. pin \in Pins
          OBVIOUS
        <5>. HIDE DEF Fine, selects
        <5>5. pin = NoName \/ (pin \in Pins /\ ~HasName(Context.map, pin))
          BY <5>2, <5>4
        <5>6. \E imm : \E device \in DirectiveNames : selected = StoreTo(Context, device, imm, pin)
          BY <4>2, <5>3
        <5>. QED
          BY <4>4, <5>1, <5>2, <5>5, <5>6, LeakStore
      <4>. QED
        BY <2>4, <4>3, <4>4
    <3>2. CASE ~selects
      BY <2>4, <3>2
    <3>. QED
      BY <3>1, <3>2
  <2>6. ~c.overtaken =>
          /\ ~selected.overtaken
          /\ \E r : Leak(c.map, c.registers)
                      \subseteq Leak(selected.map, selected.registers) \cup {r}
    <3>1. \E device \in DirectiveNames : c = StoreTo(selected, device, 2^pin, NoName)
      BY <2>3 DEF set_value, clear_value
    <3>. HIDE DEF selected, c
    <3>. QED
      BY <2>1, <2>5, <3>1, LeakStore
  <2>. HIDE DEF c, selected
  <2>7. ASSUME ~overtaken' PROVE Cardinality(Leak(map', registers')) <= devices + 1
    <3>1. PICK r : Leak(map', registers') \subseteq Leak(map, registers) \cup {r}
      BY <2>1, <2>5, <2>6, <2>7
    <3>2. /\ Cardinality(Leak(map, registers)) <= devices /\ devices \in Nat
          /\ IsFiniteSet(Leak(map, registers)) /\ IsFiniteSet(Leak(map', registers'))
      BY <2>1, <2>5, <2>6, <2>7, LeakFinite DEF LeakInv
    <3>3. /\ IsFiniteSet(Leak(map, registers) \cup {r})
          /\ Cardinality(Leak(map, registers) \cup {r}) \in
               {Cardinality(Leak(map, registers)), Cardinality(Leak(map, registers)) + 1}
      BY <3>2, FS_AddElement
    <3>4. Cardinality(Leak(map', registers')) <= Cardinality(Leak(map, registers) \cup {r})
      BY <3>1, <3>3, FS_Subset
    <3>5. /\ Cardinality(Leak(map, registers)) \in Nat
          /\ Cardinality(Leak(map', registers')) \in Nat
      BY <3>2, FS_CardinalityType
    <3>. QED
      BY <3>2, <3>3, <3>4, <3>5
  <2>. QED
    BY <2>1, <2>7 DEF LeakInv
<1>8. ASSUME NEW time \in Times, Wait(time) PROVE LeakInv'
  <2>. DEFINE reg == FreeRegister(registers)
  <2>1. /\ map' = MapAfterFree(map, reg)
        /\ registers' = Freed([registers EXCEPT ![reg] = time * WAIT_SECOND], reg)
        /\ overtaken' = (overtaken \/ reg \in Mapped(map))
        /\ devices' = devices
    BY <1>8 DEF Wait
  <2>2. ASSUME ~overtaken' PROVE ~overtaken /\ map' = map
    BY <2>1, <2>2 DEF MapAfterFree
  <2>3. \A r \in RegisterNumbers : registers'[r] = registers[r] \/ registers'[r] = NOT_USED
    BY <1>0, <2>1 DEF Freed, OnRegisters
  <2>. QED
    BY <2>1, <2>2, <2>3, LeakScratch, LeakFewer
<1>9. CASE UNCHANGED vars
  BY <1>9 DEF vars, LeakInv
<1>. QED
  BY <1>1, <1>2, <1>3, <1>4, <1>5, <1>6, <1>7, <1>8, <1>9 DEF Next

\* For every number of registers and every program, what the allocator loses is
\* an address for each GPIO statement and the last result (rpy.c does not give
\* address_reg back).
THEOREM LeaksCounted == Spec => []LeaksOnlyAddresses
<1>1. LeakInv => LeaksOnlyAddresses
  <2>. SUFFICES ASSUME LeakInv, ~overtaken
                PROVE  Cardinality(RegisterNumbers \ (Unused(registers) \cup Mapped(map)))
                         <= devices + 1
    BY DEF LeaksOnlyAddresses
  <2>. DEFINE x == FreeIntermediary(map)
  <2>1. RegisterNumbers \ (Unused(registers) \cup Mapped(map)) = Leaked(map, registers)
    BY DEF Leaked, Unused
  <2>2. /\ Cardinality(Leak(map, registers)) <= devices /\ devices \in Nat
        /\ IsFiniteSet(Leak(map, registers)) /\ IsFiniteSet(Leaked(map, registers))
    BY LeakFinite DEF LeakInv
  <2>3. Cardinality(Leak(map, registers)) \in
          {Cardinality(Leaked(map, registers)) - 1, Cardinality(Leaked(map, registers))}
    BY <2>2, FS_RemoveElement DEF Leak
  <2>4. /\ Cardinality(Leak(map, registers)) \in Nat
        /\ Cardinality(Leaked(map, registers)) \in Nat
    BY <2>2, FS_CardinalityType
  <2>5. Cardinality(Leaked(map, registers)) <= devices + 1
    BY <2>2, <2>3, <2>4
  <2>. QED
    BY <2>1, <2>5
<1>. QED
  BY <1>1, LeakInit, LeakNext, Invariant, PTL DEF Spec
-----------------------------------------------------------------------------
(* Types. *)
Values == 0 .. 2^WordWidth - 1
Results == [reg : RegisterNumbers, from : {"name", "small", "large", "op"},
            value : Values, sound : BOOLEAN]

LEMMA Widths ==
  /\ 2^WordWidth \in Nat \ {0} /\ 2^TokenWidth \in Nat \ {0}
  /\ 2^TokenWidth <= 2^WordWidth
  /\ WordWidth \in Nat
<1>1. {TokenWidth, WordWidth} \subseteq Nat /\ TokenWidth <= WordWidth
  BY CodegenAssumption
<1>2. TokenWidth \in Nat /\ WordWidth \in Nat
  BY <1>1
<1>. QED
  BY <1>1, <1>2, PowerPositive, PowerOrder

LEMMA WordIn == ASSUME NEW v \in Int PROVE Word(v) \in Values
  BY Widths DEF Word, Values

LEMMA TokenIn == ASSUME NEW v \in Int PROVE Token(v) \in Values
<1>1. Token(v) \in 0 .. 2^TokenWidth - 1
  BY Widths DEF Token
<1>. QED
  BY <1>1, Widths DEF Values

\* An integer that a token does not cut is not cut by a register.
LEMMA TokenFits == ASSUME NEW v \in Nat, v = Token(v) PROVE Word(v) = v
<1>1. v \in 0 .. 2^TokenWidth - 1
  BY Widths DEF Token
<1>. QED
  BY <1>1, Widths DEF Word

LEMMA BitOpIn == ASSUME NEW op, NEW x \in Int, NEW y \in Int PROVE BitOp(op, x, y) \in Int
<1>. DEFINE b == Bits(x, WordWidth)
            c == Bits(y, WordWidth)
            bits == [k \in 0 .. WordWidth - 1 |->
                       IF op = "&" THEN b[k] * c[k]
                       ELSE IF op = "|" THEN b[k] + c[k] - b[k] * c[k]
                       ELSE (b[k] + c[k]) % 2]
<1>1. ASSUME NEW k \in 0 .. WordWidth - 1 PROVE bits[k] \in {0, 1}
  <2>1. k \in Nat
    BY Widths
  <2>2. 2^k \in Nat \ {0}
    BY <2>1, PowerPositive
  <2>3. x \div 2^k \in Int /\ y \div 2^k \in Int
    BY <2>2
  <2>4. b[k] = (x \div 2^k) % 2 /\ c[k] = (y \div 2^k) % 2
    BY DEF Bits
  <2>5. b[k] \in {0, 1} /\ c[k] \in {0, 1}
    BY <2>3, <2>4
  <2>. HIDE DEF b, c
  <2>6. b[k] * c[k] \in {0, 1}
    BY <2>5
  <2>7. b[k] + c[k] - b[k] * c[k] \in {0, 1}
    BY <2>5
  <2>8. (b[k] + c[k]) % 2 \in {0, 1}
    BY <2>5
  <2>. QED
    BY <2>6, <2>7, <2>8
<1>2. BitOp(op, x, y) = Unsigned(bits, WordWidth)
  BY DEF BitOp
<1>. HIDE DEF bits
<1>3. Unsigned(bits, WordWidth) \in 0 .. 2^WordWidth - 1
  BY <1>1, Widths, UnsignedIn
<1>. QED
  BY <1>2, <1>3, Widths

LEMMA ApplyIn == ASSUME NEW op, NEW x \in Int, NEW y \in Int PROVE Apply(op, x, y) \in Int
<1>1. x + y \in Int /\ x - y \in Int /\ x * y \in Int
  OBVIOUS
<1>. QED
  BY <1>1, BitOpIn DEF Apply

LEMMA NegatedIn == ASSUME NEW op, NEW x \in Int PROVE Negated(op, x) \in Int
  BY DEF Negated

\* The results below the k last ones.
LEMMA BelowIn ==
  ASSUME pending \in Seq(Results), NEW k \in Nat, k <= Len(pending)
  PROVE  /\ Below(k) \in Seq(Results) /\ Len(Below(k)) = Len(pending) - k
         /\ \A i \in 1 .. Len(pending) - k : Below(k)[i] = pending[i]
         /\ \A j \in 0 .. k - 1 : Top(j) \in Results
<1>1. Len(pending) \in Nat /\ Len(pending) - k \in 0 .. Len(pending)
  OBVIOUS
<1>2. \A j \in 0 .. k - 1 : Len(pending) - j \in 1 .. Len(pending)
  BY <1>1
<1>. QED
  BY <1>1, <1>2 DEF Below, Top

RegistersIn == [RegisterNumbers -> Int]

LEMMA FreedIn ==
  ASSUME NEW m, NEW regs \in RegistersIn, NEW reg
  PROVE  FreedIntermediary(m, regs, reg) \in RegistersIn /\ Freed(regs, reg) \in RegistersIn
<1>1. NOT_USED \in Int
  BY DEF NOT_USED
<1>2. [regs EXCEPT ![reg] = NOT_USED] \in RegistersIn
  BY <1>1 DEF RegistersIn
<1>. QED
  BY <1>2 DEF FreedIntermediary, Freed

LEMMA RegistersPut ==
  ASSUME NEW regs \in RegistersIn, NEW reg, NEW v \in Int
  PROVE  [regs EXCEPT ![reg] = v] \in RegistersIn
  BY DEF RegistersIn

LEMMA AfterGetIn ==
  ASSUME NEW m, NEW regs \in RegistersIn, NEW name
  PROVE  RegistersAfterGet(m, regs, name) \in RegistersIn
<1>1. [regs EXCEPT ![GetRegister(m, name)] = 0] \in RegistersIn
  BY 0 \in Int, RegistersPut
<1>. QED
  BY <1>1 DEF RegistersAfterGet

Types ==
  /\ registers \in RegistersIn
  /\ machine \in [RegisterNumbers -> Values]
  /\ pending \in Seq(Results)
  /\ env \in [Vars -> Values \cup {Unassigned}]
  /\ moved \in BOOLEAN
  /\ devices \in Nat

LEMMA TypesStore ==
  ASSUME NEW c, c.registers \in RegistersIn, c.machine \in [RegisterNumbers -> Values],
         c.directives \in Seq(DirectiveEntries), c.directives # <<>>,
         NEW device \in DirectiveNames, NEW imm \in Int, NEW name,
         NEW d, d = StoreTo(c, device, imm, name)
  PROVE  /\ d.registers \in RegistersIn /\ d.machine \in [RegisterNumbers -> Values]
         /\ d.directives \in Seq(DirectiveEntries) /\ d.directives # <<>>
<1>. DEFINE ds == PushDirective(c.directives, device, Address)
            address_reg == FreeRegister(c.registers)
            addressed == [c.registers EXCEPT ![address_reg] = Last(ds).value]
            move_reg == FreeRegister(addressed)
<1>1. /\ d.registers = Freed([addressed EXCEPT ![move_reg] = imm], move_reg)
      /\ d.machine = [c.machine EXCEPT ![address_reg] = Word(Last(ds).value),
                                       ![move_reg] = Token(imm)]
      /\ d.directives = ds
  BY DEF StoreTo
<1>2. ds \in Seq(DirectiveEntries) /\ ds # <<>> /\ Last(ds).value \in Nat
  BY Pushed, CodegenAssumption
<1>. HIDE DEF ds
<1>3. Word(Last(ds).value) \in Values /\ Token(imm) \in Values
  BY <1>2, WordIn, TokenIn
<1>4. d.machine \in [RegisterNumbers -> Values]
  BY <1>1, <1>3
<1>5. addressed \in RegistersIn
  <2>1. Last(ds).value \in Int
    BY <1>2
  <2>. QED
    BY <2>1 DEF RegistersIn
<1>. HIDE DEF addressed, address_reg, move_reg
<1>6. [addressed EXCEPT ![move_reg] = imm] \in RegistersIn
  BY <1>5 DEF RegistersIn
<1>7. d.registers \in RegistersIn
  <2>1. Freed([addressed EXCEPT ![move_reg] = imm], move_reg) \in RegistersIn
    BY <1>6, FreedIn
  <2>. QED
    BY <1>1, <2>1
<1>. QED
  BY <1>1, <1>2, <1>4, <1>7

LEMMA TypesInit == Init => Types
<1>. SUFFICES ASSUME Init PROVE Types
  OBVIOUS
<1>1. 0 \in Values /\ NOT_USED \in Int
  BY Widths DEF Values, NOT_USED
<1>2. registers \in RegistersIn /\ machine \in [RegisterNumbers -> Values]
  BY <1>1 DEF Init, RegistersIn
<1>3. pending \in Seq(Results) /\ env \in [Vars -> Values \cup {Unassigned}]
  BY DEF Init
<1>. QED
  BY <1>2, <1>3 DEF Init, Types

LEMMA TypesNext == IInv /\ Types /\ [Next]_vars => Types'
<1>. SUFFICES ASSUME IInv, Types, [Next]_vars PROVE Types'
  OBVIOUS
<1>0. /\ map \in Seq(Entries)
      /\ directives \in Seq(DirectiveEntries) /\ directives # <<>>
      /\ Mapped(map) \subseteq RegisterNumbers
      /\ Len(pending) \in Nat
      /\ \A r \in RegisterNumbers : r \in Int
  BY MappedIn, RegistersAssumption DEF IInv, Good, Types, RegisterNumbers
<1>1. ASSUME NEW x \in Vars, EvalName(x) PROVE Types'
  <2>. DEFINE res == Result(GetRegister(map, x), "name", env[x], TRUE)
  <2>1. /\ CanGet(map, x) /\ env[x] # Unassigned
        /\ registers' = RegistersAfterGet(map, registers, x)
        /\ pending' = Append(pending, res)
        /\ UNCHANGED <<machine, env, moved, devices>>
    BY <1>1 DEF EvalName, history
  <2>2. GetRegister(map, x) \in RegisterNumbers
    BY <1>0, <2>1, AfterGet DEF Names
  <2>3. env[x] \in Values
    BY <2>1 DEF Types
  <2>4. res \in Results
    BY <2>2, <2>3 DEF Results, Result
  <2>. HIDE DEF res
  <2>. QED
    BY <2>1, <2>4, AfterGetIn DEF Types
<1>2. ASSUME NEW v \in Ints, EvalInt(v) PROVE Types'
  <2>. DEFINE reg == FreeIntermediary(map)
              small == Result(reg, "small", Word(v), v = Token(v))
              large == Result(reg, "large", Word(v), TRUE)
  <2>1. /\ Unmapped(map) # {}
        /\ registers' = [registers EXCEPT ![reg] = v]
        /\ \/ machine' = [machine EXCEPT ![reg] = Token(v)] /\ pending' = Append(pending, small)
           \/ /\ directives' = PushDirective(directives, <<"dir", Len(directives)>>, v)
              /\ machine' = [machine EXCEPT ![reg] = Word(Last(directives').value)]
              /\ pending' = Append(pending, large)
        /\ UNCHANGED <<env, moved, devices>>
    BY <1>2 DEF EvalInt, history
  <2>2. v \in Nat /\ <<"dir", Len(directives)>> \in DirectiveNames
    BY <1>0, CodegenAssumption DEF DirectiveNames
  <2>3. reg \in RegisterNumbers
    BY <2>1, FreeIntermediaryIn
  <2>4. Token(v) \in Values /\ Word(v) \in Values
    BY <2>2, TokenIn, WordIn
  <2>5. small \in Results /\ large \in Results
    <3>1. (v = Token(v)) \in BOOLEAN
      OBVIOUS
    <3>. QED
      BY <2>3, <2>4, <3>1 DEF Results, Result
  <2>. HIDE DEF reg, small, large
  <2>6. directives' = PushDirective(directives, <<"dir", Len(directives)>>, v)
          => Word(Last(directives').value) \in Values
    <3>. SUFFICES ASSUME directives' = PushDirective(directives, <<"dir", Len(directives)>>, v)
                  PROVE  Word(Last(directives').value) \in Values
      OBVIOUS
    <3>1. Last(directives').value \in Nat
      BY <1>0, <2>2, Pushed
    <3>2. Last(directives').value \in Int
      BY <3>1
    <3>. QED
      BY <3>2, WordIn
  <2>7. machine' \in [RegisterNumbers -> Values]
    BY <2>1, <2>4, <2>6 DEF Types
  <2>8. registers' \in RegistersIn
    <3>1. v \in Int /\ registers \in RegistersIn
      BY <2>2 DEF Types
    <3>. QED
      BY <2>1, <3>1 DEF RegistersIn
  <2>9. pending' \in Seq(Results)
    <3>1. pending \in Seq(Results)
      BY DEF Types
    <3>2. Append(pending, small) \in Seq(Results) /\ Append(pending, large) \in Seq(Results)
      BY <2>5, <3>1
    <3>. QED
      BY <2>1, <3>2
  <2>. QED
    BY <2>1, <2>7, <2>8, <2>9 DEF Types
<1>3. ASSUME NEW op \in Ops, EvalBinary(op) PROVE Types'
  <2>. DEFINE left == Top(1)
              right == Top(0)
              dest == FreeIntermediary(map)
              computed == [registers EXCEPT ![dest] = Apply(op, left.reg, right.reg)]
              once == FreedIntermediary(map, computed, left.reg)
              got == Word(Apply(op, machine[left.reg], machine[right.reg]))
              sound == /\ left.sound /\ right.sound
                       /\ left.from = "name" \/ right.from = "name"
              value == Word(Apply(op, left.value, right.value))
              res == Result(dest, "op", value, sound)
  <2>1. /\ Unmapped(map) # {} /\ Len(pending) >= 2
        /\ machine' = [machine EXCEPT ![dest] = got]
        /\ registers' = FreedIntermediary(map, once, right.reg)
        /\ pending' = Append(Below(2), res)
        /\ UNCHANGED <<env, moved, devices>>
    BY <1>3 DEF EvalBinary, history
  <2>2. dest \in RegisterNumbers
    BY <2>1, FreeIntermediaryIn
  <2>3. left \in Results /\ right \in Results /\ Below(2) \in Seq(Results)
    BY <1>0, <2>1, BelowIn DEF Types
  <2>. HIDE DEF left, right
  <2>4. /\ left.reg \in RegisterNumbers /\ right.reg \in RegisterNumbers
        /\ left.value \in Values /\ right.value \in Values
        /\ left.reg \in Int /\ right.reg \in Int
    BY <1>0, <2>3 DEF Results
  <2>5. /\ machine[left.reg] \in Int /\ machine[right.reg] \in Int
        /\ left.value \in Int /\ right.value \in Int
    BY <2>4 DEF Types, Values
  <2>6. got \in Values /\ value \in Values /\ Apply(op, left.reg, right.reg) \in Int
    BY <2>4, <2>5, ApplyIn, WordIn
  <2>7. sound \in BOOLEAN
    OBVIOUS
  <2>. HIDE DEF got, value, sound
  <2>8. res \in Results
    BY <2>2, <2>6, <2>7 DEF Results, Result
  <2>. HIDE DEF res, dest
  <2>9. computed \in RegistersIn
    BY <2>6 DEF Types, RegistersIn
  <2>. HIDE DEF computed
  <2>10. registers' \in RegistersIn
    BY <2>1, <2>9, FreedIn
  <2>11. machine' \in [RegisterNumbers -> Values]
    BY <2>1, <2>6 DEF Types
  <2>12. pending' \in Seq(Results)
    BY <2>1, <2>3, <2>8
  <2>. QED
    BY <2>1, <2>10, <2>11, <2>12 DEF Types
<1>4. ASSUME NEW op \in {"-", "~"}, EvalUnary(op) PROVE Types'
  <2>. DEFINE src == Top(0)
              dest == FreeIntermediary(map)
              cleared == [registers EXCEPT ![dest] = 0]
              computed == [cleared EXCEPT ![dest] = Negated(op, cleared[src.reg])]
              got == Word(Negated(op, machine[src.reg]))
              value == Word(Negated(op, src.value))
              res == Result(dest, "op", value, src.sound)
  <2>1. /\ Unmapped(map) # {} /\ Len(pending) >= 1
        /\ machine' = [machine EXCEPT ![dest] = got]
        /\ registers' = FreedIntermediary(map, computed, src.reg)
        /\ pending' = Append(Below(1), res)
        /\ UNCHANGED <<env, moved, devices>>
    BY <1>4 DEF EvalUnary, history
  <2>2. dest \in RegisterNumbers
    BY <2>1, FreeIntermediaryIn
  <2>3. src \in Results /\ Below(1) \in Seq(Results)
    BY <1>0, <2>1, BelowIn DEF Types
  <2>. HIDE DEF src
  <2>4. src.reg \in RegisterNumbers /\ src.value \in Values /\ src.sound \in BOOLEAN
    BY <2>3 DEF Results
  <2>5. machine[src.reg] \in Int /\ src.value \in Int
    BY <2>4 DEF Types, Values
  <2>6. got \in Values /\ value \in Values
    BY <2>5, NegatedIn, WordIn
  <2>. HIDE DEF got, value
  <2>7. res \in Results
    BY <2>2, <2>4, <2>6 DEF Results, Result
  <2>. HIDE DEF res, dest
  <2>8. cleared \in RegistersIn
    <3>1. registers \in RegistersIn
      BY DEF Types
    <3>. QED
      BY <3>1, 0 \in Int, RegistersPut
  <2>. HIDE DEF cleared
  <2>9. Negated(op, cleared[src.reg]) \in Int
    BY <2>4, <2>8, NegatedIn DEF RegistersIn
  <2>10. computed \in RegistersIn
    BY <2>8, <2>9 DEF RegistersIn
  <2>. HIDE DEF computed
  <2>11. registers' \in RegistersIn
    BY <2>1, <2>10, FreedIn
  <2>12. machine' \in [RegisterNumbers -> Values]
    BY <2>1, <2>6 DEF Types
  <2>13. pending' \in Seq(Results)
    BY <2>1, <2>3, <2>7
  <2>. QED
    BY <2>1, <2>11, <2>12, <2>13 DEF Types
<1>5. ASSUME NEW x \in Vars, NEW v \in Ints, AssignInt(x, v) PROVE Types'
  <2>. DEFINE taken == RegistersAfterGet(map, registers, x)
              reg == GetRegister(map, x)
  <2>1. /\ CanGet(map, x)
        /\ registers' = [taken EXCEPT ![reg] = v]
        /\ machine' = [machine EXCEPT ![reg] = Token(v)]
        /\ env' = [env EXCEPT ![x] = machine'[reg]]
        /\ UNCHANGED <<pending, moved, devices>>
    BY <1>5 DEF AssignInt
  <2>2. reg \in RegisterNumbers
    BY <1>0, <2>1, AfterGet DEF Names
  <2>3. v \in Int /\ Token(v) \in Values
    BY CodegenAssumption, TokenIn
  <2>4. taken \in RegistersIn
    BY AfterGetIn DEF Types
  <2>. HIDE DEF taken, reg
  <2>5. machine' \in [RegisterNumbers -> Values] /\ registers' \in RegistersIn
    BY <2>1, <2>3, <2>4 DEF Types, RegistersIn
  <2>6. machine'[reg] \in Values
    BY <2>2, <2>5
  <2>. QED
    BY <2>1, <2>5, <2>6 DEF Types
<1>6. ASSUME NEW x \in Vars, AssignExpression(x) PROVE Types'
  <2>. DEFINE taken == RegistersAfterGet(map, registers, x)
              reg == GetRegister(map, x)
              from == pending[1].reg
  <2>1. /\ CanGet(map, x) /\ Len(pending) = 1
        /\ \/ /\ machine' = [machine EXCEPT ![reg] = machine[from]]
              /\ registers' = [taken EXCEPT ![reg] = taken[from]]
              /\ moved' = TRUE
           \/ machine' = machine /\ registers' = taken /\ moved' = moved
        /\ env' = [env EXCEPT ![x] = machine'[reg]]
        /\ pending' = <<>>
        /\ UNCHANGED devices
    BY <1>6 DEF AssignExpression
  <2>2. reg \in RegisterNumbers
    BY <1>0, <2>1, AfterGet DEF Names
  <2>3. from \in RegisterNumbers
    <3>1. pending \in Seq(Results) /\ 1 \in 1 .. Len(pending)
      BY <2>1 DEF Types
    <3>2. pending[1] \in Results
      BY <3>1
    <3>. QED
      BY <3>2 DEF Results
  <2>4. taken \in RegistersIn
    BY AfterGetIn DEF Types
  <2>. HIDE DEF taken, reg, from
  <2>5. machine[from] \in Values /\ taken[from] \in Int
    BY <2>3, <2>4 DEF Types, RegistersIn
  <2>6. machine' \in [RegisterNumbers -> Values] /\ registers' \in RegistersIn
    BY <2>1, <2>4, <2>5 DEF Types, RegistersIn
  <2>7. machine'[reg] \in Values
    BY <2>2, <2>6
  <2>8. moved' \in BOOLEAN /\ env' \in [Vars -> Values \cup {Unassigned}]
    BY <2>1, <2>7 DEF Types
  <2>. QED
    BY <2>1, <2>6, <2>8 DEF Types
<1>7. ASSUME NEW pin \in Pins, NEW on \in BOOLEAN, Gpio(pin, on) PROVE Types'
  <2>. DEFINE selects == ~HasName(map, pin)
              selected == IF selects THEN fsel_value(Context, pin) ELSE Context
              c == IF on THEN set_value(selected, pin) ELSE clear_value(selected, pin)
              Fine(d) == /\ d.registers \in RegistersIn
                         /\ d.machine \in [RegisterNumbers -> Values]
                         /\ d.directives \in Seq(DirectiveEntries) /\ d.directives # <<>>
  <2>1. /\ registers' = c.registers /\ machine' = c.machine
        /\ devices' = devices + 1 /\ UNCHANGED <<pending, env, moved>>
    BY <1>7 DEF Gpio
  <2>2. pin \in 0..10 /\ pin \in Nat /\ 3 * pin \in Nat
    BY CodegenAssumption
  <2>3. /\ <<"gpio_fsel", pin \div 10>> \in DirectiveNames
        /\ <<"gpio_set", pin \div 32>> \in DirectiveNames
        /\ <<"gpio_clear", pin \div 32>> \in DirectiveNames
    BY <2>2 DEF DirectiveNames
  <2>4. 2^pin \in Int /\ 2^(3 * pin) \in Int
    BY <2>2, PowerPositive
  <2>5. Fine(Context)
    BY <1>0 DEF Context, Types
  <2>6. Fine(selected)
    <3>1. CASE selects
      <4>1. \E device \in DirectiveNames, imm \in Int : selected = StoreTo(Context, device, imm, pin)
        BY <2>3, <2>4, <3>1 DEF fsel_value
      <4>. HIDE DEF selected
      <4>. QED
        BY <2>5, <4>1, TypesStore
    <3>2. CASE ~selects
      BY <2>5, <3>2
    <3>. QED
      BY <3>1, <3>2
  <2>7. Fine(c)
    <3>1. \E device \in DirectiveNames, imm \in Int : c = StoreTo(selected, device, imm, NoName)
      BY <2>3, <2>4 DEF set_value, clear_value
    <3>. HIDE DEF selected, c
    <3>. QED
      BY <2>6, <3>1, TypesStore
  <2>. HIDE DEF c
  <2>. QED
    BY <2>1, <2>7 DEF Types
<1>8. ASSUME NEW time \in Times, Wait(time) PROVE Types'
  <2>. DEFINE reg == FreeRegister(registers)
              delay == time * WAIT_SECOND
  <2>1. /\ registers' = Freed([registers EXCEPT ![reg] = delay], reg)
        /\ machine' = [machine EXCEPT ![reg] = 0]
        /\ UNCHANGED <<pending, env, moved, devices>>
    BY <1>8 DEF Wait
  <2>2. delay \in Int
    <3>1. {WAIT_SECOND} \subseteq Nat
      BY CodegenAssumption
    <3>2. WAIT_SECOND \in Nat /\ time \in Nat
      BY <3>1, CodegenAssumption
    <3>. QED
      BY <3>2
  <2>3. 0 \in Values
    BY Widths DEF Values
  <2>. HIDE DEF delay, reg
  <2>4. [registers EXCEPT ![reg] = delay] \in RegistersIn
    BY <2>2 DEF Types, RegistersIn
  <2>5. registers' \in RegistersIn
    BY <2>1, <2>4, FreedIn
  <2>6. machine' \in [RegisterNumbers -> Values]
    BY <2>1, <2>3 DEF Types
  <2>. QED
    BY <2>1, <2>5, <2>6 DEF Types
<1>9. CASE UNCHANGED vars
  BY <1>9 DEF vars, history, Types
<1>. QED
  BY <1>1, <1>2, <1>3, <1>4, <1>5, <1>6, <1>7, <1>8, <1>9 DEF Next

\* The registers hold words of their width, whatever is evaluated, every result
\* is in a register that exists and no directive is made twice.
THEOREM TypeCorrect == Spec => []TypeOK
<1>1. IInv /\ Types /\ Distinct(directives) => TypeOK
  <2>. SUFFICES ASSUME IInv, Types, Distinct(directives) PROVE TypeOK
    OBVIOUS
  <2>1. map \in Seq([name : Names, reg : RegisterNumbers])
    BY DEF IInv, Good, Entries
  <2>2. directives \in Seq([name : DirectiveNames, value : Nat]) /\ directives # <<>>
    BY DEF IInv, Good, DirectiveEntries
  <2>3. env \in [Vars -> -1 .. 2^WordWidth - 1]
    <3>1. Values \cup {Unassigned} \subseteq -1 .. 2^WordWidth - 1
      BY Widths DEF Values, Unassigned
    <3>. QED
      BY <3>1 DEF Types
  <2>4. overtaken \in BOOLEAN /\ line \in Nat
    BY DEF IInv
  <2>. QED
    BY <2>1, <2>2, <2>3, <2>4 DEF TypeOK, Types, Values, Results, RegistersIn, Distinct
<1>. QED
  BY <1>1, Invariant, TypesInit, TypesNext, DistinctInit, DistinctNext, PTL DEF Spec
-----------------------------------------------------------------------------
(* What operands hold. *)

\* The numbered directives have numbers below the count.
Numbered(ds) == \A i \in DOMAIN ds : ds[i].name[1] = "dir" => ds[i].name[2] < Len(ds)

LEMMA NumberedPush ==
  ASSUME NEW ds \in Seq(DirectiveEntries), Numbered(ds), NEW name \in DirectiveNames,
         NEW v \in Nat, name[1] # "dir" \/ name[2] = Len(ds)
  PROVE  /\ Numbered(PushDirective(ds, name, v))
         /\ name[1] = "dir" => ~HasDirective(ds, name)
<1>1. name[1] = "dir" => ~HasDirective(ds, name)
  BY DEF HasDirective, Numbered
<1>2. CASE PushDirective(ds, name, v) = ds
  BY <1>1, <1>2
<1>3. CASE PushDirective(ds, name, v) # ds
  <2>. DEFINE d == [name |-> name, value |-> v]
  <2>1. d \in DirectiveEntries /\ d.name = name
    BY DEF DirectiveEntries
  <2>2. PushDirective(ds, name, v) = Append(ds, d)
    BY <1>3 DEF PushDirective
  <2>. HIDE DEF d
  <2>3. Len(Append(ds, d)) = Len(ds) + 1 /\ Len(ds) \in Nat
    BY <2>1
  <2>4. ASSUME NEW i \in DOMAIN Append(ds, d), Append(ds, d)[i].name[1] = "dir"
        PROVE  Append(ds, d)[i].name[2] < Len(ds) + 1
    <3>1. CASE i \in DOMAIN ds /\ Append(ds, d)[i] = ds[i]
      <4>1. ds[i] \in DirectiveEntries
        BY <3>1
      <4>2. ds[i].name[2] \in Nat /\ ds[i].name[2] < Len(ds)
        BY <2>4, <3>1, <4>1 DEF Numbered, DirectiveEntries, DirectiveNames
      <4>. QED
        BY <2>3, <3>1, <4>2
    <3>2. CASE Append(ds, d)[i].name = name
      BY <2>3, <2>4, <3>2
    <3>. QED
      BY <2>2, <3>1, <3>2, PushedNames
  <2>. QED
    BY <1>1, <2>2, <2>3, <2>4 DEF Numbered
<1>. QED
  BY <1>2, <1>3

\* Every sound name's value is in the register of some name, and a sound result
\* that only names follow is where it was computed.
Held(pend, m, mach) ==
  \A i \in DOMAIN pend : pend[i].sound =>
    /\ pend[i].from = "name" =>
         pend[i].reg \in Mapped(m) /\ mach[pend[i].reg] = pend[i].value
    /\ (\A j \in i + 1 .. Len(pend) : pend[j].from = "name") =>
         mach[pend[i].reg] = pend[i].value

HoldInv == Numbered(directives) /\ (~overtaken => Held(pending, map, machine))

\* An intermediate result takes a register that no name has, which the earlier
\* intermediate results may have lost.
LEMMA HeldComputed ==
  ASSUME pending \in Seq(Results), Held(pending, map, machine),
         NEW rest \in Seq(Results), Len(rest) <= Len(pending),
         \A i \in 1 .. Len(rest) : rest[i] = pending[i],
         NEW item \in Results, item.from # "name", pending' = Append(rest, item),
         Unmapped(map) # {}, map' = map,
         \A r \in RegisterNumbers : r # FreeIntermediary(map) => machine'[r] = machine[r],
         item.sound => machine'[item.reg] = item.value
  PROVE  Held(pending', map', machine')
<1>. DEFINE k == Len(rest)
<1>1. /\ DOMAIN pending' = 1 .. k + 1 /\ Len(pending') = k + 1 /\ k \in Nat
      /\ \A i \in 1 .. k :
           pending'[i] = pending[i] /\ i \in DOMAIN pending /\ pending[i] \in Results
      /\ pending'[k + 1] = item
  OBVIOUS
<1>. HIDE DEF k
<1>2. FreeIntermediary(map) \notin Mapped(map)
  BY FreeIntermediaryIn
<1>3. ASSUME NEW i \in 1 .. k, pending'[i].sound
      PROVE  /\ pending'[i].from = "name" =>
                  /\ pending'[i].reg \in Mapped(map)
                  /\ machine'[pending'[i].reg] = pending'[i].value
             /\ \E j \in i + 1 .. Len(pending') : pending'[j].from # "name"
  <2>1. pending[i].reg \in RegisterNumbers
    BY <1>1 DEF Results
  <2>2. pending[i].from = "name" =>
          pending[i].reg \in Mapped(map) /\ machine[pending[i].reg] = pending[i].value
    BY <1>1, <1>3 DEF Held
  <2>3. k + 1 \in i + 1 .. Len(pending')
    BY <1>1
  <2>. QED
    BY <1>1, <1>2, <2>1, <2>2, <2>3
<1>4. ASSUME NEW i \in DOMAIN pending', pending'[i].sound
      PROVE  /\ pending'[i].from = "name" =>
                  /\ pending'[i].reg \in Mapped(map)
                  /\ machine'[pending'[i].reg] = pending'[i].value
             /\ (\A j \in i + 1 .. Len(pending') : pending'[j].from = "name") =>
                  machine'[pending'[i].reg] = pending'[i].value
  <2>1. CASE i \in 1 .. k
    BY <1>3, <1>4, <2>1
  <2>2. CASE i = k + 1
    BY <1>1, <1>4, <2>2
  <2>. QED
    BY <1>1, <2>1, <2>2
<1>. QED
  BY <1>4 DEF Held

\* A name is read from its register, which no expression has written.
LEMMA HeldNamed ==
  ASSUME NEW pend \in Seq(Results), NEW item \in Results, item.from = "name",
         NEW m, NEW m2, Mapped(m) \subseteq Mapped(m2), NEW mach,
         item.reg \in Mapped(m2), mach[item.reg] = item.value,
         Held(pend, m, mach)
  PROVE  Held(Append(pend, item), m2, mach)
<1>. DEFINE all == Append(pend, item)
            k == Len(pend)
<1>1. /\ DOMAIN all = 1 .. k + 1 /\ Len(all) = k + 1 /\ k \in Nat
      /\ \A i \in 1 .. k : all[i] = pend[i] /\ i \in DOMAIN pend
      /\ all[k + 1] = item
  OBVIOUS
<1>. HIDE DEF all, k
<1>2. ASSUME NEW i \in DOMAIN all, all[i].sound
      PROVE  /\ all[i].from = "name" =>
                  all[i].reg \in Mapped(m2) /\ mach[all[i].reg] = all[i].value
             /\ (\A j \in i + 1 .. Len(all) : all[j].from = "name") =>
                  mach[all[i].reg] = all[i].value
  <2>1. CASE i \in 1 .. k
    <3>1. /\ pend[i].from = "name" =>
               pend[i].reg \in Mapped(m) /\ mach[pend[i].reg] = pend[i].value
          /\ (\A j \in i + 1 .. Len(pend) : pend[j].from = "name") =>
               mach[pend[i].reg] = pend[i].value
      BY <1>1, <1>2, <2>1 DEF Held
    <3>2. (\A j \in i + 1 .. Len(all) : all[j].from = "name")
            => (\A j \in i + 1 .. Len(pend) : pend[j].from = "name")
      <4>1. \A j \in i + 1 .. Len(pend) : j \in i + 1 .. Len(all) /\ all[j] = pend[j]
        BY <1>1, <2>1 DEF k
      <4>. QED
        BY <4>1
    <3>. QED
      BY <1>1, <2>1, <3>1, <3>2
  <2>2. CASE i = k + 1
    BY <1>1, <2>2
  <2>. QED
    BY <1>1, <2>1, <2>2
<1>. QED
  BY <1>2 DEF Held, all

\* The operands of an operation: one of two is a name, or there is one.
LEMMA OperandsHeld ==
  ASSUME NEW pend \in Seq(Results), NEW m, NEW mach, Held(pend, m, mach), Len(pend) >= 1
  PROVE  LET n == Len(pend)
         IN  /\ pend[n].sound => mach[pend[n].reg] = pend[n].value
             /\ n >= 2 /\ pend[n - 1].sound
                /\ (pend[n - 1].from = "name" \/ pend[n].from = "name")
                => mach[pend[n - 1].reg] = pend[n - 1].value
<1>. DEFINE n == Len(pend)
<1>1. n \in Nat /\ n \in DOMAIN pend
  OBVIOUS
<1>2. pend[n].sound => mach[pend[n].reg] = pend[n].value
  BY <1>1 DEF Held
<1>3. ASSUME n >= 2, pend[n - 1].sound,
             pend[n - 1].from = "name" \/ pend[n].from = "name"
      PROVE  mach[pend[n - 1].reg] = pend[n - 1].value
  <2>1. n - 1 \in DOMAIN pend /\ \A j \in n - 1 + 1 .. n : j = n
    BY <1>1, <1>3
  <2>. QED
    BY <1>3, <2>1 DEF Held
<1>. QED
  BY <1>2, <1>3

LEMMA HoldInit == Init => HoldInv
<1>. SUFFICES ASSUME Init PROVE HoldInv
  OBVIOUS
<1>1. Numbered(directives)
  <2>. DEFINE d == [name |-> <<"stack_pointer", 0>>, value |-> StackPointer]
  <2>1. directives = <<d>> /\ d.name[1] # "dir"
    BY DEF Init
  <2>. HIDE DEF d
  <2>. QED
    BY <2>1 DEF Numbered
<1>2. Held(pending, map, machine)
  BY DEF Init, Held
<1>. QED
  BY <1>1, <1>2 DEF HoldInv

LEMMA HoldNext == IInv /\ Types /\ HoldInv /\ [Next]_vars => HoldInv'
<1>. SUFFICES ASSUME IInv, Types, HoldInv, [Next]_vars PROVE HoldInv'
  OBVIOUS
<1>0. /\ map \in Seq(Entries) /\ Mapped(map) \subseteq RegisterNumbers
      /\ directives \in Seq(DirectiveEntries) /\ directives # <<>>
      /\ pending \in Seq(Results) /\ Len(pending) \in Nat
      /\ machine \in [RegisterNumbers -> Values] /\ \A r \in RegisterNumbers : r \in Int
  BY MappedIn, RegistersAssumption DEF IInv, Good, Types, RegisterNumbers
<1>1. ASSUME NEW x \in Vars, EvalName(x) PROVE HoldInv'
  <2>. DEFINE reg == GetRegister(map, x)
              item == Result(reg, "name", env[x], TRUE)
  <2>1. /\ env[x] # Unassigned /\ CanGet(map, x) /\ map' = MapAfterGet(map, x)
        /\ pending' = Append(pending, item)
        /\ UNCHANGED <<directives, machine, overtaken>>
    BY <1>1 DEF EvalName, history, tables
  <2>. SUFFICES ASSUME ~overtaken PROVE Held(pending', map', machine)
    BY <2>1 DEF HoldInv, Held, Numbered
  <2>2. PICK i \in DOMAIN map : map[i].name = x /\ machine[map[i].reg] = env[x]
    BY <2>1 DEF IInv, Good, Kept
  <2>3. HasName(map, x) /\ map' = map
    BY <2>1, <2>2 DEF HasName, MapAfterGet
  <2>4. PICK k \in DOMAIN map : map[k].name = x /\ RegOf(map, x) = map[k].reg
    BY <1>0, <2>3, FoundEntry
  <2>5. k = i
    BY <2>2, <2>4 DEF IInv, Good, NamesOnce
  <2>6. reg \in Mapped(map) /\ machine[reg] = env[x]
    BY <2>2, <2>3, <2>4, <2>5 DEF GetRegister, Mapped
  <2>7. item \in Results /\ item.from = "name" /\ item.reg = reg /\ item.value = env[x]
    <3>1. env[x] \in Values
      BY <2>1 DEF Types
    <3>. QED
      BY <1>0, <2>6, <3>1 DEF Results, Result
  <2>. HIDE DEF item, reg
  <2>. QED
    BY <1>0, <2>1, <2>3, <2>6, <2>7, HeldNamed DEF HoldInv
<1>2. ASSUME NEW v \in Ints, EvalInt(v) PROVE HoldInv'
  <2>. DEFINE reg == FreeIntermediary(map)
              small == Result(reg, "small", Word(v), v = Token(v))
              large == Result(reg, "large", Word(v), TRUE)
              name == <<"dir", Len(directives)>>
  <2>1. /\ Unmapped(map) # {} /\ UNCHANGED <<map, overtaken>>
        /\ \/ /\ machine' = [machine EXCEPT ![reg] = Token(v)]
              /\ pending' = Append(pending, small) /\ directives' = directives
           \/ /\ directives' = PushDirective(directives, name, v)
              /\ machine' = [machine EXCEPT ![reg] = Word(Last(directives').value)]
              /\ pending' = Append(pending, large)
    BY <1>2 DEF EvalInt, history
  <2>2. /\ v \in Nat /\ name \in DirectiveNames
        /\ name[1] = "dir" /\ name[2] = Len(directives)
    BY <1>0, CodegenAssumption DEF DirectiveNames
  <2>3. reg \in RegisterNumbers /\ reg \notin Mapped(map)
    BY <2>1, FreeIntermediaryIn
  <2>4. Word(v) \in Values /\ v \in Int
    BY <2>2, WordIn
  <2>5. /\ small \in Results /\ small.from # "name" /\ small.reg = reg
        /\ small.value = Word(v) /\ small.sound = (v = Token(v))
        /\ large \in Results /\ large.from # "name" /\ large.reg = reg
        /\ large.value = Word(v)
    BY <2>3, <2>4 DEF Results, Result
  <2>. HIDE DEF small, large, reg, name
  <2>6. CASE /\ machine' = [machine EXCEPT ![reg] = Token(v)]
             /\ pending' = Append(pending, small) /\ directives' = directives
    <3>1. small.sound => machine'[small.reg] = small.value
      BY <1>0, <2>2, <2>3, <2>5, <2>6, TokenFits
    <3>2. \A r \in RegisterNumbers : r # FreeIntermediary(map) => machine'[r] = machine[r]
      BY <1>0, <2>6 DEF reg
    <3>3. Held(pending, map, machine) => Held(pending', map', machine')
      <4>1. /\ Unmapped(map) # {} /\ map' = map /\ pending' = Append(pending, small)
            /\ Len(pending) <= Len(pending) /\ small \in Results /\ small.from # "name"
        BY <1>0, <2>1, <2>5, <2>6
      <4>. QED
        BY <1>0, <3>1, <3>2, <4>1, HeldComputed
    <3>. QED
      BY <2>1, <2>6, <3>3 DEF HoldInv
  <2>7. CASE /\ directives' = PushDirective(directives, name, v)
             /\ machine' = [machine EXCEPT ![reg] = Word(Last(directives').value)]
             /\ pending' = Append(pending, large)
    <3>1. ~HasDirective(directives, name) /\ Numbered(directives')
      BY <1>0, <2>2, <2>7, NumberedPush DEF HoldInv
    <3>2. Last(directives').value = v
      BY <1>0, <2>7, <3>1, PushedNew
    <3>3. large.sound => machine'[large.reg] = large.value
      BY <1>0, <2>3, <2>5, <2>7, <3>2
    <3>4. \A r \in RegisterNumbers : r # FreeIntermediary(map) => machine'[r] = machine[r]
      BY <1>0, <2>7 DEF reg
    <3>5. Held(pending, map, machine) => Held(pending', map', machine')
      <4>1. /\ Unmapped(map) # {} /\ map' = map /\ pending' = Append(pending, large)
            /\ Len(pending) <= Len(pending) /\ large \in Results /\ large.from # "name"
        BY <1>0, <2>1, <2>5, <2>7
      <4>. QED
        BY <1>0, <3>3, <3>4, <4>1, HeldComputed
    <3>. QED
      BY <2>1, <3>1, <3>5 DEF HoldInv
  <2>. QED
    BY <2>1, <2>6, <2>7
<1>3. ASSUME NEW op \in Ops, EvalBinary(op) PROVE HoldInv'
  <2>. DEFINE left == Top(1)
              right == Top(0)
              dest == FreeIntermediary(map)
              got == Word(Apply(op, machine[left.reg], machine[right.reg]))
              sound == /\ left.sound /\ right.sound
                       /\ left.from = "name" \/ right.from = "name"
              value == Word(Apply(op, left.value, right.value))
              item == Result(dest, "op", value, sound)
  <2>1. /\ Unmapped(map) # {} /\ Len(pending) >= 2
        /\ machine' = [machine EXCEPT ![dest] = got]
        /\ pending' = Append(Below(2), item)
        /\ UNCHANGED <<map, directives, overtaken>>
    BY <1>3 DEF EvalBinary, history, tables
  <2>2. dest \in RegisterNumbers /\ dest \notin Mapped(map)
    BY <2>1, FreeIntermediaryIn
  <2>3. /\ left \in Results /\ right \in Results
        /\ Below(2) \in Seq(Results) /\ Len(Below(2)) = Len(pending) - 2
        /\ \A i \in 1 .. Len(pending) - 2 : Below(2)[i] = pending[i]
    BY <1>0, <2>1, BelowIn
  <2>4. /\ left.value \in Int /\ right.value \in Int
    BY <2>3 DEF Results, Values
  <2>5. value \in Values
    BY <2>4, ApplyIn, WordIn
  <2>6. ASSUME Held(pending, map, machine), sound PROVE got = value
    <3>1. left = pending[Len(pending) - 1] /\ right = pending[Len(pending)]
      BY <1>0 DEF Top
    <3>2. machine[left.reg] = left.value /\ machine[right.reg] = right.value
      BY <1>0, <2>1, <2>6, <3>1, OperandsHeld
    <3>. QED
      BY <3>2
  <2>7. sound \in BOOLEAN
    OBVIOUS
  <2>. HIDE DEF value, got, left, right, dest, sound
  <2>8. /\ item \in Results /\ item.from # "name" /\ item.reg = dest
        /\ item.value = value /\ item.sound = sound
    BY <2>2, <2>5, <2>7 DEF Results, Result
  <2>. HIDE DEF item
  <2>9. ASSUME Held(pending, map, machine) PROVE item.sound => machine'[item.reg] = item.value
    BY <1>0, <2>1, <2>2, <2>6, <2>8, <2>9
  <2>10. \A r \in RegisterNumbers : r # FreeIntermediary(map) => machine'[r] = machine[r]
    BY <1>0, <2>1 DEF dest
  <2>11. Len(pending) - 2 <= Len(pending)
    BY <1>0, <2>1
  <2>12. Held(pending, map, machine) => Held(pending', map', machine')
    BY <1>0, <2>1, <2>3, <2>8, <2>9, <2>10, <2>11, HeldComputed
  <2>. QED
    BY <2>1, <2>12 DEF HoldInv
<1>4. ASSUME NEW op \in {"-", "~"}, EvalUnary(op) PROVE HoldInv'
  <2>. DEFINE src == Top(0)
              dest == FreeIntermediary(map)
              got == Word(Negated(op, machine[src.reg]))
              value == Word(Negated(op, src.value))
              item == Result(dest, "op", value, src.sound)
  <2>1. /\ Unmapped(map) # {} /\ Len(pending) >= 1
        /\ machine' = [machine EXCEPT ![dest] = got]
        /\ pending' = Append(Below(1), item)
        /\ UNCHANGED <<map, directives, overtaken>>
    BY <1>4 DEF EvalUnary, history, tables
  <2>2. dest \in RegisterNumbers /\ dest \notin Mapped(map)
    BY <2>1, FreeIntermediaryIn
  <2>3. /\ src \in Results
        /\ Below(1) \in Seq(Results) /\ Len(Below(1)) = Len(pending) - 1
        /\ \A i \in 1 .. Len(pending) - 1 : Below(1)[i] = pending[i]
    BY <1>0, <2>1, BelowIn
  <2>4. src.value \in Int /\ src.sound \in BOOLEAN
    BY <2>3 DEF Results, Values
  <2>5. value \in Values
    BY <2>4, NegatedIn, WordIn
  <2>6. ASSUME Held(pending, map, machine), src.sound PROVE got = value
    <3>1. src = pending[Len(pending)]
      BY <1>0 DEF Top
    <3>2. machine[src.reg] = src.value
      BY <1>0, <2>1, <2>6, <3>1, OperandsHeld
    <3>. QED
      BY <3>2
  <2>. HIDE DEF value, got, src, dest
  <2>8. /\ item \in Results /\ item.from # "name" /\ item.reg = dest
        /\ item.value = value /\ item.sound = src.sound
    BY <2>2, <2>4, <2>5 DEF Results, Result
  <2>. HIDE DEF item
  <2>9. ASSUME Held(pending, map, machine) PROVE item.sound => machine'[item.reg] = item.value
    BY <1>0, <2>1, <2>2, <2>6, <2>8, <2>9
  <2>10. \A r \in RegisterNumbers : r # FreeIntermediary(map) => machine'[r] = machine[r]
    BY <1>0, <2>1 DEF dest
  <2>11. Len(pending) - 1 <= Len(pending)
    BY <1>0, <2>1
  <2>12. Held(pending, map, machine) => Held(pending', map', machine')
    BY <1>0, <2>1, <2>3, <2>8, <2>9, <2>10, <2>11, HeldComputed
  <2>. QED
    BY <2>1, <2>12 DEF HoldInv
<1>5. pending' = <<>> /\ Numbered(directives') => HoldInv'
  BY DEF HoldInv, Held
<1>6. ASSUME NEW x \in Vars, NEW v \in Ints, AssignInt(x, v) PROVE HoldInv'
  BY <1>5, <1>6 DEF AssignInt, tables, HoldInv
<1>7. ASSUME NEW x \in Vars, AssignExpression(x) PROVE HoldInv'
  BY <1>5, <1>7 DEF AssignExpression, tables, HoldInv
<1>8. ASSUME NEW pin \in Pins, NEW on \in BOOLEAN, Gpio(pin, on) PROVE HoldInv'
  <2>. DEFINE selects == ~HasName(map, pin)
              selected == IF selects THEN fsel_value(Context, pin) ELSE Context
              c == IF on THEN set_value(selected, pin) ELSE clear_value(selected, pin)
              Devices == {"gpio_fsel", "gpio_set", "gpio_clear"} \X Nat
              Fine(d) == /\ d.directives \in Seq(DirectiveEntries) /\ d.directives # <<>>
                         /\ Numbered(d.directives)
  <2>1. directives' = c.directives /\ pending' = <<>>
    BY <1>8 DEF Gpio
  <2>2. pin \in 0..10
    BY CodegenAssumption
  <2>3. /\ <<"gpio_fsel", pin \div 10>> \in Devices
        /\ <<"gpio_set", pin \div 32>> \in Devices
        /\ <<"gpio_clear", pin \div 32>> \in Devices
    BY <2>2
  <2>4. Fine(Context)
    BY <1>0 DEF Context, HoldInv
  <2>5. ASSUME NEW k, Fine(k), NEW device \in Devices, NEW imm, NEW x,
               NEW d, d = StoreTo(k, device, imm, x)
        PROVE  Fine(d)
    <3>1. d.directives = PushDirective(k.directives, device, Address)
      BY <2>5 DEF StoreTo
    <3>2. device \in DirectiveNames /\ device[1] # "dir" /\ Address \in Nat
      BY CodegenAssumption DEF DirectiveNames
    <3>3. d.directives \in Seq(DirectiveEntries) /\ d.directives # <<>>
      BY <2>5, <3>1, <3>2, Pushed
    <3>4. Numbered(d.directives)
      BY <2>5, <3>1, <3>2, NumberedPush
    <3>. QED
      BY <3>3, <3>4
  <2>6. Fine(selected)
    <3>1. CASE selects
      <4>1. selected = StoreTo(Context, <<"gpio_fsel", pin \div 10>>, 2^(3 * pin), pin)
        BY <3>1 DEF fsel_value
      <4>. HIDE DEF selected, Fine, Devices
      <4>. QED
        BY <2>3, <2>4, <2>5, <4>1
    <3>2. CASE ~selects
      BY <2>4, <3>2
    <3>. QED
      BY <3>1, <3>2
  <2>7. Fine(c)
    <3>1. \E device \in Devices : c = StoreTo(selected, device, 2^pin, NoName)
      BY <2>3 DEF set_value, clear_value
    <3>. HIDE DEF selected, c, Fine, Devices
    <3>. QED
      BY <2>5, <2>6, <3>1
  <2>. HIDE DEF c
  <2>. QED
    BY <1>5, <2>1, <2>7
<1>9. ASSUME NEW time \in Times, Wait(time) PROVE HoldInv'
  <2>. DEFINE name == <<"wait_time", WaitNumber(line)>>
              delay == time * WAIT_SECOND
  <2>1. directives' = PushDirective(directives, name, delay) /\ pending' = <<>>
    BY <1>9 DEF Wait
  <2>2. delay \in Nat
    <3>1. {WAIT_SECOND} \subseteq Nat
      BY CodegenAssumption
    <3>2. WAIT_SECOND \in Nat /\ time \in Nat
      BY <3>1, CodegenAssumption
    <3>. QED
      BY <3>2
  <2>3. name \in DirectiveNames /\ name[1] # "dir"
    <3>1. line \in Nat
      BY DEF IInv
    <3>. QED
      BY <3>1 DEF DirectiveNames, WaitNumber
  <2>. HIDE DEF name, delay
  <2>4. Numbered(directives')
    BY <1>0, <2>1, <2>2, <2>3, NumberedPush DEF HoldInv
  <2>. QED
    BY <1>5, <2>1, <2>4
<1>10. CASE UNCHANGED vars
  BY <1>10 DEF vars, HoldInv, Numbered, Held
<1>. QED
  BY <1>1, <1>2, <1>3, <1>4, <1>6, <1>7, <1>8, <1>9, <1>10 DEF Next

\* Whatever the expression, a name and the last intermediate result hold what
\* they mean when they are used, unless a token cut an integer or an operation
\* joined two intermediate results (eval.c, eval_expression).
THEOREM OperandsHold == Spec => []SoundOperandsHold
<1>1. HoldInv => SoundOperandsHold
  <2>. SUFFICES ASSUME HoldInv, ~overtaken, NEW i \in DOMAIN pending, pending[i].sound,
                       pending[i].from = "name"
                         \/ \A j \in i + 1 .. Len(pending) : pending[j].from = "name"
                PROVE  machine[pending[i].reg] = pending[i].value
    BY DEF SoundOperandsHold
  <2>. QED
    BY DEF HoldInv, Held
<1>2. IInv /\ Types /\ HoldInv /\ [Next]_vars => HoldInv'
  BY HoldNext
<1>3. Spec => []Types
  BY Invariant, TypesInit, TypesNext, PTL DEF Spec
<1>. QED
  BY <1>1, <1>2, <1>3, Invariant, HoldInit, PTL DEF Spec
=============================================================================
