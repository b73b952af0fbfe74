----------------------------- MODULE Registers ------------------------------
(***************************************************************************)
(* The register allocator of the compiler (extension/utils_ir.c) as        *)
(* operators on its two pieces of state: the map of a State from names to  *)
(* registers, and the global registers[], which holds for each register    *)
(* the value the compiler last put there, or NOT_USED.                     *)
(*                                                                         *)
(* Two functions hand out registers.  get_free_intermediary_register looks *)
(* at the map only, get_free_register at registers[] only.                 *)
(* An entry's value is written and never read, and is left out.            *)
(***************************************************************************)
EXTENDS Integers, Sequences, SequencesExt

CONSTANT NUM_REGISTERS

ASSUME RegistersAssumption == NUM_REGISTERS \in Nat \ {0}

NOT_USED == -1
RegisterNumbers == 0 .. NUM_REGISTERS - 1

\* The least of a set of registers, as the loops from 0 find it.
Lowest(S) == CHOOSE r \in S : \A s \in S : r <= s

\* The registers of a map.
Mapped(map) == {map[i].reg : i \in DOMAIN map}

HasName(map, name) == \E i \in DOMAIN map : map[i].name = name

\* The register of the first entry with a name.
RegOf(map, name) ==
  LET first == CHOOSE i \in DOMAIN map :
                 /\ map[i].name = name
                 /\ \A j \in 1..i-1 : map[j].name # name
  IN  map[first].reg
-----------------------------------------------------------------------------
\* get_free_intermediary_register: none of the map's, whatever registers[] says.
Unmapped(map) == RegisterNumbers \ Mapped(map)
FreeIntermediary(map) == Lowest(Unmapped(map))

\* get_register exits when there is no entry and no register for one.
CanGet(map, name) == HasName(map, name) \/ Unmapped(map) # {}

\* get_register, when it finds the name and when it makes an entry for it.
GetRegister(map, name) ==
  IF HasName(map, name) THEN RegOf(map, name) ELSE FreeIntermediary(map)

MapAfterGet(map, name) ==
  IF HasName(map, name) THEN map
  ELSE Append(map, [name |-> name, reg |-> GetRegister(map, name)])

RegistersAfterGet(map, registers, name) ==
  IF HasName(map, name) THEN registers
  ELSE [registers EXCEPT ![GetRegister(map, name)] = 0]

\* get_free_register: one marked NOT_USED, whatever the map says.
Unused(registers) == {r \in RegisterNumbers : registers[r] = NOT_USED}
FreeRegister(registers) == Lowest(Unused(registers))

\* Mutant: the register stays in use.
FreedNot(registers, reg) == registers

\* The end of free_register.
Freed(registers, reg) == [registers EXCEPT ![reg] = NOT_USED]

\* Mutant: also a variable's register is given back.
FreedIntermediaryAny(map, registers, reg) == Freed(registers, reg)

\* free_intermediary_register
FreedIntermediary(map, registers, reg) ==
  IF reg \in Mapped(map) THEN registers ELSE Freed(registers, reg)

\* free_register: if the register is in the map it is the first entry that
\* goes, since the entries are moved from the outer loop's index.
MapAfterFree(map, reg) == IF reg \in Mapped(map) THEN Tail(map) ELSE map
=============================================================================
