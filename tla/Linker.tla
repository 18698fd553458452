------------------------------- MODULE Linker -------------------------------
(***************************************************************************)
(* Linker and ModuleManager: a boot module (an ELF relocatable object) is  *)
(* laid out in two regions, mapped, copied, relocated and entered; every   *)
(* failure on the way is undone; at shutdown modules are left and their    *)
(* memory is given back.  All of it runs on one processor under locks, so  *)
(* the steps below follow one another: what the model is after is the      *)
(* failure of one stage after the success of others.                       *)
(*                                                                         *)
(* The module space is a BitmapAllocator whose addresses start at          *)
(* MODULE_SPACE_BASE; UNIT_SIZE is PAGE_SIZE.  Mapped pages, free frames   *)
(* and heap blocks are counted, their own modules have the detail.         *)
(***************************************************************************)
EXTENDS BitmapAllocator, SequencesExt

CONSTANTS Objects,            \* the ELF objects the boot loader may have loaded
          MODULE_SPACE_BASE,
          NumFrames,
          MAX_LAYOUTS,        \* capacity of Linker::layouts
          MAX_MODULES         \* capacity of ModuleManager::modules

ASSUME LinkerAssumption == /\ MODULE_SPACE_BASE \in Nat \ {0}
                           /\ NumFrames \in Nat
                           /\ MAX_LAYOUTS \in Nat \ {0} /\ MAX_MODULES \in Nat \ {0}

VARIABLES layouts,      \* the slots of Linker::layouts
          modules,      \* the slots of ModuleManager::modules
          call,         \* registerModule or a destructor: where it is, and its locals
          mapped,       \* pages of the module space with a page-table entry
          frames,       \* free physical frames
          heap,         \* live heap blocks of the linker
          running       \* layouts whose module was entered and not left (history)

vars == <<bitmap, allocated_units_, panicked, layouts, modules, call, mapped, frames, heap, running>>

WordSize == 4
SHN_UNDEF == 0
SHN_ABS == 65521
SHN_COMMON == 65522

NoRegion == [base |-> 0, size |-> 0, at |-> <<>>]
NoLayout == [obj |-> 0, rx |-> NoRegion, rw |-> NoRegion, map |-> FALSE, words |-> <<>>]
NoModule == [layout |-> 0, exit |-> FALSE]
Idle == [pc |-> "idle", obj |-> 0, slot |-> 0, rel |-> 1, entry |-> 1, then |-> "idle"]

LayoutSlots == 1 .. MAX_LAYOUTS
ModuleSlots == 1 .. MAX_MODULES
Live == {s \in LayoutSlots : layouts[s].obj # 0}

Init == /\ bitmap = {} /\ allocated_units_ = 0 /\ panicked = "no"
        /\ layouts = [s \in LayoutSlots |-> NoLayout]
        /\ modules = [s \in ModuleSlots |-> NoModule]
        /\ call = Idle
        /\ mapped = {}
        /\ frames = NumFrames
        /\ heap = 0
        /\ running = {}
-----------------------------------------------------------------------------
(* stage0: every allocated section gets an offset in one of two regions. *)

\* Mutant: the offset is not aligned.
align_up_Not(x, a) == x

align_up(x, a) == ((x + a - 1) \div a) * a

\* Region::append.  `at` maps the section's index to its offset.
Appended(reg, k, sec) == LET off == align_up(reg.size, sec.align)
                         IN  [reg EXCEPT !.size = off + sec.size, !.at = (k :> off) @@ @]

Loadable(sec) == sec.alloc /\ sec.size > 0

RegionOf(sec) == IF sec.exec THEN "rx" ELSE "rw"

PageRounded(reg) == [reg EXCEPT !.size = align_up(@, UNIT_SIZE)]

\* One region of an object's layout: its sections in the object's order.
Placed(o, name) ==
    LET secs == Objects[o].sections
        Chosen == SelectSeq([k \in 1 .. Len(secs) |-> k],
                            LAMBDA k : Loadable(secs[k]) /\ RegionOf(secs[k]) = name)
    IN  PageRounded(FoldLeft(LAMBDA reg, k : Appended(reg, k, secs[k]), NoRegion, Chosen))

\* The heap blocks a layout owns: the Object, the map, one per section.
Blocks(l) == IF l.obj = 0 THEN 0
             ELSE 1 + (IF l.map THEN 1 ELSE 0)
                    + Cardinality(DOMAIN l.rx.at) + Cardinality(DOMAIN l.rw.at)
-----------------------------------------------------------------------------
(* registerModule and Linker::load. *)

bits == <<bitmap, allocated_units_>>
Alive(pc) == panicked = "no" /\ call.pc = pc
Goto(pc) == call' = [call EXCEPT !.pc = pc]
Panic(why) == /\ panicked' = why
              /\ UNCHANGED <<bits, layouts, modules, call, mapped, frames, heap, running>>

First(S) == CHOOSE x \in S : \A y \in S : x <= y

\* StaticArray: emplace takes the first free slot, erase destroys what is there.
FreeSlots(slots, none) == {s \in DOMAIN slots : slots[s] = none}
emplace(slots, none, x) == [slots EXCEPT ![First(FreeSlots(slots, none))] = x]
erase_at(slots, none, s) == [slots EXCEPT ![s] = none]

\* Object::create: what is no ELF object for the i386 is refused.
create(o) == Objects[o].elf

registerModule(o) ==
    /\ Alive("idle") /\ create(o)
    /\ call' = [Idle EXCEPT !.pc = "load", !.obj = o]
    /\ heap' = heap + 1
    /\ UNCHANGED <<bits, panicked, layouts, modules, mapped, frames, running>>

\* Linker::load: a slot for the layout, which owns the Object from here on.
load == LET free == FreeSlots(layouts, NoLayout)
        IN  /\ Alive("load")
            /\ IF free = {} THEN Panic("StaticArray full")
               ELSE /\ layouts' = emplace(layouts, NoLayout, [NoLayout EXCEPT !.obj = call.obj])
                    /\ call' = [call EXCEPT !.pc = "stage0", !.slot = First(free)]
                    /\ UNCHANGED <<bits, panicked, modules, mapped, frames, heap, running>>

Fail == call' = [call EXCEPT !.pc = "unload_rw", !.then = "idle"]

stage0 ==
    LET o == call.obj
        l == [layouts[call.slot] EXCEPT !.rx = Placed(o, "rx"), !.rw = Placed(o, "rw"), !.map = TRUE]
    IN  /\ Alive("stage0")
        /\ IF Objects[o].sections = <<>>
           THEN Fail /\ UNCHANGED <<layouts, heap>>
           ELSE /\ layouts' = [layouts EXCEPT ![call.slot] = l]
                /\ heap' = heap + Blocks(l) - 1
                /\ Goto("rx")
        /\ UNCHANGED <<bits, panicked, modules, mapped, frames, running>>

validate_region_section_bounds(reg, o) ==
    \A k \in DOMAIN reg.at : reg.at[k] + Objects[o].sections[k].size <= reg.size

\* Where alloc_units finds room; it takes the first.
FreeRuns(pages) == {u \in AllUnits : u + pages <= MAX_UNITS /\ Fits(u, pages)}

\* stage1 for the region `name`: space, frames, mapping, bounds and copy.
\* Both allocators panic when they find no run (bitmap.hpp:64).
stage1(name, next) ==
    LET reg == layouts[call.slot][name]
        pages == reg.size \div UNIT_SIZE
        fits == FreeRuns(pages)
    IN  /\ Alive(name)
        /\ IF reg.size = 0
           THEN Goto(next) /\ UNCHANGED <<bits, panicked, layouts, modules, mapped, frames, heap, running>>
           ELSE IF fits = {} \/ frames < pages
           THEN Panic("out of units")
           ELSE /\ SetRun(First(fits), pages)
                /\ frames' = frames - pages
                /\ mapped' = mapped \cup Run(First(fits), pages)
                /\ layouts' = [layouts EXCEPT ![call.slot][name].base =
                                  MODULE_SPACE_BASE + First(fits) * UNIT_SIZE]
                /\ IF validate_region_section_bounds(reg, call.obj) THEN Goto(next) ELSE Fail
                /\ UNCHANGED <<panicked, modules, heap, running>>
-----------------------------------------------------------------------------
(* stage2: one relocation entry at a time. *)

Layout == layouts[call.slot]
IsMapped(l, k) == k \in DOMAIN l.rx.at \cup DOMAIN l.rw.at
RegionFor(l, k) == IF k \in DOMAIN l.rx.at THEN l.rx ELSE l.rw

\* Where section k of a layout begins.
AddressOf(l, k) == RegionFor(l, k).base + RegionFor(l, k).at[k]

Rels == Objects[call.obj].rels
InRange(k) == k \in 1 .. Len(Objects[call.obj].sections)

Entry == Rels[call.rel].entries[call.entry]
Target == Rels[call.rel].target

NextEntry == call' = [call EXCEPT !.entry = @ + 1]
NextRel == call' = [call EXCEPT !.rel = @ + 1, !.entry = 1]

\* A relocation section for a section that was not laid out is skipped.
SkipRel == /\ Alive("stage2") /\ call.rel <= Len(Rels)
           /\ InRange(Target)
           /\ ~IsMapped(Layout, Target) \/ call.entry > Len(Rels[call.rel].entries)
           /\ NextRel
           /\ UNCHANGED <<bits, panicked, layouts, modules, mapped, frames, heap, running>>

\* A symbol the kernel does not export, or a common symbol: the word is left.
Unresolved(sym) == \/ sym.shndx = SHN_UNDEF /\ ~sym.exported
                   \/ sym.shndx = SHN_COMMON

OfSection(sym) == sym.shndx \notin {SHN_UNDEF, SHN_ABS, SHN_COMMON}

ValueOf(l, sym) == IF OfSection(sym) THEN AddressOf(l, sym.shndx) + sym.value ELSE sym.value

\* A symbol table that is there has at least its null symbol.
symbol_by_index == DOMAIN Objects[call.obj].symtab # {}

BadEntry == \/ ~symbol_by_index
            \/ Entry.offset + WordSize > Objects[call.obj].sections[Target].size
            \/ OfSection(Entry.sym) /\ ~IsMapped(Layout, Entry.sym.shndx)
            \/ ~Unresolved(Entry.sym) /\ Entry.type \notin {"R_386_32", "R_386_PC32"}

P == AddressOf(Layout, Target) + Entry.offset
S == ValueOf(Layout, Entry.sym)

\* Mutant: a PC-relative reference is written as an absolute one.
Written_Absolute == S + Entry.addend

Written == IF Entry.type = "R_386_32" THEN S + Entry.addend ELSE S + Entry.addend - P

Relocate ==
    /\ Alive("stage2") /\ call.rel <= Len(Rels)
    /\ InRange(Target) => IsMapped(Layout, Target) /\ call.entry <= Len(Rels[call.rel].entries)
    /\ IF ~InRange(Target) \/ BadEntry
       THEN Fail /\ UNCHANGED layouts
       ELSE /\ NextEntry
            /\ layouts' = IF Unresolved(Entry.sym) THEN layouts
                          ELSE [layouts EXCEPT ![call.slot].words = (P :> Written) @@ @]
    /\ UNCHANGED <<bits, panicked, modules, mapped, frames, heap, running>>

Linked == /\ Alive("stage2") /\ call.rel > Len(Rels)
          /\ Goto("enter")
          /\ UNCHANGED <<bits, panicked, layouts, modules, mapped, frames, heap, running>>
-----------------------------------------------------------------------------
(* The end of registerModule. *)

\* Object::find_symbol: the section of a symbol, from the dynamic symbols first.
\* A table maps names to sections.
Listed(name, table) == name \in DOMAIN table

find_symbol(obj, name) == IF Listed(name, obj.dynsym) THEN obj.dynsym[name]
                          ELSE IF Listed(name, obj.symtab) THEN obj.symtab[name]
                          ELSE SHN_UNDEF

\* Layout::find_symbol: the section must be one that was laid out.
Found(name) == LET k == find_symbol(Objects[call.obj], name)
               IN  k # SHN_UNDEF /\ IsMapped(Layout, k)

\* Mutant: a module without an entry point is only reported.
enter_KeepLayout == LET new == [layout |-> call.slot, exit |-> Found("exit")]
         IN /\ Alive("enter")
            /\ IF ~Found("enter")
               THEN call' = Idle /\ UNCHANGED <<panicked, modules, running>>
               ELSE IF FreeSlots(modules, NoModule) = {} THEN panicked' = "StaticArray full" /\ UNCHANGED <<modules, call, running>>
               ELSE /\ modules' = emplace(modules, NoModule, new)
                    /\ running' = running \cup {call.slot}
                    /\ call' = Idle /\ UNCHANGED panicked
            /\ UNCHANGED <<bits, layouts, mapped, frames, heap>>

\* Without an entry point the layout is unloaded; otherwise the module is
\* entered, and then given a slot.
enter == LET new == [layout |-> call.slot, exit |-> Found("exit")]
         IN /\ Alive("enter")
            /\ IF ~Found("enter")
               THEN Fail /\ UNCHANGED <<panicked, modules, running>>
               ELSE IF FreeSlots(modules, NoModule) = {} THEN panicked' = "StaticArray full" /\ UNCHANGED <<modules, call, running>>
               ELSE /\ modules' = emplace(modules, NoModule, new)
                    /\ running' = running \cup {call.slot}
                    /\ call' = Idle /\ UNCHANGED panicked
            /\ UNCHANGED <<bits, layouts, mapped, frames, heap>>
-----------------------------------------------------------------------------
(* unload_locked: the regions rw and rx, then the slot with what the       *)
(* layout owns.  unmap_pages gives the frames of mapped pages back.        *)

HasBacking(reg) == reg.base # 0 /\ reg.size # 0

PagesOf(reg) == IF HasBacking(reg)
                THEN Run((reg.base - MODULE_SPACE_BASE) \div UNIT_SIZE, reg.size \div UNIT_SIZE)
                ELSE {}

\* Mutant: the address space is given back, the mapping is not.
unload_region_locked_NoUnmap(name, pc, next) ==
    LET reg == layouts[call.slot][name]
    IN  /\ Alive(pc)
        /\ IF ~HasBacking(reg) THEN UNCHANGED <<bits, panicked, mapped, frames, layouts>>
           ELSE /\ UNCHANGED <<mapped, frames>>
                /\ free_units(reg.base - MODULE_SPACE_BASE, reg.size \div UNIT_SIZE)
                /\ layouts' = [layouts EXCEPT ![call.slot][name].base = 0]
        /\ Goto(next)
        /\ UNCHANGED <<modules, heap, running>>

unload_region_locked(name, pc, next) ==
    LET reg == layouts[call.slot][name]
    IN  /\ Alive(pc)
        /\ IF ~HasBacking(reg) THEN UNCHANGED <<bits, panicked, mapped, frames, layouts>>
           ELSE /\ mapped' = mapped \ PagesOf(reg)
                /\ frames' = frames + Cardinality(PagesOf(reg) \cap mapped)
                /\ free_units(reg.base - MODULE_SPACE_BASE, reg.size \div UNIT_SIZE)
                /\ layouts' = [layouts EXCEPT ![call.slot][name].base = 0]
        /\ Goto(next)
        /\ UNCHANGED <<modules, heap, running>>

erase == /\ Alive("erase")
         /\ heap' = heap - Blocks(Layout)
         /\ layouts' = erase_at(layouts, NoLayout, call.slot)
         /\ call' = [Idle EXCEPT !.pc = call.then]
         /\ UNCHANGED <<bits, panicked, modules, mapped, frames, running>>
-----------------------------------------------------------------------------
(* Shutdown: ~ModuleManager, then ~Linker. *)

Shutdown == /\ Alive("idle")
            /\ call' = [Idle EXCEPT !.pc = "leave"]
            /\ UNCHANGED <<bits, panicked, layouts, modules, mapped, frames, heap, running>>

Registered == {m \in ModuleSlots : modules[m].layout # 0}

\* Mutant: the module is unloaded and never left.
Leave_NoExit ==
    LET m == First(Registered)
    IN  /\ Alive("leave") /\ Registered # {}
        /\ call' = [Idle EXCEPT !.pc = "unload_rw", !.slot = modules[m].layout, !.then = "leave"]
        /\ modules' = erase_at(modules, NoModule, m)
        /\ UNCHANGED <<bits, panicked, layouts, mapped, frames, heap, running>>

\* module_exit if the object has one, then unload.
Leave ==
    LET m == First(Registered)
    IN  /\ Alive("leave") /\ Registered # {}
        /\ running' = IF modules[m].exit THEN running \ {modules[m].layout} ELSE running
        /\ call' = [Idle EXCEPT !.pc = "unload_rw", !.slot = modules[m].layout, !.then = "leave"]
        /\ modules' = erase_at(modules, NoModule, m)
        /\ UNCHANGED <<bits, panicked, layouts, mapped, frames, heap>>

AllLeft == /\ Alive("leave") /\ Registered = {}
           /\ Goto("done")
           /\ UNCHANGED <<bits, panicked, layouts, modules, mapped, frames, heap, running>>

\* ~Linker: the layouts that are still there.
DestroyLinker ==
    /\ Alive("done")
    /\ IF Live = {} THEN call' = [Idle EXCEPT !.pc = "off"]
       ELSE call' = [Idle EXCEPT !.pc = "unload_rw", !.slot = First(Live), !.then = "done"]
    /\ UNCHANGED <<bits, panicked, layouts, modules, mapped, frames, heap, running>>

Next == \/ \E o \in DOMAIN Objects : registerModule(o)
        \/ load \/ stage0 \/ stage1("rx", "rw") \/ stage1("rw", "stage2")
        \/ SkipRel \/ Relocate \/ Linked \/ enter
        \/ unload_region_locked("rw", "unload_rw", "unload_rx")
        \/ unload_region_locked("rx", "unload_rx", "erase")
        \/ erase
        \/ Shutdown \/ Leave \/ AllLeft \/ DestroyLinker

Spec == Init /\ [][Next]_vars

\* The destructors run to their end: nothing else runs meanwhile.
FairSpec == Spec /\ WF_vars(Next /\ call.pc # "idle")
-----------------------------------------------------------------------------
(* Properties. *)

SumOver(f(_)) == FoldFunction(LAMBDA a, b : a + b, 0, [s \in LayoutSlots |-> f(layouts[s])])

TypeOK == /\ bitmap \subseteq AllUnits
          /\ mapped \subseteq AllUnits
          /\ frames \in 0 .. NumFrames
          /\ heap \in Nat
          /\ \A s \in LayoutSlots : layouts[s].obj \in {0} \cup DOMAIN Objects
          /\ \A m \in ModuleSlots : modules[m].layout \in {0} \cup LayoutSlots
          /\ call.slot \in {0} \cup LayoutSlots
          /\ running \subseteq LayoutSlots

\* At every step the module space, the page tables, the frames and the heap
\* hold exactly what the layouts (and the Object of a load that has not got
\* its slot yet) account for: no stage that fails leaves anything behind, and
\* nothing is given back twice (ld.cpp:94, 251, 263).  Between calls the
\* layouts are those of registered modules (module.hpp:66).  The only panics on
\* the way are those of exhausted slots, address space or frames.
Balanced ==
    LET used == UNION {PagesOf(layouts[s].rx) \cup PagesOf(layouts[s].rw) : s \in LayoutSlots}
    IN  /\ TypeOK
        /\ panicked \in {"no", "StaticArray full", "out of units"}
        /\ panicked = "no" =>
             /\ bitmap = used /\ mapped = used
             /\ frames = NumFrames - Cardinality(used)
             /\ allocated_units_ = Cardinality(used)
             /\ heap = SumOver(Blocks) + (IF call.pc = "load" THEN 1 ELSE 0)
             /\ call.pc = "idle" => Live = {modules[m].layout : m \in Registered}

\* The sections of layout s that are in mapped regions.
Sections(s) == {[at |-> AddressOf(layouts[s], k), size |-> Objects[layouts[s].obj].sections[k].size,
                 align |-> Objects[layouts[s].obj].sections[k].align, id |-> <<s, k>>,
                 last |-> RegionFor(layouts[s], k).base + RegionFor(layouts[s], k).size] :
                   k \in {j \in DOMAIN layouts[s].rx.at \cup DOMAIN layouts[s].rw.at :
                             RegionFor(layouts[s], j).base # 0}}

\* No two sections of any layouts share a byte, each begins at its alignment
\* and ends within its region (ld.hpp:74, ld.cpp:191).
SectionsAreApart ==
    LET all == UNION {Sections(s) : s \in Live}
    IN  /\ \A a \in all : a.at % a.align = 0 /\ a.at + a.size <= a.last
        /\ \A a, b \in all : a.id # b.id => a.at + a.size <= b.at \/ b.at + b.size <= a.at

\* The references of a layout that the linker can resolve, and their places.
References(l) ==
    UNION {{[place |-> AddressOf(l, r.target) + e.offset, entry |-> e] :
               e \in {x \in Range(r.entries) : ~Unresolved(x.sym)}} :
           r \in {q \in Range(Objects[l.obj].rels) : IsMapped(l, q.target)}}

\* In a registered module every reference the linker could resolve leads, by
\* the arithmetic of its relocation type, to the symbol's place in the mapped
\* image, and no other word was written (ld.cpp:336-404).
ReferencesLeadHome ==
    \A m \in Registered :
        LET l == layouts[modules[m].layout]
            goal(e) == ValueOf(l, e.sym) + e.addend
        IN  /\ DOMAIN l.words = {r.place : r \in References(l)}
            /\ \A r \in References(l) :
                  l.words[r.place] = goal(r.entry) - (IF r.entry.type = "R_386_PC32" THEN r.place ELSE 0)

\* While a module is entered and not left, its image stays mapped; a module
\* with an exit point is left before its image goes (module.hpp:35-39).
EnteredMeansMapped == panicked = "no" =>
    \A s \in running : s \in Live /\ find_symbol(Objects[layouts[s].obj], "exit") # SHN_UNDEF =>
        /\ PagesOf(layouts[s].rx) \cup PagesOf(layouts[s].rw) \subseteq mapped
        /\ \A k \in DOMAIN layouts[s].rx.at : layouts[s].rx.base # 0

\* The destructors end, with everything given back (ld.cpp:102 loops until
\* no layout is left).
ShutdownEnds == call.pc = "leave" ~> (call.pc = "off" /\ heap = 0 /\ frames = NumFrames)
=============================================================================
