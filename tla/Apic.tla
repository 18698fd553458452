-------------------------------- MODULE Apic --------------------------------
(***************************************************************************)
(* Interrupt routing (acpi.hpp, apic.hpp): acpi::init finds and maps the   *)
(* root table; apic::init looks up the MADT in it, walks it and records    *)
(* what it finds; apic::configure then writes the redirection tables of    *)
(* the IOAPICs, one register at a time.  It masks the pins of each IOAPIC, *)
(* applies the firmware's overrides, and finally routes the legacy lines   *)
(* nobody claimed to the pin of the same number.                           *)
(* The redirection tables and ACPI's belong to the machine (external).  A  *)
(* table is where it lies (pages), its signature and its checksum; reading *)
(* a page that is not mapped is a page fault, and that a panic.            *)
(***************************************************************************)
EXTENDS Integers, Sequences

CONSTANTS
    Machines,     \* [fw, madt]: ACPI's tables but for the MADT's entries, and these
    Leftovers,    \* the sets of pins the firmware may leave unmasked
    NUM_GSI,      \* pins of the machine, numbered from 0
    LEGACY,       \* legacy lines (16 in the code)
    CAPACITY,     \* slots of each StaticArray (64 in the code)
    BSP, FAR,     \* LAPIC ids: the bootstrap processor's, and another one
    FOREIGN       \* a vector the firmware uses; not one of the kernel's

VARIABLES
    fw,             \* [rsdp, root, span, tables]: what the scan finds, the root table
                    \* with its pages, and the tables the root lists
    madt,           \* the entries of the MADT
    acpi,           \* [rsdp, rsdt]: the pointer is not null
    left,           \* the pins firmware left unmasked
    ent,            \* the position in the root table, then in the MADT
    found,          \* apic's StaticArrays: kind of entry -> entries, in slot order
    lapic_base,     \* the LAPIC address in use
    mapped,         \* the pages of tables and registers mapped by the vmm
    redirection,    \* pin -> its redirection entry
    legacy_mapped_irqs,
    at,             \* [io, i]: the IOAPIC; the next pin, override or line
    pc

walked == <<fw, madt, acpi, left, ent, found, lapic_base, mapped>>
located == <<fw, madt, acpi, left>>
vars == <<walked, redirection, legacy_mapped_irqs, at, pc>>

Pins == 0 .. NUM_GSI - 1
Lines == 0 .. LEGACY - 1
Recorded == {"LAPIC", "IOAPIC", "IOAPIC_ISR_OVERRIDE", "IOAPIC_NMI_SOURCE", "LAPIC_NMI"}
ioapics == found["IOAPIC"]
irq_overrides == found["IOAPIC_ISR_OVERRIDE"]

(* The pages acpi and apic identity-map: those of tables, each IOAPIC's,   *)
(* the LAPIC's.  The root table begins on page 0.                          *)
TablePages(ps) == {<<"table", p>> : p \in ps}
IoapicPage(io) == <<"ioapic", io.gsi_base>>
LapicPage(base) == <<"lapic", base>>
NoBase == -1

(* map_identity_page and map_identity_span. *)
map_identity(pages) == mapped' = mapped \cup pages

IsMadt(t) == t.sig = "APIC" /\ t.sum
Madt == fw.tables[CHOOSE n \in DOMAIN fw.tables :
                     IsMadt(fw.tables[n]) /\ \A k \in 1 .. n - 1 : ~IsMadt(fw.tables[k])]

-----------------------------------------------------------------------------
(* The state when Kernel::init calls acpi::init. *)
Init ==
    /\ \E m \in Machines : fw = m.fw /\ madt = m.madt
    /\ acpi = [rsdp |-> FALSE, rsdt |-> FALSE]
    /\ left \in Leftovers
    /\ ent = 1
    /\ found = [kind \in Recorded |-> <<>>]
    /\ lapic_base = NoBase
    /\ mapped = {}
    /\ redirection = [p \in Pins |-> [masked |-> p \notin left, vector |-> FOREIGN,
                                      low |-> FALSE, level |-> FALSE, dest |-> FAR]]
    /\ legacy_mapped_irqs = [i \in Lines |-> FALSE]
    /\ at = [io |-> 1, i |-> 0]
    /\ pc = "acpi"

(* acpi::init, up to the root table's first page: find_rsdp and the        *)
(* checksum of what it found; each early return leaves the pointers set    *)
(* so far.                                                                 *)
FindRoot ==
    /\ pc = "acpi"
    /\ acpi' = [rsdp |-> fw.rsdp # "none", rsdt |-> fw.rsdp = "good" /\ fw.root # "null"]
    /\ IF acpi'.rsdt
       THEN map_identity(TablePages({0})) /\ pc' = "root"
       ELSE pc' = "find" /\ UNCHANGED mapped
    /\ UNCHANGED <<fw, madt, left, ent, found, lapic_base, redirection, legacy_mapped_irqs, at>>

(* Its checksum, over the whole table, and then the rest of its pages.     *)
CheckRoot ==
    /\ pc = "root"
    /\ IF ~(TablePages(fw.span) \subseteq mapped) THEN pc' = "panicked" /\ UNCHANGED mapped
       ELSE /\ IF fw.root = "bad" THEN mapped' = mapped \ TablePages({0})
               ELSE map_identity(TablePages(fw.span))
            /\ pc' = "find"
    /\ UNCHANGED <<located, ent, found, lapic_base, redirection, legacy_mapped_irqs, at>>

(* find_sdth, one entry of the root table: its header is read, and if the  *)
(* signature is the one sought, the whole table for its checksum.          *)
Entry == fw.tables[ent]
Readable(t) == TablePages(IF t.sig = "APIC" THEN t.pages ELSE {t.first}) \subseteq mapped
RootReadable == TablePages({0}) \subseteq mapped
Listing == pc = "find" /\ acpi.rsdp /\ acpi.rsdt

LookAtTable ==
    /\ Listing /\ (RootReadable => ent <= Len(fw.tables))
    /\ IF ~(RootReadable /\ Readable(Entry))
       THEN pc' = "panicked" /\ UNCHANGED <<ent, lapic_base, mapped>>
       ELSE IF IsMadt(Entry)
       THEN /\ pc' = "walk" /\ ent' = 1 /\ lapic_base' = 0
            /\ map_identity(TablePages({Entry.first}))
       ELSE ent' = ent + 1 /\ UNCHANGED <<lapic_base, mapped, pc>>
    /\ UNCHANGED <<located, found, redirection, legacy_mapped_irqs, at>>

(* apic::init, one turn of the loop over the MADT: an entry of a recorded *)
(* kind goes into the first free slot of its array, and a full array      *)
(* panics; an address override is taken; anything else is only logged.    *)
RecordEntry ==
    /\ pc = "walk" /\ ent <= Len(madt) /\ madt[ent].type \in Recorded
    /\ LET kind == madt[ent].type
       IN  IF Len(found[kind]) < CAPACITY
           THEN /\ found' = [found EXCEPT ![kind] = Append(@, madt[ent])]
                /\ map_identity(IF kind = "IOAPIC" THEN {IoapicPage(madt[ent])} ELSE {})
                /\ ent' = ent + 1
                /\ UNCHANGED pc
           ELSE pc' = "panicked" /\ UNCHANGED <<found, ent, mapped>>
    /\ UNCHANGED <<located, lapic_base, redirection, legacy_mapped_irqs, at>>

OverrideAddress ==
    /\ pc = "walk" /\ ent <= Len(madt) /\ madt[ent].type = "LAPIC_ADDR_OVERRIDE"
    /\ lapic_base' = madt[ent].base
    /\ ent' = ent + 1
    /\ UNCHANGED <<located, found, mapped, redirection, legacy_mapped_irqs, at, pc>>

SkipEntry ==
    /\ pc = "walk" /\ ent <= Len(madt)
    /\ madt[ent].type \notin Recorded \cup {"LAPIC_ADDR_OVERRIDE"}
    /\ ent' = ent + 1
    /\ UNCHANGED <<located, found, lapic_base, mapped, redirection,
                   legacy_mapped_irqs, at, pc>>

(* get_gsi_max, plus gsi_base: the number of the IOAPIC's last pin *)
gsi_max(io) == io.gsi_base + io.last

(* The loop over the IOAPICs: begin the next one, or go on to the lines. *)
StartIoapic(n) ==
    IF n <= Len(ioapics)
    THEN at' = [io |-> n, i |-> ioapics[n].gsi_base] /\ pc' = "mask"
    ELSE at' = [io |-> n, i |-> 0] /\ pc' = "remap"

(* No MADT: apic::init returns, and configure finds no IOAPIC.  A root     *)
(* pointer that was never set is followed all the same: what lies at       *)
(* address 0 is taken for a table.                                         *)
NoMadt ==
    /\ \/ pc = "find" /\ ~acpi.rsdt
       \/ Listing /\ RootReadable /\ ent > Len(fw.tables)
    /\ StartIoapic(1)
    /\ UNCHANGED <<walked, redirection, legacy_mapped_irqs>>

NullRoot ==
    /\ pc = "find" /\ acpi.rsdp /\ ~acpi.rsdt
    /\ pc' = "panicked"
    /\ UNCHANGED <<walked, redirection, legacy_mapped_irqs, at>>

WalkDone_DefaultBase ==
    /\ pc = "walk" /\ ent > Len(madt)
    /\ mapped' = (mapped \ TablePages({Madt.first})) \cup {LapicPage(0)}
    /\ StartIoapic(1)
    /\ UNCHANGED <<located, ent, found, lapic_base, redirection, legacy_mapped_irqs>>

(* The walk is over: the MADT is unmapped, the LAPIC's registers mapped. *)
WalkDone ==
    /\ pc = "walk" /\ ent > Len(madt)
    /\ mapped' = (mapped \ TablePages({Madt.first})) \cup {LapicPage(lapic_base)}
    /\ StartIoapic(1)
    /\ UNCHANGED <<located, ent, found, lapic_base, redirection, legacy_mapped_irqs>>

-----------------------------------------------------------------------------
(* apic::configure *)

(* mask_gsi: reads the entry and writes it back with the mask bit set. The *)
(* upper half is written back unchanged.                                  *)
MaskGsi ==
    /\ pc = "mask" /\ at.i < gsi_max(ioapics[at.io])
    /\ redirection' = [redirection EXCEPT ![at.i].masked = TRUE]
    /\ at' = [at EXCEPT !.i = @ + 1]
    /\ UNCHANGED <<walked, legacy_mapped_irqs, pc>>

MaskDone ==
    /\ pc = "mask" /\ at.i >= gsi_max(ioapics[at.io])
    /\ at' = [at EXCEPT !.i = 1]
    /\ pc' = "override"
    /\ UNCHANGED <<walked, redirection, legacy_mapped_irqs>>

Bit(flags, b) == (flags \div b) % 2 = 1

(* redirect_gsi's first register write: vector, polarity, trigger, unmasked *)
WriteLow(gsi, irq, flags) ==
    redirection' = [redirection EXCEPT ![gsi] =
        [masked |-> FALSE, vector |-> irq + 32, low |-> Bit(flags, 2),
         level |-> Bit(flags, 8), dest |-> @.dest]]

WriteHigh_Lost(gsi) == UNCHANGED redirection

(* its second register write: the destination *)
WriteHigh(gsi) == redirection' = [redirection EXCEPT ![gsi].dest = BSP]

(* legacy_mapped_irqs[gsi] as configure reads it: the array has LEGACY *)
(* elements, and beyond them the read returns whatever the stack holds. *)
ReadMapped(gsi) == IF gsi \in Lines THEN {legacy_mapped_irqs[gsi]} ELSE BOOLEAN

Current == irq_overrides[at.i]
InRange(o, io) == o.gsi >= io.gsi_base /\ o.gsi < gsi_max(io)

ApplyOverride ==
    /\ pc = "override" /\ at.i <= Len(irq_overrides)
    /\ InRange(Current, ioapics[at.io])
    /\ FALSE \in ReadMapped(Current.gsi)
    /\ WriteLow(Current.gsi, Current.irq, Current.flags)
    /\ pc' = "override_high"
    /\ UNCHANGED <<walked, legacy_mapped_irqs, at>>

SkipOverride ==
    /\ pc = "override" /\ at.i <= Len(irq_overrides)
    /\ InRange(Current, ioapics[at.io]) => TRUE \in ReadMapped(Current.gsi)
    /\ at' = [at EXCEPT !.i = @ + 1]
    /\ UNCHANGED <<walked, redirection, legacy_mapped_irqs, pc>>

OverrideApplied_NotMarked ==
    /\ pc = "override_high"
    /\ WriteHigh(Current.gsi)
    /\ at' = [at EXCEPT !.i = @ + 1]
    /\ pc' = "override"
    /\ UNCHANGED <<walked, legacy_mapped_irqs>>

OverrideApplied ==
    /\ pc = "override_high"
    /\ WriteHigh(Current.gsi)
    /\ legacy_mapped_irqs' = IF Current.gsi \in Lines
                             THEN [legacy_mapped_irqs EXCEPT ![Current.gsi] = TRUE]
                             ELSE legacy_mapped_irqs
    /\ at' = [at EXCEPT !.i = @ + 1]
    /\ pc' = "override"
    /\ UNCHANGED walked

IoapicDone ==
    /\ pc = "override" /\ at.i > Len(irq_overrides)
    /\ StartIoapic(at.io + 1)
    /\ UNCHANGED <<walked, redirection, legacy_mapped_irqs>>

Covers_NotLast(io, gsi) == io.gsi_base <= gsi /\ gsi_max(io) > gsi

(* find_valid_ioapic: some IOAPIC has the pin, its last one included *)
Covers(io, gsi) == io.gsi_base <= gsi /\ gsi_max(io) >= gsi
find_valid_ioapic(gsi) == \E n \in DOMAIN ioapics : Covers(ioapics[n], gsi)

RemapLine ==
    /\ pc = "remap" /\ at.i < LEGACY
    /\ ~legacy_mapped_irqs[at.i] /\ find_valid_ioapic(at.i)
    /\ WriteLow(at.i, at.i, 0)
    /\ pc' = "remap_high"
    /\ UNCHANGED <<walked, legacy_mapped_irqs, at>>

LineRemapped ==
    /\ pc = "remap_high"
    /\ WriteHigh(at.i)
    /\ at' = [at EXCEPT !.i = @ + 1]
    /\ pc' = "remap"
    /\ UNCHANGED <<walked, legacy_mapped_irqs>>

(* claimed by an override, or no IOAPIC: redirect_gsi(nullptr) does nothing *)
SkipLine ==
    /\ pc = "remap" /\ at.i < LEGACY
    /\ legacy_mapped_irqs[at.i] \/ ~find_valid_ioapic(at.i)
    /\ at' = [at EXCEPT !.i = @ + 1]
    /\ UNCHANGED <<walked, redirection, legacy_mapped_irqs, pc>>

ConfigureDone ==
    /\ pc = "remap" /\ at.i >= LEGACY
    /\ pc' = "done"
    /\ UNCHANGED <<walked, redirection, legacy_mapped_irqs, at>>

Next ==
    \/ FindRoot \/ CheckRoot \/ LookAtTable \/ NoMadt \/ NullRoot
    \/ RecordEntry \/ OverrideAddress \/ SkipEntry \/ WalkDone
    \/ MaskGsi \/ MaskDone
    \/ ApplyOverride \/ SkipOverride \/ OverrideApplied \/ IoapicDone
    \/ RemapLine \/ LineRemapped \/ SkipLine \/ ConfigureDone

Spec == Init /\ [][Next]_vars

-----------------------------------------------------------------------------
(* Properties *)

KernelVectors == {i + 32 : i \in Lines}
Live(p, vector) == ~redirection[p].masked /\ redirection[p].vector = vector

(* Types: what the walk recorded fits its arrays, and at all times the     *)
(* tables hold redirection entries of the firmware's or the kernel's.      *)
TypeOK ==
    /\ ent \in 1 .. Len(madt) + 1
    /\ \A kind \in Recorded : Len(found[kind]) <= CAPACITY
    /\ redirection \in [Pins -> [masked : BOOLEAN, vector : KernelVectors \cup {FOREIGN},
                                 low : BOOLEAN, level : BOOLEAN, dest : {BSP, FAR}]]
    /\ legacy_mapped_irqs \in [Lines -> BOOLEAN]

(* The overrides of a pin that configure can see: those recorded, in range. *)
Claims(p) == {n \in DOMAIN irq_overrides :
                irq_overrides[n].gsi = p /\
                \E k \in DOMAIN ioapics : InRange(irq_overrides[n], ioapics[k])}

(* When configure returns, every overridden pin among the legacy ones is  *)
(* routed to the BSP as the first override for it says, polarity and      *)
(* trigger included: neither a second override, nor another IOAPIC's      *)
(* masking, nor the loop over the legacy lines undoes it                  *)
(* (apic.hpp:395-416).                                                    *)
OverridesHold ==
    pc = "done" => \A p \in Lines \cap Pins : Claims(p) # {} =>
        LET o == irq_overrides[CHOOSE n \in Claims(p) : \A m \in Claims(p) : n <= m]
        IN  redirection[p] = [masked |-> FALSE, vector |-> o.irq + 32,
                              low |-> Bit(o.flags, 2), level |-> Bit(o.flags, 8),
                              dest |-> BSP]

(* When configure returns, every legacy pin that no override claims and   *)
(* an IOAPIC has, the last pin included, raises its own vector on the BSP,*)
(* edge triggered, active high (apic.hpp:409-416); and below an IOAPIC's   *)
(* last pin nothing raises the firmware's vector any more                 *)
(* (apic.hpp:391-392).                                                    *)
UnclaimedLinesAreRouted ==
    pc = "done" =>
      /\ \A n \in DOMAIN ioapics :
           \A p \in ioapics[n].gsi_base .. gsi_max(ioapics[n]) - 1 : ~Live(p, FOREIGN)
      /\ \A p \in Lines \cap Pins :
        (Claims(p) = {} /\ \E n \in DOMAIN ioapics :
                              p \in ioapics[n].gsi_base .. gsi_max(ioapics[n])) =>
            redirection[p] = [masked |-> FALSE, vector |-> p + 32, low |-> FALSE,
                              level |-> FALSE, dest |-> BSP]

(* A pin that raises a kernel vector does so on the BSP, except while its *)
(* own second register is yet to be written (apic.hpp:448-449): no other  *)
(* step of configure leaves the firmware's destination in a live entry.   *)
KernelVectorsReachTheBsp ==
    TypeOK /\ \A p \in Pins : \A v \in KernelVectors :
        (Live(p, v) /\ redirection[p].dest # BSP) =>
            \/ pc = "override_high" /\ p = Current.gsi
            \/ pc = "remap_high" /\ p = at.i

(* ACPI as the code expects it: none, or a sound root table of one page    *)
(* with every table it lists on that page too.                             *)
Tidy == fw.rsdp = "none" \/ (/\ fw.rsdp = "good" /\ fw.root = "good" /\ fw.span = {0}
                              /\ \A n \in DOMAIN fw.tables : fw.tables[n].pages = {0})

(* The walk reads the MADT, and configure the LAPIC and the IOAPICs, only  *)
(* while their pages are mapped; an address override that comes after the  *)
(* IOAPICs in the table is respected (apic.hpp:309, 334, 377-380).  If     *)
(* ACPI is tidy nothing before that faults, and a sound MADT is found.     *)
TouchesOnlyMapped ==
    /\ pc = "walk" => TablePages(Madt.pages) \subseteq mapped
    /\ (lapic_base # NoBase /\ pc \notin {"walk", "panicked"}) =>
         /\ LapicPage(lapic_base) \in mapped
         /\ \A n \in DOMAIN ioapics : IoapicPage(ioapics[n]) \in mapped
         /\ TablePages({Madt.first}) \cap mapped = {}
    /\ Tidy => /\ pc = "panicked" => \E kind \in Recorded : Len(found[kind]) = CAPACITY
               /\ pc = "done" /\ fw.rsdp = "good" =>
                    (lapic_base # NoBase <=> \E n \in DOMAIN fw.tables : IsMadt(fw.tables[n]))
=============================================================================
