------------------------------- MODULE MCApic -------------------------------
(* MADTs for Apic: two IOAPICs in either order, one alone, none; overrides *)
(* of legacy pins, of a last pin, beyond the legacy pins, and contested;   *)
(* and ACPI without a root, with bad checksums, and with tables elsewhere. *)
EXTENDS Apic, SequencesExt

Io(base, last) == [type |-> "IOAPIC", gsi_base |-> base, last |-> last]
Iso(irq, gsi, flags) == [type |-> "IOAPIC_ISR_OVERRIDE", irq |-> irq, gsi |-> gsi, flags |-> flags]
Lapic == [type |-> "LAPIC"]
Moved == [type |-> "LAPIC_ADDR_OVERRIDE", base |-> 1]
Unknown == [type |-> "unknown"]

IoSets == {<<Io(0, 4), Io(5, 2)>>, <<Io(5, 2), Io(0, 4)>>, <<Io(0, 2), Io(3, 4)>>,
           <<Io(0, 7)>>, <<Io(0, 1)>>, <<>>}
Isos == {Iso(0, 2, 0), Iso(3, 3, 10), Iso(1, 2, 15), Iso(2, 6, 13), Iso(1, 4, 2)}
IsoSets == {s \in SeqOf(Isos, 3) : Len(s) # 1 => \A i \in 1 .. Len(s) - 1 : s[i] # s[i + 1]}

TestMadts == {<<Lapic, Unknown>> \o io \o iso \o <<Moved>> : io \in IoSets, iso \in IsoSets}
               \cup {iso \o <<Lapic>> \o io : io \in IoSets, iso \in IsoSets}
               \cup {<<Io(0, 7), Iso(0, 2, 0), Iso(1, 2, 15), Iso(0, 2, 0), Iso(3, 3, 10)>>}

Table(sig, sum, first, pages) == [sig |-> sig, sum |-> sum, first |-> first, pages |-> pages]
Here == Table("APIC", TRUE, 0, {0})
Other == Table("FACP", TRUE, 0, {0})
Fw(rsdp, root, span, tables) == [rsdp |-> rsdp, root |-> root, span |-> span, tables |-> tables]
Usual == Fw("good", "good", {0}, <<Other, Here>>)
Firmwares == {Fw(rsdp, root, span, tables) :
                rsdp \in {"none", "bad", "good"}, root \in {"null", "bad", "good"}, span \in {{0}, {0, 1}},
                tables \in {<<>>, <<Other>>, <<Other, Here>>, <<Table("APIC", FALSE, 0, {0}), Here>>,
                            <<Table("APIC", TRUE, 0, {0, 1})>>, <<Table("FACP", TRUE, 1, {1}), Here>>}}
TestMachines == {[fw |-> Usual, madt |-> m] : m \in TestMadts}
                  \cup {[fw |-> f, madt |-> <<Lapic, Io(0, 7), Moved>>] : f \in Firmwares}
TestLeftovers == {{}, Pins, {2, 4, 7}}
=============================================================================
