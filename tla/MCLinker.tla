------------------------------ MODULE MCLinker ------------------------------
(* Linker for TLC: small objects that reach every stage and every failure. *)
EXTENDS Linker

Sec(exec, size, align) == [alloc |-> TRUE, exec |-> exec, size |-> size, align |-> align]
Note == [alloc |-> FALSE, exec |-> FALSE, size |-> 5, align |-> 1]
Sym(k, v) == [shndx |-> k, value |-> v, exported |-> FALSE]
Import(v) == [shndx |-> SHN_UNDEF, value |-> v, exported |-> TRUE]
Missing == [shndx |-> SHN_UNDEF, value |-> 0, exported |-> FALSE]
Rel(offset, sym, type, addend) == [offset |-> offset, sym |-> sym, type |-> type, addend |-> addend]

\* Code, data and read-only data; calls within, into the kernel, to nowhere.
Good == [elf |-> TRUE, symtab |-> [null |-> 0, enter |-> 1, exit |-> 1], dynsym |-> <<>>,
         sections |-> <<Sec(TRUE, 13, 4), Sec(FALSE, 6, 1), Sec(FALSE, 9, 4), Note>>,
         rels |-> <<[target |-> 1, entries |-> <<Rel(0, Sym(3, 5), "R_386_PC32", -4),
                                                 Rel(8, Import(7), "R_386_PC32", -4),
                                                 Rel(4, Missing, "R_386_PC32", -4)>>],
                    [target |-> 4, entries |-> <<Rel(0, Sym(1, 0), "R_386_32", 0)>>],
                    [target |-> 3, entries |-> <<Rel(4, Sym(1, 2), "R_386_32", 1)>>]>>]

\* Two code sections, the second alignment needs padding; no exit point.
NoExit == [Good EXCEPT !.sections = <<Sec(TRUE, 5, 1), Sec(TRUE, 4, 4)>>,
                       !.rels = <<[target |-> 2, entries |-> <<Rel(0, Sym(1, 1), "R_386_PC32", -4)>>]>>,
                       !.symtab = [null |-> 0, enter |-> 1]]

\* Fails in stage2: a relocation type the linker does not know.
BadType == [Good EXCEPT !.rels = <<[target |-> 1, entries |-> <<Rel(0, Sym(2, 0), "R_386_32", 0),
                                                                Rel(4, Sym(2, 0), "R_386_GOT32", 0)>>]>>]

\* Fails in stage0, and in registerModule.
NoSections == [Good EXCEPT !.sections = <<>>, !.rels = <<>>]
NoEntry == [Good EXCEPT !.symtab = [null |-> 0, exit |-> 1], !.rels = <<>>]

\* Fails in stage2: relocations of no section of the object, or without
\* a symbol table.
BadTarget == [NoEntry EXCEPT !.rels = <<[target |-> 9, entries |-> <<Rel(0, Sym(1, 0), "R_386_32", 0)>>]>>]

NoSymbols == [NoExit EXCEPT !.symtab = <<>>]

TestObjects == <<Good, NoExit, BadType, NoSections, NoEntry, BadTarget, NoSymbols>>
=============================================================================
