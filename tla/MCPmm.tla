------------------------------- MODULE MCPmm -------------------------------
(***************************************************************************)
(* Nine frames of four bytes.  The low two are below LOW_USABLE_BASE.      *)
(***************************************************************************)
EXTENDS Pmm, TLC

MapOf(entries) == [n \in DOMAIN entries |->
    [addr |-> entries[n][1], len |-> entries[n][2], available |-> entries[n][3]]]

\* Low memory, a hole, memory with ragged ends, ACPI tables, more memory.
OrdinaryMap == MapOf(<< <<0, 7, TRUE>>, <<7, 1, FALSE>>, <<8, 21, TRUE>>,
                        <<29, 3, FALSE>>, <<32, 4, TRUE>> >>)

\* A map with a region that starts below the boot area and ends unaligned, an
\* empty one, and one whose first whole page is not where it starts.
RaggedMap == MapOf(<< <<3, 16, TRUE>>, <<21, 0, TRUE>>, <<21, 14, TRUE>> >>)

OrdinaryBoot == [mmap |-> OrdinaryMap, kernel |-> [start |-> 8, end |-> 11],
                 modules |-> << [start |-> 17, end |-> 19] >>, firmware |-> {7}]
RaggedBoot == [mmap |-> RaggedMap, kernel |-> [start |-> 9, end |-> 12],
               modules |-> << [start |-> 16, end |-> 16], [start |-> 13, end |-> 20] >>,
               firmware |-> {}]

\* The ordinary machine with as much memory again above 4 GiB: cut to 32 bits,
\* the last entry covers the ACPI tables too.
LargeBoot == [OrdinaryBoot EXCEPT
                !.mmap = Append(@, [addr |-> Space, len |-> 32, available |-> TRUE])]

Boots == {OrdinaryBoot, RaggedBoot, LargeBoot}

Symmetry == Permutations(Threads)
=============================================================================
