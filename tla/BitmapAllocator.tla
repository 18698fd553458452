-------------------------- MODULE BitmapAllocator --------------------------
(***************************************************************************)
(* FixedBitmapAllocator with BASE_ADDR = 0, the instance the physical      *)
(* memory manager uses.  The bitmap is the set of units whose bit is set;  *)
(* addresses are bytes.  kstd::panic never returns: `panicked` holds the   *)
(* reason once it was called.                                              *)
(***************************************************************************)
EXTENDS Integers, FiniteSets

CONSTANTS UNIT_SIZE, MAX_UNITS

ASSUME SizeAssumption == UNIT_SIZE \in Nat \ {0} /\ MAX_UNITS \in Nat \ {0}

VARIABLES bitmap,            \* the units whose bit is set
          allocated_units_,
          panicked

AllUnits == 0 .. MAX_UNITS - 1

\* count units from unit `start` on.
Run(start, count) == start .. start + count - 1

\* The inner loop of alloc_units stopped at offset j of the run that starts at i.
ClashAt(i, count, j) == /\ j \in 0 .. count - 1
                        /\ i + j \in bitmap
                        /\ \A k \in 0 .. j - 1 : i + k \notin bitmap

Fits(i, count) == Run(i, count) \cap bitmap = {}

\* The run found by alloc_units is taken.
SetRun(i, count) == /\ bitmap' = bitmap \cup Run(i, count)
                    /\ allocated_units_' = allocated_units_ + count

\* free_units.  A clear bit panics, with the bits before it already cleared.
free_units(base, count) ==
    LET start == base \div UNIT_SIZE
        double == {u \in Run(start, count) : u \notin bitmap}
    IN  IF count # 0 /\ base % UNIT_SIZE # 0
        THEN panicked' = "unaligned" /\ UNCHANGED <<bitmap, allocated_units_>>
        ELSE IF count # 0 /\ start + count > MAX_UNITS
        THEN panicked' = "invalid range" /\ UNCHANGED <<bitmap, allocated_units_>>
        ELSE IF double # {}
        THEN /\ panicked' = "double free"
             /\ bitmap' = {u \in bitmap :
                             u >= start => \E d \in double : d <= u}
             /\ UNCHANGED allocated_units_
        ELSE /\ bitmap' = bitmap \ Run(start, count)
             /\ allocated_units_' = allocated_units_ - count
             /\ UNCHANGED panicked

\* mark_units_free and mark_units_used count only the bits they flip.
mark_units_free(base, count) ==
    LET run == Run(base \div UNIT_SIZE, count)
    IN  /\ bitmap' = bitmap \ run
        /\ allocated_units_' = allocated_units_ - Cardinality(run \cap bitmap)

mark_units_used(base, count) ==
    LET run == Run(base \div UNIT_SIZE, count)
    IN  /\ bitmap' = bitmap \cup run
        /\ allocated_units_' = allocated_units_ + Cardinality(run \ bitmap)

allocated(addr) == /\ addr \div UNIT_SIZE < MAX_UNITS
                   /\ addr % UNIT_SIZE = 0
                   /\ addr \div UNIT_SIZE \in bitmap
=============================================================================
