-------------------------------- MODULE Pmm --------------------------------
(***************************************************************************)
(* mm::pmm, the physical memory manager: its construction from the boot    *)
(* loader's memory map, one step per map entry and per reserved object,    *)
(* and then alloc_frames and free_frames called by several threads, each   *)
(* call under the spin lock `lock`.                                        *)
(*                                                                         *)
(* Physical memory is MAX_UNITS * UNIT_SIZE bytes, which is the whole      *)
(* 32-bit address space (2^20 frames of 4 KiB): Space stands for 2^32.     *)
(***************************************************************************)
EXTENDS BitmapAllocator, Sequences

CONSTANTS LOW_USABLE_BASE,  \* layout::boot::LOW_USABLE_BASE
          Threads,
          Counts,           \* bound: the frame counts that are requested
          BootInfos         \* what the boot loader may have left in memory

NoOne == "no one"
Space == MAX_UNITS * UNIT_SIZE

\* [mmap: entries with 64-bit addr and len, kernel and modules: byte ranges,
\*  firmware: the ACPI frames that ACPI and APIC code map, and unmap again].
ASSUME BootAssumption ==
    /\ NoOne \notin Threads
    /\ Counts \subseteq Nat
    /\ LOW_USABLE_BASE \in 0 .. Space - 1
    /\ \A b \in BootInfos :
         /\ b.mmap \in Seq([addr : Nat, len : Nat, available : BOOLEAN])
         /\ b.kernel \in [start : 0 .. Space - 1, end : 0 .. Space - 1]
         /\ b.kernel.start <= b.kernel.end
         /\ b.modules \in Seq([start : 0 .. Space - 1, end : 0 .. Space - 1])
         /\ \A i \in DOMAIN b.modules : b.modules[i].start <= b.modules[i].end
         /\ b.firmware \subseteq AllUnits

VARIABLES boot,              \* the member of BootInfos found at boot
          phase,             \* where pmm::init is, "ready" once it returned
          index,             \* the map entry or module it looks at
          available_frames,
          used_frames,
          lock,
          call,              \* the call each thread is in, and its locals
          held,              \* ghost: frames handed out and not yet given back
          released           \* ghost: firmware frames given to the allocator

initVars == <<boot, phase, index, available_frames>>
vars == <<bitmap, allocated_units_, panicked, boot, phase, index,
          available_frames, used_frames, lock, call, held, released>>

Calls == [pc : {"idle", "alloc", "probe", "take", "free"},
          i : Nat, count : Nat]
IdleCall == [pc |-> "idle", i |-> 0, count |-> 0]

TypeOK == /\ bitmap \subseteq AllUnits
          /\ allocated_units_ \in Int
          /\ panicked \in {"no", "too large", "out of memory", "double free",
                           "unaligned", "invalid range"}
          /\ boot \in BootInfos
          /\ phase \in {"start", "map", "kernel", "modules", "low", "ready"}
          /\ index \in Nat
          /\ available_frames \in Nat
          /\ used_frames \in Int
          /\ lock \in Threads \cup {NoOne}
          /\ call \in [Threads -> Calls]
          /\ held \in [Threads -> SUBSET AllUnits]
          /\ released \subseteq AllUnits

\* The static storage of pmm before Kernel::init calls pmm::init.
Init == /\ bitmap = {} /\ allocated_units_ = 0 /\ panicked = "no"
        /\ boot \in BootInfos
        /\ phase = "start" /\ index = 1
        /\ available_frames = 0 /\ used_frames = 0
        /\ lock = NoOne
        /\ call = [t \in Threads |-> IdleCall]
        /\ held = [t \in Threads |-> {}]
        /\ released = {}
-----------------------------------------------------------------------------
(* Page ranges: [base, frames], in bytes and frames. *)

NoRange == [base |-> 0, frames |-> 0]
Size(range) == (range.frames * UNIT_SIZE) % Space

\* 32-bit rounding.
align_down(v) == (v \div UNIT_SIZE) * UNIT_SIZE
align_up(v) == align_down((v + UNIT_SIZE - 1) % Space)

\* Mutant: an AVAILABLE region is rounded outwards.
freeable_page_range_Outwards(base, size, min_base) ==
    LET start == IF base < min_base THEN min_base ELSE base
        end == IF base + size > Space THEN Space ELSE base + size
        first == start \div UNIT_SIZE
        limit == (end + UNIT_SIZE - 1) \div UNIT_SIZE
    IN  IF size = 0 \/ base + size <= min_base \/ limit <= first THEN NoRange
        ELSE [base |-> first * UNIT_SIZE, frames |-> limit - first]

\* The whole pages of [base, base + size) above min_base, in 64-bit arithmetic.
freeable_page_range(base, size, min_base) ==
    LET start == IF base < min_base THEN min_base ELSE base
        end == IF base + size > Space THEN Space ELSE base + size
        first == (start + UNIT_SIZE - 1) \div UNIT_SIZE
        limit == end \div UNIT_SIZE
    IN  IF size = 0 \/ base + size <= min_base \/ limit <= first THEN NoRange
        ELSE [base |-> first * UNIT_SIZE, frames |-> limit - first]

\* The pages [base, base + size) touches, in 32-bit arithmetic.
covered_page_range(base, size) ==
    LET first == align_down(base)
        limit == align_up((base + size) % Space)
    IN  IF size = 0 \/ limit <= first THEN NoRange
        ELSE [base |-> first, frames |-> (limit - first) \div UNIT_SIZE]

init_region(base, size) ==
    LET range == freeable_page_range(base, size, 0)
    IN  mark_units_free(range.base, range.frames)

\* Mutant: the frames that were already used are counted again.
deinit_region_CountAll(base, size) ==
    LET range == covered_page_range(base, size)
    IN  /\ used_frames' = used_frames + range.frames
        /\ mark_units_used(range.base, range.frames)

\* used_frames grows by the frames that were free before.
deinit_region(base, size) ==
    LET range == covered_page_range(base, size)
        used_before == {u \in Run(range.base \div UNIT_SIZE, range.frames) :
                          allocated(u * UNIT_SIZE)}
    IN  /\ used_frames' = used_frames + range.frames - Cardinality(used_before)
        /\ mark_units_used(range.base, range.frames)
-----------------------------------------------------------------------------
(* pmm::init, in the order of the code.  Nothing else runs yet. *)

Booting == /\ panicked = "no"
           /\ UNCHANGED <<panicked, boot, lock, call, held, released>>

\* The bitmap of a fresh kernel is clear; everything becomes used.
StartInit == /\ phase = "start" /\ phase' = "map"
             /\ mark_units_used(0, MAX_UNITS)
             /\ available_frames' = 0 /\ used_frames' = 0
             /\ UNCHANGED index
             /\ Booting

\* One iteration over the memory map.  addr and len are 64 bits wide and are
\* cut to 32 when they are read.
MapEntry ==
    /\ phase = "map" /\ index <= Len(boot.mmap)
    /\ LET entry == boot.mmap[index]
           range == freeable_page_range(entry.addr % Space, entry.len % Space,
                                        LOW_USABLE_BASE)
       IN  IF entry.available /\ range.frames # 0
           THEN /\ available_frames' = available_frames + range.frames
                /\ init_region(range.base, Size(range))
           ELSE UNCHANGED <<available_frames, bitmap, allocated_units_>>
    /\ index' = index + 1
    /\ UNCHANGED <<phase, used_frames>>
    /\ Booting

MapEnd == /\ phase = "map" /\ index > Len(boot.mmap)
          /\ phase' = "kernel" /\ index' = 1
          /\ UNCHANGED <<bitmap, allocated_units_, available_frames, used_frames>>
          /\ Booting

\* The page span is computed first and then applied from the unaligned start.
ReserveKernel ==
    /\ phase = "kernel" /\ phase' = "modules"
    /\ LET span == covered_page_range(boot.kernel.start,
                                      boot.kernel.end - boot.kernel.start)
       IN  deinit_region(boot.kernel.start, Size(span))
    /\ UNCHANGED <<index, available_frames>>
    /\ Booting

ReserveModule ==
    /\ phase = "modules" /\ index <= Len(boot.modules)
    /\ LET module == boot.modules[index]
           span == covered_page_range(module.start, module.end - module.start)
       IN  deinit_region(module.start, Size(span))
    /\ index' = index + 1
    /\ UNCHANGED <<phase, available_frames>>
    /\ Booting

ModulesEnd == /\ phase = "modules" /\ index > Len(boot.modules)
              /\ phase' = "low"
              /\ UNCHANGED <<bitmap, allocated_units_, index, available_frames,
                             used_frames>>
              /\ Booting

\* max_module_end_aligned, and the end of the kernel image.
BootEnds == {align_up(boot.kernel.end)} \cup
            {align_up(boot.modules[i].end) : i \in DOMAIN boot.modules}

\* low_boot_reserved_end.
IsLowBootEnd(end) == end \in BootEnds /\ \A e \in BootEnds : e <= end

ReserveLow ==
    /\ phase = "low" /\ phase' = "ready"
    /\ \E end \in BootEnds :
         /\ IsLowBootEnd(end)
         /\ IF end > LOW_USABLE_BASE
            THEN deinit_region(LOW_USABLE_BASE, end - LOW_USABLE_BASE)
            ELSE UNCHANGED <<bitmap, allocated_units_, used_frames>>
    /\ UNCHANGED <<index, available_frames>>
    /\ Booting
-----------------------------------------------------------------------------
(* Calls of threads once pmm::init returned. *)

Goto(t, c) == call' = [call EXCEPT ![t] = c]

Running == /\ phase = "ready" /\ panicked = "no"
           /\ UNCHANGED initVars

\* A thread asks for count frames.
CallAlloc(t, count) ==
    /\ call[t].pc = "idle"
    /\ Goto(t, [pc |-> "alloc", i |-> 0, count |-> count])
    /\ UNCHANGED <<bitmap, allocated_units_, panicked, used_frames, lock, held,
                   released>>
    /\ Running

\* A thread gives back a run of the frames it was given ...
CallFree(t, start, count) ==
    /\ call[t].pc = "idle"
    /\ Run(start, count) \subseteq held[t]
    /\ held' = [held EXCEPT ![t] = @ \ Run(start, count)]
    /\ Goto(t, [pc |-> "free", i |-> start, count |-> count])
    /\ UNCHANGED <<bitmap, allocated_units_, panicked, used_frames, lock,
                   released>>
    /\ Running

\* ... and vmm::unmap_page of an identity-mapped ACPI table gives back a frame
\* that nobody was ever given.
CallFreeFirmware(t, f) ==
    /\ call[t].pc = "idle"
    /\ f \in boot.firmware \ released
    /\ released' = released \cup {f}
    /\ Goto(t, [pc |-> "free", i |-> f, count |-> 1])
    /\ UNCHANGED <<bitmap, allocated_units_, panicked, used_frames, lock, held>>
    /\ Running

\* Mutant: alloc_frames without its guard.
LockForAlloc_None(t) == UNCHANGED lock

\* SpinLockGuard in alloc_frames.
LockForAlloc(t) == lock = NoOne /\ lock' = t

\* The checks of alloc_units before its loop; a request for nothing returns 0.
StartAlloc(t) ==
    /\ call[t].pc = "alloc"
    /\ LockForAlloc(t)
    /\ panicked' = IF call[t].count > MAX_UNITS THEN "too large" ELSE panicked
    /\ Goto(t, [call[t] EXCEPT !.pc = IF call[t].count = 0 THEN "take" ELSE "probe"])
    /\ UNCHANGED <<bitmap, allocated_units_, used_frames, held, released>>
    /\ Running

\* Mutant: the search goes on after the whole run that did not fit.
Probe_SkipRun(t) ==
    /\ call[t].pc = "probe"
    /\ LET i == call[t].i
           count == call[t].count
       IN  \/ /\ i + count <= MAX_UNITS /\ Fits(i, count)
              /\ Goto(t, [call[t] EXCEPT !.pc = "take"])
              /\ UNCHANGED panicked
           \/ /\ i + count <= MAX_UNITS /\ ~Fits(i, count)
              /\ Goto(t, [call[t] EXCEPT !.i = i + count])
              /\ UNCHANGED panicked
           \/ /\ i + count > MAX_UNITS
              /\ panicked' = "out of memory" /\ UNCHANGED call
    /\ UNCHANGED <<bitmap, allocated_units_, used_frames, lock, held, released>>
    /\ Running

\* One iteration of the outer loop: the run fits, or the next candidate starts
\* just behind the first clash, or there is no candidate left.
Probe(t) ==
    /\ call[t].pc = "probe"
    /\ LET i == call[t].i
           count == call[t].count
       IN  \/ /\ i + count <= MAX_UNITS /\ Fits(i, count)
              /\ Goto(t, [call[t] EXCEPT !.pc = "take"])
              /\ UNCHANGED panicked
           \/ \E j \in 0 .. count - 1 :
              /\ i + count <= MAX_UNITS /\ ClashAt(i, count, j)
              /\ Goto(t, [call[t] EXCEPT !.i = i + j + 1])
              /\ UNCHANGED panicked
           \/ /\ i + count > MAX_UNITS
              /\ panicked' = "out of memory" /\ UNCHANGED call
    /\ UNCHANGED <<bitmap, allocated_units_, used_frames, lock, held, released>>
    /\ Running

\* The bits are set, used_frames is counted up and the guard is released.
Take(t) ==
    /\ call[t].pc = "take"
    /\ SetRun(call[t].i, call[t].count)
    /\ used_frames' = used_frames + call[t].count
    /\ held' = [held EXCEPT ![t] = @ \cup Run(call[t].i, call[t].count)]
    /\ lock' = NoOne
    /\ Goto(t, IdleCall)
    /\ UNCHANGED <<panicked, released>>
    /\ Running

\* free_frames, as a whole: it takes the lock and has nothing to wait for.
free_frames(t) ==
    /\ call[t].pc = "free"
    /\ lock = NoOne
    /\ free_units(call[t].i * UNIT_SIZE, call[t].count)
    /\ used_frames' = IF panicked' = "no" THEN used_frames - call[t].count
                                          ELSE used_frames
    /\ Goto(t, IdleCall)
    /\ UNCHANGED <<lock, held, released>>
    /\ Running
-----------------------------------------------------------------------------
BootStep == StartInit \/ MapEntry \/ MapEnd \/ ReserveKernel \/ ReserveModule
            \/ ModulesEnd \/ ReserveLow

Next == \/ BootStep
        \/ \E t \in Threads :
             \/ \E n \in Counts : CallAlloc(t, n)
             \/ \E s \in AllUnits, n \in Counts : CallFree(t, s, n)
             \/ \E f \in AllUnits : CallFreeFirmware(t, f)
             \/ StartAlloc(t) \/ Probe(t) \/ Take(t) \/ free_frames(t)

Spec == Init /\ [][Next]_vars
-----------------------------------------------------------------------------
(* Properties. *)

\* The entries that make frames available, and the frames entry n does.
Usable(b) == {n \in DOMAIN b.mmap : b.mmap[n].available}
FreedBy(b, n) ==
    LET range == freeable_page_range(b.mmap[n].addr % Space, b.mmap[n].len % Space,
                                     LOW_USABLE_BASE)
    IN  Run(range.base \div UNIT_SIZE, range.frames)

\* What pmm::init takes for granted: once the 64-bit addresses were cut to 32
\* bits, no two AVAILABLE entries describe the same frame, and none describes
\* the frame of an ACPI table.  A machine with memory above 4 GiB breaks it.
SaneMap(b) ==
    \A n \in Usable(b) :
        /\ FreedBy(b, n) \cap b.firmware = {}
        /\ \A m \in Usable(b) : m # n => FreedBy(b, m) \cap FreedBy(b, n) = {}

\* The two sets of books agree with the bitmap: allocated_units_ counts the set
\* bits, and free_memory(), which is computed from available_frames and
\* used_frames alone, is the number of clear bits, whatever was reserved,
\* allocated and given back, firmware frames included.  All variables keep their
\* types meanwhile.
Accounting == /\ TypeOK
              /\ allocated_units_ = Cardinality(bitmap) \/ panicked # "no"
              /\ phase # "start" /\ SaneMap(boot) /\ panicked = "no" =>
                   available_frames - used_frames = Cardinality(AllUnits \ bitmap)

\* Concurrent alloc_frames never hand out a frame twice: the frames of two
\* threads are disjoint and the bit of every frame in use is set.  Hence threads
\* that give back what they were given, once, never trip the double-free,
\* alignment or range panics of free_units.
FramesAreExclusive ==
    SaneMap(boot) =>
        /\ panicked \in {"no", "too large", "out of memory"}
        /\ panicked = "no" =>
             \A t \in Threads :
                /\ held[t] \subseteq bitmap
                /\ \A u \in Threads : t # u => held[t] \cap held[u] = {}

\* "PMM cannot hand out frames that alias live code/data": a frame that was
\* handed out lies above the kernel image and every module, and each of its
\* bytes is in memory the boot loader called AVAILABLE, the latter provided all
\* of that is below 4 GiB.  The exception are the firmware frames that
\* unmap_page put into the allocator.
OnlyUsableMemory ==
    phase = "ready" =>
        \A t \in Threads : \A f \in held[t] \ released :
            /\ f * UNIT_SIZE >= LOW_USABLE_BASE
            /\ f * UNIT_SIZE >= boot.kernel.end
            /\ \A i \in DOMAIN boot.modules : f * UNIT_SIZE >= boot.modules[i].end
            /\ (\A n \in Usable(boot) : boot.mmap[n].addr + boot.mmap[n].len <= Space) =>
                 \A byte \in f * UNIT_SIZE .. (f + 1) * UNIT_SIZE - 1 :
                    \E n \in Usable(boot) :
                        byte \in boot.mmap[n].addr .. boot.mmap[n].addr + boot.mmap[n].len - 1

\* A run of count free frames starts at s.
FreeRun(s, count) == s + count <= MAX_UNITS /\ Fits(s, count)

\* The search that jumps over clashes is a first fit: it takes the lowest free
\* run, and it panics for want of memory only if there is no free run at all.
FirstFit ==
    \A t \in Threads :
        /\ call[t].pc = "take" =>
             /\ FreeRun(call[t].i, call[t].count)
             /\ \A s \in 0 .. call[t].i - 1 : ~FreeRun(s, call[t].count)
        /\ call[t].pc = "probe" /\ panicked = "out of memory" /\ lock = t =>
             \A s \in AllUnits : ~FreeRun(s, call[t].count)
=============================================================================
