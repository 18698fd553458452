-------------------------------- MODULE Vmm --------------------------------
(***************************************************************************)
(* mm::vmm: the kernel's one page directory, edited under vmm::lock_ by    *)
(* the tasks of the bootstrap processor (BSP), and the TLB shootdown that  *)
(* makes the application processors (APs) forget what an edit changed.     *)
(*                                                                         *)
(* A TLB entry holds what a page-table walk found; a walk through a page   *)
(* table that has not been cleared yet finds Garbage.  The physical        *)
(* allocator is the set of its free frames (module Pmm has the detail).    *)
(* WORD stands for 2^32, the width of tlb_shootdown_pending.               *)
(***************************************************************************)
EXTENDS Integers, FiniteSets

CONSTANTS Threads,   \* tasks that run on the BSP
          NumAPs,    \* application processors, 1 .. NumAPs
          NumPages,  \* virtual pages, 0 .. NumPages - 1
          PTES,      \* entries of one page table
          NumFrames, \* frames the physical allocator starts with
          Counts,    \* page counts of the calls
          WORD

ASSUME VmmAssumption == /\ NumAPs \in Nat
                        /\ NumPages \in Nat \ {0}
                        /\ PTES \in Nat \ {0}
                        /\ NumFrames \in Nat
                        /\ Counts \subseteq Nat
                        /\ WORD \in Nat /\ WORD > NumAPs

None == -1         \* not present
Garbage == -2      \* no frame of the allocator's
BSP == 0
APs == 1 .. NumAPs
Cores == {BSP} \cup APs
Pages == 0 .. NumPages - 1
Frames == 0 .. NumFrames - 1
pde_index(p) == p \div PTES
Tables == {pde_index(p) : p \in Pages}

VARIABLES pde,     \* the frame of each page table
          pte,     \* the frame of each page
          raw,     \* page tables entered in the directory but not cleared
          free,    \* frames the physical allocator may hand out
          lock_,
          call,    \* each thread's call, its arguments and locals
          core,    \* each AP: "off", "starting", "ready" (Core::initialized)
          tlb,
          tlb_shootdown_pending,
          ipi,     \* APs whose local APIC holds vector 49 pending
          acking,  \* APs in tlb_shootdown_handler, after their flush
          late,    \* APs that were starting up during an edit (history)
          panicked

vars == <<pde, pte, raw, free, lock_, call, core, tlb, tlb_shootdown_pending,
          ipi, acking, late, panicked>>

tables == <<pde, pte, raw>>
shootdown == <<core, tlb_shootdown_pending, ipi, acking>>

Idle == [pc |-> "idle", op |-> "none", base |-> 0, n |-> 0, phys |-> 0, i |-> 0, count |-> 0]

Init == /\ pde = [d \in Tables |-> None]
        /\ pte = [p \in Pages |-> None]
        /\ raw = {}
        /\ free = Frames
        /\ lock_ = None
        /\ call = [t \in Threads |-> Idle]
        /\ core = [c \in APs |-> "off"]
        /\ tlb = [c \in Cores |-> [p \in Pages |-> None]]
        /\ tlb_shootdown_pending = 0
        /\ ipi = {}
        /\ acking = {}
        /\ late = {}
        /\ panicked = FALSE
-----------------------------------------------------------------------------
(* Calls.  The heap and the linker own the pages they map and unmap: two   *)
(* calls in progress never concern the same page.                          *)

Span(base, n) == base .. base + n - 1

InCall(t) == IF call[t].pc = "idle" THEN {} ELSE Span(call[t].base, call[t].n)

\* pmm::alloc_frames: the first run of n free frames.
FirstFit(f, n) == /\ Span(f, n) \subseteq free
                  /\ \A g \in Frames : Span(g, n) \subseteq free => f <= g

Starting == {c \in APs : core[c] = "starting"}

Goto(t, pc) == call' = [call EXCEPT ![t].pc = pc]

\* Heap::expand and Linker::stage1: alloc_frames, then map_pages.
CallMap(t, base, n, phys) ==
    /\ ~panicked /\ call[t].pc = "idle"
    /\ Span(base, n) \subseteq Pages \ UNION {InCall(u) : u \in Threads}
    /\ \A p \in Span(base, n) : pte[p] = None
    /\ FirstFit(phys, n)
    /\ free' = free \ Span(phys, n)
    /\ call' = [call EXCEPT ![t] = [Idle EXCEPT !.pc = "lock", !.op = "map", !.base = base,
                                                !.n = n, !.phys = phys]]
    /\ UNCHANGED <<tables, shootdown, lock_, tlb, late, panicked>>

\* Heap::contract and Linker::unload_region_locked.
CallUnmap(t, base, n) ==
    /\ ~panicked /\ call[t].pc = "idle"
    /\ Span(base, n) \subseteq Pages \ UNION {InCall(u) : u \in Threads}
    /\ call' = [call EXCEPT ![t] = [Idle EXCEPT !.pc = "lock", !.op = "unmap", !.base = base,
                                                !.n = n]]
    /\ UNCHANGED <<tables, shootdown, free, lock_, tlb, late, panicked>>

Lock(t) == /\ ~panicked /\ call[t].pc = "lock"
           /\ lock_ = None
           /\ lock_' = t
           /\ late' = late \cup Starting
           /\ Goto(t, "edit")
           /\ UNCHANGED <<tables, shootdown, free, tlb, panicked>>

Page(t) == call[t].base + call[t].i
Editing(t) == call[t].pc = "edit" /\ call[t].i < call[t].n
NextPage(t) == call' = [call EXCEPT ![t].pc = "edit", ![t].i = @ + 1]

\* invlpg on the processor that edits.
flush_tlb(p) == tlb' = [tlb EXCEPT ![BSP][p] = None]
-----------------------------------------------------------------------------
(* map_pages, page by page.  A table is entered in the directory before    *)
(* its contents are cleared.                                               *)

EnterTable(t) ==
    /\ ~panicked /\ Editing(t) /\ call[t].op = "map"
    /\ pde[pde_index(Page(t))] = None
    /\ IF free = {}
       THEN panicked' = TRUE /\ UNCHANGED <<tables, free, call>>  \* ensure_page_table: out of memory
       ELSE /\ \E f \in free : /\ FirstFit(f, 1)
                               /\ pde' = [pde EXCEPT ![pde_index(Page(t))] = f]
                               /\ free' = free \ {f}
            /\ raw' = raw \cup {pde_index(Page(t))}
            /\ Goto(t, "clear")
            /\ UNCHANGED <<pte, panicked>>
    /\ UNCHANGED <<shootdown, lock_, tlb, late>>

ClearTable(t) ==
    /\ ~panicked /\ call[t].pc = "clear"
    /\ raw' = raw \ {pde_index(Page(t))}
    /\ Goto(t, "edit")
    /\ UNCHANGED <<pde, pte, shootdown, free, lock_, tlb, late, panicked>>

MapPage(t) ==
    /\ ~panicked /\ Editing(t) /\ call[t].op = "map"
    /\ pde[pde_index(Page(t))] # None
    /\ pte' = [pte EXCEPT ![Page(t)] = call[t].phys + call[t].i]
    /\ flush_tlb(Page(t))
    /\ NextPage(t)
    /\ UNCHANGED <<pde, raw, shootdown, free, lock_, late, panicked>>
-----------------------------------------------------------------------------
(* unmap_pages: the frame goes back to the allocator before the entry is   *)
(* invalidated.                                                            *)

Mapped(p) == pde[pde_index(p)] # None /\ pte[p] # None

SkipPage(t) ==
    /\ ~panicked /\ Editing(t) /\ call[t].op = "unmap"
    /\ ~Mapped(Page(t))
    /\ NextPage(t)
    /\ UNCHANGED <<tables, shootdown, free, lock_, tlb, late, panicked>>

FreeFrame(t) ==
    /\ ~panicked /\ Editing(t) /\ call[t].op = "unmap"
    /\ Mapped(Page(t))
    /\ free' = free \cup {pte[Page(t)]}
    /\ Goto(t, "invalidate")
    /\ UNCHANGED <<tables, shootdown, lock_, tlb, late, panicked>>

\* Mutant: the editing processor keeps its own translation.
Invalidate_NoFlush(t) ==
    /\ ~panicked /\ call[t].pc = "invalidate"
    /\ pte' = [pte EXCEPT ![Page(t)] = None]
    /\ NextPage(t)
    /\ UNCHANGED <<pde, raw, shootdown, free, lock_, tlb, late, panicked>>

\* Mutant: the entry stays.
Invalidate_KeepEntry(t) ==
    /\ ~panicked /\ call[t].pc = "invalidate"
    /\ flush_tlb(Page(t))
    /\ NextPage(t)
    /\ UNCHANGED <<tables, shootdown, free, lock_, late, panicked>>

Invalidate(t) ==
    /\ ~panicked /\ call[t].pc = "invalidate"
    /\ pte' = [pte EXCEPT ![Page(t)] = None]
    /\ flush_tlb(Page(t))
    /\ NextPage(t)
    /\ UNCHANGED <<pde, raw, shootdown, free, lock_, late, panicked>>
-----------------------------------------------------------------------------
(* flush_remote_tlbs: count the processors that are up, announce the       *)
(* count, send each of them the vector, wait until all have answered.      *)
(* Both loops read Core::initialized anew.                                 *)

Return(t) == lock_' = None /\ call' = [call EXCEPT ![t] = Idle]

EditDone(t) ==
    /\ ~panicked /\ call[t].pc = "edit" /\ call[t].i = call[t].n
    /\ call' = [call EXCEPT ![t].pc = "count", ![t].i = 1]
    /\ UNCHANGED <<tables, shootdown, free, lock_, tlb, late, panicked>>

Count(t) ==
    /\ ~panicked /\ call[t].pc = "count" /\ call[t].i \in APs
    /\ call' = [call EXCEPT ![t].i = @ + 1,
                            ![t].count = @ + IF core[call[t].i] = "ready" THEN 1 ELSE 0]
    /\ UNCHANGED <<tables, shootdown, free, lock_, tlb, late, panicked>>

Announce(t) ==
    /\ ~panicked /\ call[t].pc = "count" /\ call[t].i \notin APs
    /\ IF call[t].count = 0
       THEN Return(t) /\ UNCHANGED tlb_shootdown_pending
       ELSE /\ tlb_shootdown_pending' = call[t].count
            /\ call' = [call EXCEPT ![t].pc = "send", ![t].i = 1]
            /\ UNCHANGED lock_
    /\ UNCHANGED <<tables, core, ipi, acking, free, tlb, late, panicked>>

\* Mutant: the last processor of the table is left out.
Send_NotLast(t) ==
    /\ ~panicked /\ call[t].pc = "send" /\ call[t].i \in APs
    /\ ipi' = IF core[call[t].i] = "ready" /\ call[t].i < NumAPs THEN ipi \cup {call[t].i} ELSE ipi
    /\ call' = [call EXCEPT ![t].i = @ + 1]
    /\ UNCHANGED <<tables, core, tlb_shootdown_pending, acking, free, lock_, tlb, late, panicked>>

Send(t) ==
    /\ ~panicked /\ call[t].pc = "send" /\ call[t].i \in APs
    /\ ipi' = IF core[call[t].i] = "ready" THEN ipi \cup {call[t].i} ELSE ipi
    /\ call' = [call EXCEPT ![t].i = @ + 1]
    /\ UNCHANGED <<tables, core, tlb_shootdown_pending, acking, free, lock_, tlb, late, panicked>>

\* Mutant: the caller does not wait for the answers.
Await_Not(t) ==
    /\ ~panicked /\ call[t].pc = "send" /\ call[t].i \notin APs
    /\ Return(t)
    /\ UNCHANGED <<tables, shootdown, free, tlb, late, panicked>>

Await(t) ==
    /\ ~panicked /\ call[t].pc = "send" /\ call[t].i \notin APs
    /\ tlb_shootdown_pending = 0
    /\ Return(t)
    /\ UNCHANGED <<tables, shootdown, free, tlb, late, panicked>>
-----------------------------------------------------------------------------
(* Processors. *)

\* warm_start_16 has loaded cr3; Core::initialized is still false.
StartUp(c) ==
    /\ core[c] = "off"
    /\ core' = [core EXCEPT ![c] = "starting"]
    /\ late' = IF lock_ = None THEN late ELSE late \cup {c}
    /\ UNCHANGED <<tables, free, lock_, call, tlb, tlb_shootdown_pending, ipi, acking, panicked>>

\* warm_start_32 stores Core::initialized and sleeps with interrupts enabled.
Ready(c) ==
    /\ core[c] = "starting"
    /\ core' = [core EXCEPT ![c] = "ready"]
    /\ UNCHANGED <<tables, free, lock_, call, tlb, tlb_shootdown_pending, ipi, acking, late, panicked>>

\* A processor walks the page tables and keeps what it finds.
Walk(c, p) ==
    /\ c \in APs => core[c] # "off"
    /\ pde[pde_index(p)] # None
    /\ IF pde_index(p) \in raw
       THEN tlb' = [tlb EXCEPT ![c][p] = Garbage]
       ELSE pte[p] # None /\ tlb' = [tlb EXCEPT ![c][p] = pte[p]]
    /\ tlb[c][p] = None
    /\ UNCHANGED <<tables, shootdown, free, lock_, call, late, panicked>>

flush_current_tlb(c) == tlb' = [tlb EXCEPT ![c] = [p \in Pages |-> None]]

\* tlb_shootdown_handler, with interrupts disabled on c: flush, then answer.
HandleShootdown(c) ==
    /\ core[c] = "ready" /\ c \in ipi /\ c \notin acking
    /\ ipi' = ipi \ {c}
    /\ acking' = acking \cup {c}
    /\ flush_current_tlb(c)
    /\ UNCHANGED <<tables, core, tlb_shootdown_pending, free, lock_, call, late, panicked>>

Answer(c) ==
    /\ c \in acking
    /\ tlb_shootdown_pending' = (tlb_shootdown_pending - 1) % WORD
    /\ acking' = acking \ {c}
    /\ UNCHANGED <<tables, core, ipi, free, lock_, call, tlb, late, panicked>>
-----------------------------------------------------------------------------
(* Specification. *)

Step(t) == \/ EnterTable(t) \/ ClearTable(t) \/ MapPage(t)
           \/ SkipPage(t) \/ FreeFrame(t) \/ Invalidate(t)
           \/ EditDone(t) \/ Count(t) \/ Announce(t) \/ Send(t) \/ Await(t)

Next == \/ \E t \in Threads :
              \/ \E base \in Pages, n \in Counts :
                    \/ \E phys \in Frames : CallMap(t, base, n, phys)
                    \/ CallUnmap(t, base, n)
              \/ Lock(t)
              \/ Step(t)
        \/ \E c \in APs : StartUp(c) \/ Ready(c) \/ HandleShootdown(c) \/ Answer(c)
        \/ \E c \in Cores, p \in Pages : Walk(c, p)

Spec == Init /\ [][Next]_vars

\* The holder of lock_ keeps running: the heap's calls are made with
\* interrupts disabled, and no other task contends in the instance this is
\* checked on.  An AP sleeps with interrupts enabled and takes its vectors.
FairSpec == /\ Spec
            /\ \A t \in Threads : WF_vars(Step(t))
            /\ \A c \in APs : WF_vars(HandleShootdown(c)) /\ WF_vars(Answer(c))
-----------------------------------------------------------------------------
(* Properties. *)

TypeOK ==
    /\ pde \in [Tables -> Frames \cup {None}]
    /\ pte \in [Pages -> Frames \cup {None}]
    /\ raw \subseteq Tables
    /\ free \subseteq Frames
    /\ lock_ \in Threads \cup {None}
    /\ call \in [Threads -> [pc : {"idle", "lock", "edit", "clear", "invalidate", "count", "send"},
                             op : {"none", "map", "unmap"}, base : Nat, n : Nat, phys : Nat,
                             i : Nat, count : 0 .. NumAPs]]
    /\ core \in [APs -> {"off", "starting", "ready"}]
    /\ tlb \in [Cores -> [Pages -> Frames \cup {None, Garbage}]]
    /\ tlb_shootdown_pending \in 0 .. WORD - 1
    /\ ipi \subseteq APs
    /\ acking \subseteq APs
    /\ late \subseteq APs
    /\ panicked \in BOOLEAN

\* When no edit is in progress every page table is cleared, and no processor
\* translates a page to anything but what the page table says, provided no AP
\* was starting up during an edit: the shootdown (vmm.cpp:12) has reached everyone when lock_ is given
\* back, whatever the processors walked in between.  The BSP alone may keep
\* what it found in a table before it was cleared: it is entered in the
\* directory first (vmm.hpp:261), and the BSP flushes single pages only.
Coherent == lock_ = None =>
    /\ raw = {}
    /\ late = {} => \A c \in Cores, p \in Pages :
           tlb[c][p] \in {None, pte[p]} \cup (IF c = BSP THEN {Garbage} ELSE {})

\* A frame that is mapped at one page, or used as a page table, is not
\* reachable at another page through a translation some processor still
\* keeps, at no point of any call: unmap_page_locked frees the frame before
\* the shootdown (vmm.hpp:293), but a new mapping waits for lock_.
NoAliasing == late = {} =>
    \A c \in Cores, p \in Pages : tlb[c][p] \in Frames =>
        /\ \A q \in Pages \ {p} : pte[q] # tlb[c][p]
        /\ \A d \in Tables : pde[d] # tlb[c][p]

\* The frames a call that has not begun to map has taken from the allocator,
\* and those its loop has yet to enter.
Pending(t) == IF call[t].pc \in {"lock", "edit", "clear"} /\ call[t].op = "map"
              THEN call[t].phys + call[t].i .. call[t].phys + call[t].n - 1
              ELSE {}

\* Every frame has one use: free, a page table, mapped at one page, or taken
\* by a call in progress.  The exception is the page that FreeFrame has
\* given back and Invalidate is about to clear (vmm.hpp:293-294).
OneUse == LET Invalidating == {Page(t) : t \in {u \in Threads : call[u].pc = "invalidate"}}
              Live == {p \in Pages \ Invalidating : pte[p] # None}
          IN /\ TypeOK
             /\ \A p, q \in Live : pte[p] = pte[q] => p = q
             /\ \A d, e \in Tables : pde[d] = pde[e] /\ pde[d] # None => d = e
             /\ \A p \in Live : pte[p] \notin free \cup {pde[d] : d \in Tables}
             /\ \A d \in Tables : pde[d] \notin free
             /\ \A t \in Threads : \A f \in Pending(t) :
                   /\ f \notin free
                   /\ \A p \in Live : pte[p] # f
                   /\ \A d \in Tables : pde[d] # f

\* Whoever holds lock_ gives it back: every processor counted is sent the
\* vector and answers once (vmm.cpp:47), unless an AP came up meanwhile.
LockIsReleased == \A t \in Threads :
                     lock_ = t ~> (lock_ # t \/ late # {} \/ panicked)
=============================================================================
