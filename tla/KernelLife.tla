----------------------------- MODULE KernelLife -----------------------------
(***************************************************************************)
(* The life of the kernel on the bootstrap processor: kernel_early_main,   *)
(* Kernel::init, kernel_main and ~Kernel in order, the device interrupts   *)
(* that idt::isr_handler dispatches between any two steps once they are    *)
(* enabled, and the exit functions (module Atexit) of the global objects.  *)
(*                                                                         *)
(* `up` holds what is in place: a component's StaticSlot by its name,      *)
(* programmed hardware, filled tables and pointers.  A step needs some of  *)
(* it, in a way that panics when it is missing, and trusts some of it, by  *)
(* a raw pointer nobody tests.                                             *)
(***************************************************************************)
EXTENDS Naturals, Sequences

CONSTANTS
    Funcs, ATEXIT_MAX_FUNCS, MaxRegistrations,   \* of Atexit
    Lines,          \* device lines other than the timer's
    TICKS           \* ticks CoreManager::init sleeps for the APs

VARIABLES
    funcs, count, serial, refused, dropped, ran, fin,   \* of Atexit
    machine,    \* [madt, modules]: the firmware has a MADT; boot modules came along
    pc,         \* the step the BSP is at
    up,
    slept,      \* ticks CoreManager::init has seen
    pending,    \* lines that wait to be delivered
    in_service, \* lines the LAPIC delivered and was not told the end of
    stale,      \* <<step, component>>: a pointer to what is not there was used
    panicked

exit == <<funcs, count, serial, refused, dropped, ran, fin>>
devices == <<slept, pending, in_service>>
vars == <<exit, machine, pc, up, devices, stale, panicked>>

Exit == INSTANCE Atexit

Timer == 0

\* Mutant: interrupts are enabled before the BSP has its core.
Steps_BspLate ==
    <<"pic::remap", "pit::init", "gdt::init_bsp", "idt::init", "pmm::init", "vmm::init",
      "acpi::init", "heap", "linker", "mmanager", "modules", "apic", "configure", "cmanager",
      "pic::disable", "lapic", "sti", "init_bsp", "start_cores", "_init", "Scheduler", "sched",
      "yield", "kernel_main", "cli", "__cxa_finalize", "finalizing", "_fini", "~sched",
      "~cmanager", "~apic", "~mmanager", "~linker", "~heap", "terminated">>

(* kernel_early_main's calls, with Kernel::init and ~Kernel in place.  The *)
(* constructor of a component and its StaticSlot's flag are one step; of   *)
(* the scheduler, built with interrupts enabled, they are two.             *)
Steps ==
    <<"pic::remap", "pit::init", "gdt::init_bsp", "idt::init", "pmm::init", "vmm::init",
      "acpi::init", "heap", "linker", "mmanager", "modules", "apic", "configure", "cmanager",
      "init_bsp", "pic::disable", "lapic", "sti", "start_cores", "_init", "Scheduler", "sched",
      "yield", "kernel_main", "cli", "__cxa_finalize", "finalizing", "_fini", "~sched",
      "~cmanager", "~apic", "~mmanager", "~linker", "~heap", "terminated">>

At(s) == Steps[pc] = s /\ ~panicked

(* What a step cannot do without. A StaticSlot's get() panics when it is   *)
(* not constructed; memory and tables that are not there fault.            *)
Needs(s) ==
    CASE s = "vmm::init" -> {"pmm::init"}
      [] s \in {"acpi::init", "heap"} -> {"vmm::init"}
      [] s = "modules" -> {"mmanager", "heap", "vmm::init"}
      [] s \in {"configure", "lapic"} -> {"apic"}
      [] s = "cmanager" -> {"apic", "vmm::init"}
      [] s = "init_bsp" -> {"cmanager"}
      [] s = "start_cores" -> {"cmanager", "heap"}
      [] s = "Scheduler" -> {"heap"}
      [] s = "yield" -> {"core", "sched"}
      [] s \in {"finalizing", "~sched", "~linker"} -> {"heap"}
      [] s = "~mmanager" -> {"heap", "vmm::init"}
      [] OTHER -> {}

(* What it reaches by a raw pointer: ModuleManager's to the linker, and    *)
(* CoreManager::instance_ when an unloaded module's pages are unmapped.    *)
Trusts(s) ==
    CASE s = "modules" /\ machine.modules -> {"linker"}
      [] s = "~mmanager" /\ machine.modules -> {"linker", "cmanager"}
      [] OTHER -> {}

(* The BSP's anchor gets its Core, if the MADT listed one. *)
init_bsp == IF machine.madt THEN {"core"} ELSE {}

(* Mutant: the LAPIC is left as the firmware had it, disabled. *)
Gives_NoLapic(s) ==
    CASE s = "sti" -> {"if"}
      [] s \in {"init_bsp", "configure"} /\ ~machine.madt -> {}
      [] s = "init_bsp" -> {"core"}
      [] s = "Scheduler" -> {"scheduler", "timer_tick"}
      [] s \in {"lapic", "yield", "cli", "~sched", "~cmanager", "~apic", "~mmanager", "~linker", "~heap"} -> {}
      [] OTHER -> {s}

(* What it puts in place.  Without a MADT apic::init returns early: there  *)
(* are no IOAPICs to configure, no cores, and no LAPIC at the address used. *)
Gives(s) ==
    CASE s = "sti" -> {"if"}
      [] s = "init_bsp" -> init_bsp
      [] s \in {"configure", "lapic"} -> IF machine.madt THEN {s} ELSE {}
      [] s = "Scheduler" -> {"scheduler", "timer_tick"}
      [] s \in {"yield", "cli", "~sched", "~cmanager", "~apic", "~mmanager", "~linker", "~heap"} -> {}
      [] OTHER -> {s}

(* Mutant: ~Scheduler leaves its timer callback registered. *)
Takes_KeepCallback(s) ==
    CASE s = "cli" -> {"if"}
      [] s = "~sched" -> {"sched", "scheduler"}
      [] s = "~cmanager" -> {"cmanager"}
      [] s = "~apic" -> {"apic"}
      [] s = "~mmanager" -> {"mmanager"}
      [] s = "~linker" -> {"linker"}
      [] s = "~heap" -> {"heap"}
      [] OTHER -> {}

(* What it removes: try_destruct runs the destructor and clears the flag;  *)
(* ~Scheduler takes its timer callback back. instance_ and the anchor's    *)
(* core stay as they are.                                                  *)
Takes(s) ==
    CASE s = "cli" -> {"if"}
      [] s = "~sched" -> {"sched", "scheduler", "timer_tick"}
      [] s = "~cmanager" -> {"cmanager"}
      [] s = "~apic" -> {"apic"}
      [] s = "~mmanager" -> {"mmanager"}
      [] s = "~linker" -> {"linker"}
      [] s = "~heap" -> {"heap"}
      [] OTHER -> {}

Init ==
    /\ Exit!Init
    /\ machine \in [madt : BOOLEAN, modules : BOOLEAN]
    /\ pc = 1
    /\ up = {}
    /\ slept = 0
    /\ pending = {}
    /\ in_service = {}
    /\ stale = {}
    /\ panicked = FALSE

-----------------------------------------------------------------------------
(* The BSP. *)

(* The step is over, or found a slot empty and panicked. *)
Perform ==
    LET s == Steps[pc]
    IN  IF Needs(s) \subseteq up
        THEN /\ pc' = pc + 1
             /\ up' = (up \ Takes(s)) \cup Gives(s)
             /\ stale' = stale \cup {<<s, c>> : c \in Trusts(s) \ up}
             /\ UNCHANGED panicked
        ELSE /\ panicked' = TRUE
             /\ UNCHANGED <<pc, up, stale>>

(* Steps that take no time: all but the sleeps of start_core, the code of *)
(* kernel_main and the exit functions.  What was raised before the LAPIC   *)
(* was enabled is lost with it.                                            *)
Step ==
    /\ Steps[pc] \notin {"start_cores", "kernel_main", "__cxa_finalize", "finalizing", "terminated"}
    /\ ~panicked
    /\ Perform
    /\ pending' = IF At("lapic") THEN {} ELSE pending
    /\ UNCHANGED <<exit, machine, slept, in_service>>

(* CoreManager::init: a machine without a MADT has no cores to wait for. *)
StartCores ==
    /\ At("start_cores") /\ (machine.madt => slept = TICKS)
    /\ Perform
    /\ UNCHANGED <<exit, machine, devices>>

(* Global constructors and kernel_main register exit functions, and so    *)
(* does an exit function that runs.                                        *)
Register(f) ==
    /\ At("_init") \/ At("kernel_main") \/ At("finalizing")
    /\ Exit!__cxa_atexit(f)
    /\ UNCHANGED <<machine, pc, up, devices, stale, panicked>>

FinalizeOne(f) ==
    /\ At("kernel_main")
    /\ Exit!FinalizeOne(f)
    /\ UNCHANGED <<machine, pc, up, devices, stale, panicked>>

ExitFunctions ==
    /\ Exit!RunNext \/ Exit!RunMatching \/ Exit!CloseGaps \/ Exit!Return
    /\ UNCHANGED <<machine, pc, up, devices, stale, panicked>>

LeaveMain ==
    /\ At("kernel_main") /\ fin.kind = "none"
    /\ Perform
    /\ UNCHANGED <<exit, machine, devices>>

FinalizeAll ==
    /\ At("__cxa_finalize")
    /\ Exit!FinalizeAll
    /\ Perform
    /\ UNCHANGED <<machine, devices>>

AllDone ==
    /\ At("finalizing")
    /\ Exit!AllDone
    /\ Perform
    /\ UNCHANGED <<machine, devices>>

-----------------------------------------------------------------------------
(* The devices (external), and isr_handler. *)

(* The PIT ticks once it is programmed; other devices raise their lines at *)
(* any time.                                                               *)
Raise(l) ==
    /\ l \notin pending /\ (l = Timer => "pit::init" \in up)
    /\ pending' = pending \cup {l}
    /\ UNCHANGED <<exit, machine, pc, up, slept, in_service, stale, panicked>>

ViaPic == "pic::disable" \notin up
ViaApic == {"configure", "lapic"} \subseteq up /\ in_service = {}
Deliverable(l) == ~panicked /\ "if" \in up /\ l \in pending /\ (ViaPic \/ ViaApic)

(* what the processor needs to enter the interrupt gate of a vector *)
Gate == {"gdt::init_bsp", "idt::init"}

(* lapic.EOI(), to the LAPIC of the core the stack's anchor names, if any *)
EOI(l) == in_service' = IF "core" \in up \/ ViaPic THEN in_service ELSE in_service \cup {l}

(* isr_handler for an IRQ.  The gate has disabled interrupts, so it is one *)
(* step.  Line 0 counts a tick, wakes sleep_ticks and calls the scheduler  *)
(* by the pointer it registered; other lines have no handler.              *)
Interrupt(l) ==
    /\ Deliverable(l)
    /\ pending' = pending \ {l}
    /\ slept' = IF l = Timer /\ At("start_cores") /\ slept < TICKS THEN slept + 1 ELSE slept
    /\ stale' = IF l = Timer /\ "timer_tick" \in up /\ "scheduler" \notin up
                THEN stale \cup {<<"timer_tick", "scheduler">>} ELSE stale
    /\ EOI(l)
    /\ panicked' = ~(Gate \subseteq up)
    /\ UNCHANGED <<exit, machine, pc, up>>

Life == \/ Step \/ StartCores \/ LeaveMain \/ FinalizeAll \/ AllDone
        \/ ExitFunctions

Next ==
    \/ Life
    \/ \E f \in Funcs : Register(f) \/ FinalizeOne(f)
    \/ \E l \in Lines \cup {Timer} : Raise(l) \/ Interrupt(l)

Spec == Init /\ [][Next]_vars

(* The BSP runs (the kernel's task is scheduled again and again: module    *)
(* Scheduler), kernel_main returns however often it calls                  *)
(* __cxa_finalize(f), the PIT is periodic, and a deliverable interrupt is  *)
(* taken.                                                                  *)
FairSpec == /\ Spec
            /\ WF_vars(Life) /\ SF_vars(LeaveMain)
            /\ WF_vars(Raise(Timer)) /\ WF_vars(Interrupt(Timer))

-----------------------------------------------------------------------------
(* Properties *)

Terminated == Steps[pc] = "terminated"

TypeOK ==
    /\ pc \in DOMAIN Steps
    /\ slept \in 0 .. TICKS
    /\ pending \subseteq Lines \cup {Timer}
    /\ in_service \subseteq Lines \cup {Timer}
    /\ panicked \in BOOLEAN

(* Every step of the kernel's life finds what it uses: it panics only on a *)
(* machine without a MADT, in the first yield(), which has no core to run  *)
(* on (smp.hpp:171); and no pointer outlives what it points to, but for    *)
(* CoreManager::instance_, which the module manager's destructor follows   *)
(* after ~CoreManager (kernel.cpp:126-128).  A registered timer callback   *)
(* always has its scheduler.                                               *)
UsesOnlyWhatIsThere ==
    /\ TypeOK
    /\ panicked => Steps[pc] = "yield" /\ ~machine.madt
    /\ stale \subseteq {<<"~mmanager", "cmanager">>}
    /\ "timer_tick" \in up => "scheduler" \in up

(* Every interrupt that was delivered has been acknowledged to the LAPIC   *)
(* when its handler returns, so that no line blocks the others: the anchor *)
(* names the BSP's core before interrupts are enabled (kernel.cpp:85, 94;  *)
(* idt.cpp:84).                                                            *)
EveryInterruptIsAcknowledged == in_service = {}

(* The kernel comes up and goes down again: the ticks start_core sleeps    *)
(* for do arrive, and shutdown reaches its end.                            *)
LifeEnds == <>(IF machine.madt THEN Terminated ELSE panicked)

(* The exit functions, under the kernel's order of calls (module Atexit). *)
ExactlyOnce == Exit!ExactlyOnce
NewestFirst == Exit!NewestFirst
=============================================================================
