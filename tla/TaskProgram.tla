---------------------------- MODULE TaskProgram ----------------------------
(***************************************************************************)
(* What one execution of the kernel does between two interrupts, as far as *)
(* the scheduler can tell: the part of the register file it inspects (eax  *)
(* and ebp) and where in its life the execution is.                        *)
(*                                                                         *)
(* An execution is identified by the slot of Scheduler::tasks it lives in. *)
(* Slot 0 holds "idle"; slot 1 holds "kernel", whose execution exists      *)
(* before its Task does: it is the boot context of Kernel::init.           *)
(***************************************************************************)
EXTENDS Integers

CONSTANTS Capacity,  \* tasks.capacity(), 256 in the code
          Work       \* bound: instructions of a task body the model tells apart

ASSUME CapacityAssumption == Capacity \in Nat /\ Capacity >= 2
ASSUME WorkAssumption == Work \in Nat

Slots == 0 .. Capacity - 1
Idle == 0
Kernel == 1

\* eax: the entry point, the magic word of Task::_die, or anything else.
\* ebp: zeroed by _crt_task_entry and _die, a frame pointer everywhere else.
\* pc "yield" is Kernel::init between _sched.construct() and _sched->yield();
\* "down" is ~Kernel after __cli().
Registers == [exec : Slots,
              pc   : {"init", "yield", "entry", "body", "die", "down"},
              n    : 0 .. Work,
              eax  : {"entry", "other", "magic"},
              ebp  : {"zero", "frame"}]

\* The context a Task constructor prepares and create_task completes.
NewContext(e) ==
    [exec |-> e, pc |-> "entry", n |-> 0, eax |-> "entry", ebp |-> "zero"]

BootContext ==
    [exec |-> Kernel, pc |-> "init", n |-> 0, eax |-> "other", ebp |-> "frame"]

\* The registers of an execution that does not exist (yet, or any more).
Absent == [exec |-> 0, pc |-> "absent", n |-> 0, eax |-> "other", ebp |-> "zero"]

\* _crt_task_entry: switch to the task's frame chain and call the entry point.
EnterTask(r) == {[r EXCEPT !.pc = "body", !.eax = "other", !.ebp = "frame"]}

\* The task's own code; any value, the magic word included, may be in eax.
TaskBody(r) ==
    {[r EXCEPT !.n = r.n + 1, !.eax = a] : a \in {"other", "magic"}}

\* The entry point returns into _die, whose first instruction clears ebp ...
ReturnToDie(r) == {[r EXCEPT !.pc = "die", !.eax = "other", !.ebp = "zero"]}

\* ... and whose second one loads the magic word; then it spins.
LoadMagic(r) == {[r EXCEPT !.eax = "magic"]}

\* The register files an execution can have after its next instruction.  The
\* idle task spins, and the kernel task never returns from its main.
Instruction(r) ==
    UNION { IF r.pc = "entry" THEN EnterTask(r) ELSE {},
            IF r.pc = "body" /\ r.exec # Idle /\ r.n < Work
              THEN TaskBody(r) ELSE {},
            IF r.pc = "body" /\ r.exec \notin {Idle, Kernel}
              THEN ReturnToDie(r) ELSE {},
            IF r.pc = "die" /\ r.eax # "magic" THEN LoadMagic(r) ELSE {} }

\* The execution has finished: it spins in _die for ever.
Finished(r) == r.pc = "die" /\ r.eax = "magic"

\* Coming back from `int 48`.
AfterYield(r) == [r EXCEPT !.pc = "body"]
=============================================================================
