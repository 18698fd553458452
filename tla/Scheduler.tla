----------------------------- MODULE Scheduler -----------------------------
(***************************************************************************)
(* sched::Scheduler on the bootstrap processor: the task table, the round  *)
(* robin of schedule(), and the two interrupts that enter it (the PIT      *)
(* callback timer_tick and vector 48 of yield()).                          *)
(*                                                                         *)
(* Every operation runs with interrupts disabled on the one processor that *)
(* runs tasks, under the scheduler's lock, so each is one atomic action.   *)
(* The stack pointer is not part of the register file here: the interrupt  *)
(* return path (popa, then a same-privilege iret) does not restore it.     *)
(***************************************************************************)
EXTENDS TaskProgram

VARIABLES state,               \* TaskState of each slot, "FREE" if unoccupied
          ctx,                 \* Task::ctx of each slot
          live_count_,         \* StaticArray::live_count_ of tasks
          current_task_index,
          initialized,
          cpu,                 \* the registers of the running execution
          panicked             \* kstd::panic was reached; the kernel hangs

vars == <<state, ctx, live_count_, current_task_index, initialized, cpu, panicked>>

TaskState == {"READY", "RUNNING", "TERMINATED"}  \* BLOCKED is never assigned

Occupied(s) == state[s] # "FREE"

TypeOK == /\ state \in [Slots -> TaskState \cup {"FREE"}]
          /\ ctx \in [Slots -> Registers]
          /\ live_count_ \in 0 .. Capacity
          /\ current_task_index \in Slots
          /\ initialized \in BOOLEAN
          /\ cpu \in Registers
          /\ panicked \in BOOLEAN

Init == /\ state = [s \in Slots |-> "FREE"]
        /\ ctx = [s \in Slots |-> NewContext(s)]
        /\ live_count_ = 0
        /\ current_task_index = 0
        /\ initialized = FALSE
        /\ cpu = BootContext
        /\ panicked = FALSE
-----------------------------------------------------------------------------
(* The task table. *)

\* Mutant: the highest free slot.
IsFirstFree_Last(s) == /\ ~Occupied(s)
                       /\ \A t \in Slots : t > s => Occupied(t)

\* StaticArray::find_free_slot: the lowest unoccupied slot.
IsFirstFree(s) == /\ ~Occupied(s)
                  /\ \A t \in Slots : t < s => Occupied(t)

Full == \A s \in Slots : Occupied(s)

\* Scheduler::Scheduler, called by Kernel::init under an InterruptGuard.
Construct ==
    /\ cpu.pc = "init"
    /\ state' = [state EXCEPT ![Idle] = "READY"]
    /\ ctx' = [ctx EXCEPT ![Idle] = NewContext(Idle)]
    /\ live_count_' = live_count_ + 1
    /\ initialized' = TRUE
    /\ cpu' = [cpu EXCEPT !.pc = "yield"]
    /\ UNCHANGED <<current_task_index, panicked>>

\* create_task by the running execution.  A full table panics under the lock.
CreateTask ==
    /\ cpu.pc = "body" /\ cpu.exec # Idle
    /\ \/ \E s \in Slots :
            /\ IsFirstFree(s)
            /\ state' = [state EXCEPT ![s] = "READY"]
            /\ ctx' = [ctx EXCEPT ![s] = NewContext(s)]
            /\ live_count_' = live_count_ + 1
            /\ UNCHANGED panicked
       \/ Full /\ panicked' = TRUE /\ UNCHANGED <<state, ctx, live_count_>>
    /\ UNCHANGED <<current_task_index, initialized, cpu>>
-----------------------------------------------------------------------------
(* schedule(ctx), entered with the interrupted registers r. *)

\* Mutants: only one half of the test; the test negated in one half.
Died_EbpOnly(r) == r.ebp = "zero"
Died_WrongEbp(r) == r.eax = "magic" /\ r.ebp = "frame"

\* The magic word and a zero frame pointer: the task sits in Task::_die.
Died(r) == r.eax = "magic" /\ r.ebp = "zero"

\* Mutants: the interrupted task stays RUNNING; its context is not stored.
SaveCurrent_KeepsRunning(r) ==
    IF state[current_task_index] = "RUNNING" /\ Died(r)
    THEN <<[state EXCEPT ![current_task_index] = "TERMINATED"],
           [ctx EXCEPT ![current_task_index] = r]>>
    ELSE <<state, [ctx EXCEPT ![current_task_index] = r]>>

SaveCurrent_NoCopy(r) ==
    IF state[current_task_index] = "RUNNING"
    THEN <<[state EXCEPT ![current_task_index] =
                IF Died(r) THEN "TERMINATED" ELSE "READY"], ctx>>
    ELSE <<state, ctx>>

\* The slots after the interrupted context is stored: <<states, contexts>>.
SaveCurrent(r) ==
    IF state[current_task_index] = "RUNNING"
    THEN <<[state EXCEPT ![current_task_index] =
                IF Died(r) THEN "TERMINATED" ELSE "READY"],
           [ctx EXCEPT ![current_task_index] = r]>>
    ELSE <<state, ctx>>

\* Mutant: the search always starts at slot 0.
Distance_FromZero(i, j) == j

\* How many increments modulo the capacity lead from slot i to slot j; the
\* do-while loop looks at i itself last.
Distance(i, j) == IF j > i THEN j - i ELSE j - i + Capacity

\* The slot j at which the round robin that starts after slot i stops: the
\* nearest READY one, or i again after a full turn without any.
StopsAt(st, i, j) ==
    \/ /\ st[j] = "READY"
       /\ \A k \in Slots : st[k] = "READY" => Distance(i, j) <= Distance(i, k)
    \/ j = i /\ \A k \in Slots : st[k] # "READY"

\* Hand the processor to the chosen slot.  Without a READY task the current one
\* is marked RUNNING, whatever it was, and goes on with its registers.
Dispatch(st, cx, i, r) ==
    \E j \in Slots :
        /\ StopsAt(st, i, j)
        /\ state' = [st EXCEPT ![j] = IF st[j] = "FREE" THEN "FREE" ELSE "RUNNING"]
        /\ ctx' = cx
        /\ current_task_index' = j
        /\ cpu' = IF st[j] = "READY" THEN cx[j] ELSE r

\* The first call finds only "idle" and makes the interrupted boot context the
\* "kernel" task, in the first free slot.  The code then assumes that this was
\* slot 1 and starts the round robin after it.
FirstSchedule(r) ==
    /\ live_count_ <= 1
    /\ \E s \in Slots :
         /\ IsFirstFree(s)
         /\ Dispatch([state EXCEPT ![s] = "READY"], [ctx EXCEPT ![s] = r],
                     Kernel, r)
    /\ live_count_' = live_count_ + 1

LaterSchedule(r) ==
    /\ live_count_ > 1
    /\ Dispatch(SaveCurrent(r)[1], SaveCurrent(r)[2], current_task_index, r)
    /\ UNCHANGED live_count_

Schedule(r) == /\ initialized
               /\ live_count_ # 0
               /\ FirstSchedule(r) \/ LaterSchedule(r)
               /\ UNCHANGED <<initialized, panicked>>

\* The PIT callback.  Tasks run with interrupts enabled; ~Kernel does not.
TimerTick == cpu.pc # "down" /\ Schedule(cpu)

\* Scheduler::yield: `int 48` from the boot code or from a task.
Yield == /\ cpu.pc \in {"yield", "body"}
         /\ cpu.exec # Idle
         /\ Schedule(AfterYield(cpu))
-----------------------------------------------------------------------------
\* The running execution executes an instruction of its own.
Run == /\ \E r \in Instruction(cpu) : cpu' = r
       /\ UNCHANGED <<state, ctx, live_count_, current_task_index,
                      initialized, panicked>>

\* ~Kernel: __cli(), ~Scheduler, and the destruction of `tasks`.
Shutdown == /\ cpu.exec = Kernel /\ cpu.pc = "body"
            /\ cpu' = [cpu EXCEPT !.pc = "down"]
            /\ initialized' = FALSE
            /\ state' = [s \in Slots |-> "FREE"]
            /\ live_count_' = 0
            /\ UNCHANGED <<ctx, current_task_index, panicked>>

Next == /\ ~panicked
        /\ \/ Construct \/ CreateTask \/ TimerTick \/ Yield \/ Run \/ Shutdown

Spec == Init /\ [][Next]_vars
\* The PIT keeps interrupting, and whoever has the processor executes at least
\* one instruction of its time slice.
Fairness == /\ WF_vars(TimerTick /\ ~panicked)
            /\ \A e \in Slots : SF_vars(Run /\ cpu.exec = e /\ ~panicked)

FairSpec == Spec /\ Fairness
-----------------------------------------------------------------------------
(* Properties. *)

\* The first schedule() has run and the kernel has not been torn down.
Started == initialized /\ live_count_ >= 2

\* The task table and the processor agree.  Once tasks run, the slot that
\* current_task_index names is the only RUNNING one and the registers on the
\* processor are that task's; before and after, no slot is RUNNING.  schedule()
\* relies on it when it saves the interrupted frame into
\* tasks[current_task_index], and current_task() when it returns that slot.
CurrentIsRunning ==
    /\ \A s \in Slots : state[s] = "RUNNING" <=> Started /\ s = current_task_index
    /\ Started => cpu.exec = current_task_index
    /\ ~Started => cpu.exec = Kernel

\* "By design there are always two tasks": idle sits in slot 0 and is never
\* terminated, the boot context became the kernel task of slot 1, and is never
\* terminated either.  Hence the loop of schedule() always finds a READY task
\* and its fallback, which would revive even a TERMINATED task, is dead code.
TwoTasksByDesign ==
    Started => /\ state[Idle] \in {"READY", "RUNNING"}
               /\ state[Kernel] \in {"READY", "RUNNING"}
               /\ ctx[Idle].exec = Idle /\ ctx[Kernel].exec = Kernel

\* The magic-word protocol of Task::_die has neither false positives nor lost
\* work: a task is TERMINATED only with a context that spins in _die, whatever
\* the registers of other tasks contain, and it keeps that context.
OnlyFinishedTasksTerminate ==
    \A s \in Slots : state[s] = "TERMINATED" => ctx[s].exec = s /\ Finished(ctx[s])

\* The registers of every execution, wherever the scheduler keeps them.
VirtualCpu == [e \in Slots |-> IF cpu.exec = e THEN cpu
                               ELSE IF Occupied(e) THEN ctx[e] ELSE Absent]

\* Every task has the illusion of a processor of its own (module VirtualCpus).
VC == INSTANCE VirtualCpus WITH vcpu <- VirtualCpu

\* schedule() saves and restores contexts so that no execution loses, repeats
\* or receives an instruction of another one.
ImplementsVirtualCpus == VC!Spec

\* A terminated task never gets the processor back while the scheduler lives.
TerminatedIsFinal ==
    [][\A s \in Slots : state[s] = "TERMINATED" =>
           state'[s] = "TERMINATED" \/ ~initialized']_vars

\* Round robin starves nobody: every READY task gets the processor, unless the
\* kernel shuts down or panics first.
EveryReadyTaskRuns ==
    \A s \in Slots :
        state[s] = "READY" ~> state[s] = "RUNNING" \/ ~initialized \/ panicked

\* A task whose entry point has returned is reaped by a later schedule().
ReturnedTasksTerminate ==
    \A s \in Slots :
        cpu.exec = s /\ cpu.pc = "die"
            ~> state[s] = "TERMINATED" \/ ~initialized \/ panicked
=============================================================================
