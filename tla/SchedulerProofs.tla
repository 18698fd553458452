-------------------------- MODULE SchedulerProofs --------------------------
(***************************************************************************)
(* Proofs about Scheduler, for every capacity of the task table.           *)
(*                                                                         *)
(* The table grows from slot 0 and never shrinks while the scheduler       *)
(* lives, so the occupied slots are exactly those below live_count_.  That *)
(* is what puts "kernel" in slot 1.  A register file can look terminated   *)
(* only inside Task::_die, where neither idle nor kernel ever is.          *)
(***************************************************************************)
EXTENDS Scheduler, TLAPS

\* The eax/ebp test of schedule() holds only for executions inside _die.
RegistersOK(r) ==
    /\ r \in Registers
    /\ r.ebp = "zero" => r.pc \in {"entry", "die"}
    /\ r.pc = "entry" => r.eax = "entry"
    /\ r.pc = "die" => r.exec # Idle /\ r.exec # Kernel
    /\ r.pc \in {"init", "yield", "down"} => r.exec = Kernel

\* Occupied slots form a prefix of the table and hold their own contexts.
TableOK ==
    /\ \A s \in Slots : Occupied(s) <=> s < live_count_
    /\ \A s \in Slots : Occupied(s) => /\ RegistersOK(ctx[s])
                                       /\ ctx[s].exec = s
                                       /\ ctx[s].pc \notin {"init", "down"}

\* The phases of Kernel::init and ~Kernel.
PhaseOK ==
    /\ initialized <=> live_count_ # 0
    /\ ~initialized <=> cpu.pc \in {"init", "down"}
    /\ live_count_ = 1 => cpu.pc = "yield" /\ cpu.exec = Kernel

\* The inductive invariant.
IInv == /\ TypeOK
        /\ TableOK
        /\ PhaseOK
        /\ RegistersOK(cpu)
        /\ CurrentIsRunning
        /\ TwoTasksByDesign
        /\ OnlyFinishedTasksTerminate

\* A fresh context is well formed.
LEMMA NewContextOK ==
  ASSUME NEW s \in Slots
  PROVE  RegistersOK(NewContext(s)) /\ NewContext(s).exec = s
BY CapacityAssumption, WorkAssumption
   DEF Slots, Idle, Kernel, RegistersOK, NewContext, Registers

LEMMA InitIInv == Init => IInv
<1> SUFFICES ASSUME Init PROVE IInv
  OBVIOUS
<1> USE CapacityAssumption, WorkAssumption DEF Slots, Idle, Kernel
<1>1. TypeOK
  <2>1. ctx \in [Slots -> Registers]
    BY NewContextOK DEF Init, RegistersOK
  <2>2. cpu \in Registers
    BY DEF Init, Registers, BootContext
  <2>3. state \in [Slots -> TaskState \cup {"FREE"}]
    BY DEF Init
  <2>4. live_count_ \in 0 .. Capacity /\ current_task_index \in Slots
    BY DEF Init
  <2>5. initialized \in BOOLEAN /\ panicked \in BOOLEAN
    BY Zenon DEF Init
  <2>6. QED
    BY <2>1, <2>2, <2>3, <2>4, <2>5, Zenon DEF TypeOK
<1>2. TableOK
  BY DEF Init, TableOK, Occupied
<1>3. PhaseOK /\ RegistersOK(cpu)
  BY DEF Init, PhaseOK, RegistersOK, BootContext, Registers
<1>4. CurrentIsRunning /\ TwoTasksByDesign /\ OnlyFinishedTasksTerminate
  BY DEF Init, CurrentIsRunning, TwoTasksByDesign, OnlyFinishedTasksTerminate,
         Started, BootContext
<1>5. QED
  BY <1>1, <1>2, <1>3, <1>4 DEF IInv

\* An instruction keeps the register file well formed and its owner.
LEMMA InstructionOK ==
  ASSUME NEW r, RegistersOK(r), NEW q \in Instruction(r)
  PROVE  /\ RegistersOK(q)
         /\ q.exec = r.exec
         /\ q.pc \in {"body", "die"}
         /\ r.pc \in {"entry", "body", "die"}
<1> USE CapacityAssumption, WorkAssumption
<1>1. CASE r.pc = "entry" /\ q \in EnterTask(r)
  BY <1>1 DEF RegistersOK, Registers, EnterTask
<1>2. CASE r.pc = "body" /\ r.exec # Idle /\ r.n < Work /\ q \in TaskBody(r)
  <2>1. PICK a \in {"other", "magic"} : q = [r EXCEPT !.n = r.n + 1, !.eax = a]
    BY <1>2 DEF TaskBody
  <2>2. r.n + 1 \in 0 .. Work
    BY <1>2 DEF RegistersOK, Registers
  <2>3. q \in Registers
    BY <2>1, <2>2 DEF RegistersOK, Registers
  <2>4. QED
    BY <1>2, <2>1, <2>3 DEF RegistersOK, Registers
<1>3. CASE r.pc = "body" /\ r.exec \notin {Idle, Kernel} /\ q \in ReturnToDie(r)
  BY <1>3 DEF RegistersOK, Registers, ReturnToDie
<1>4. CASE r.pc = "die" /\ r.eax # "magic" /\ q \in LoadMagic(r)
  BY <1>4 DEF RegistersOK, Registers, LoadMagic
<1>5. QED
  BY <1>1, <1>2, <1>3, <1>4 DEF Instruction

\* Switching to a chosen slot, from tables that already hold the interrupted
\* registers: what FirstSchedule and LaterSchedule have in common.
LEMMA DispatchOK ==
  ASSUME NEW st \in [Slots -> TaskState \cup {"FREE"}],
         NEW cx \in [Slots -> Registers],
         NEW i \in Slots, NEW r, NEW m \in 2 .. Capacity,
         \A s \in Slots : st[s] # "FREE" <=> s < m,
         \A s \in Slots : st[s] # "FREE" => /\ RegistersOK(cx[s])
                                            /\ cx[s].exec = s
                                            /\ cx[s].pc \notin {"init", "down"},
         \A s \in Slots : st[s] # "RUNNING",
         st[Idle] = "READY", st[Kernel] = "READY",
         \A s \in Slots : st[s] = "TERMINATED" => Finished(cx[s]),
         initialized' = TRUE, panicked' \in BOOLEAN,
         live_count_' = m,
         Dispatch(st, cx, i, r)
  PROVE  IInv'
<1> USE CapacityAssumption, WorkAssumption DEF Slots, Idle, Kernel
<1>1. PICK j \in Slots :
         /\ StopsAt(st, i, j)
         /\ state' = [st EXCEPT ![j] = IF st[j] = "FREE" THEN "FREE" ELSE "RUNNING"]
         /\ ctx' = cx
         /\ current_task_index' = j
         /\ cpu' = IF st[j] = "READY" THEN cx[j] ELSE r
  BY DEF Dispatch
<1>2. st[j] = "READY"
  BY <1>1 DEF StopsAt
<1>3. /\ state' = [st EXCEPT ![j] = "RUNNING"]
      /\ cpu' = cx[j]
  BY <1>1, <1>2
<1>4. TypeOK'
  <2>1. state' \in [Slots -> TaskState \cup {"FREE"}] /\ live_count_' \in 0 .. Capacity
    BY <1>3 DEF TaskState
  <2>2. initialized' \in BOOLEAN
    BY Zenon
  <2>3. ctx' \in [Slots -> Registers] /\ cpu' \in Registers /\ current_task_index' \in Slots
    BY <1>1, <1>3
  <2>4. QED
    BY <2>1, <2>2, <2>3, Zenon DEF TypeOK
<1>5. TableOK'
  BY <1>1, <1>2, <1>3 DEF TableOK, Occupied
<1>6. RegistersOK(cpu)' /\ cpu'.exec = j /\ cpu'.pc \notin {"init", "down"}
  BY <1>2, <1>3 DEF RegistersOK
<1>7. PhaseOK'
  BY <1>6 DEF PhaseOK
<1>8. CurrentIsRunning'
  BY <1>1, <1>3, <1>6 DEF CurrentIsRunning, Started, TaskState
<1>9. TwoTasksByDesign' /\ OnlyFinishedTasksTerminate'
  BY <1>1, <1>2, <1>3 DEF TwoTasksByDesign, OnlyFinishedTasksTerminate
<1>10. QED
  BY <1>4, <1>5, <1>6, <1>7, <1>8, <1>9 DEF IInv

\* Registers that schedule() is entered with.
Interrupted(r) == /\ RegistersOK(r)
                  /\ r.exec = cpu.exec
                  /\ r.pc \notin {"init", "down"}

\* The first schedule() puts the boot context into slot 1, next to idle.
LEMMA FirstScheduleOK ==
  ASSUME IInv, NEW r, Interrupted(r), initialized, live_count_ # 0,
         FirstSchedule(r), UNCHANGED <<initialized, panicked>>
  PROVE  IInv'
<1> USE CapacityAssumption, WorkAssumption DEF Slots, Idle, Kernel
<1>1. PICK s \in Slots :
         /\ IsFirstFree(s)
         /\ Dispatch([state EXCEPT ![s] = "READY"], [ctx EXCEPT ![s] = r], Kernel, r)
  BY DEF FirstSchedule
<1>2. live_count_ = 1 /\ live_count_' = 2
  BY DEF FirstSchedule, IInv, TypeOK
<1>3. s = Kernel
  BY <1>1, <1>2 DEF IsFirstFree, IInv, TableOK
<1>4. r.exec = Kernel
  BY <1>2 DEF Interrupted, IInv, PhaseOK
<1> DEFINE st == [state EXCEPT ![s] = "READY"]
           cx == [ctx EXCEPT ![s] = r]
<1>5. st \in [Slots -> TaskState \cup {"FREE"}] /\ cx \in [Slots -> Registers]
  BY DEF IInv, TypeOK, TaskState, Interrupted, RegistersOK
<1>6. \A t \in Slots : st[t] # "FREE" <=> t < 2
  BY <1>2, <1>3 DEF IInv, TableOK, TypeOK, Occupied
<1>7. \A t \in Slots : st[t] # "FREE" => /\ RegistersOK(cx[t])
                                         /\ cx[t].exec = t
                                         /\ cx[t].pc \notin {"init", "down"}
  <2> SUFFICES ASSUME NEW t \in Slots, st[t] # "FREE"
               PROVE  /\ RegistersOK(cx[t])
                      /\ cx[t].exec = t
                      /\ cx[t].pc \notin {"init", "down"}
    OBVIOUS
  <2>1. CASE t = s
    BY <2>1, <1>3, <1>4 DEF IInv, TypeOK, Interrupted
  <2>2. CASE t # s
    BY <2>2 DEF IInv, TypeOK, TableOK, Occupied
  <2>3. QED
    BY <2>1, <2>2
<1>8. \A t \in Slots : state[t] # "RUNNING" /\ state[t] # "TERMINATED"
  BY <1>2 DEF IInv, CurrentIsRunning, OnlyFinishedTasksTerminate, Started,
              Finished, TableOK, Occupied, RegistersOK
<1>9. st[Idle] = "READY" /\ st[Kernel] = "READY"
  BY <1>2, <1>3, <1>8 DEF IInv, TypeOK, TableOK, Occupied, TaskState
<1>10. \A t \in Slots : st[t] # "RUNNING" /\ st[t] # "TERMINATED"
  BY <1>8 DEF IInv, TypeOK
<1>11. initialized' = TRUE /\ panicked' \in BOOLEAN
  BY Zenon DEF IInv, TypeOK
<1>12. 2 \in 2 .. Capacity
  OBVIOUS
<1>13. Dispatch(st, cx, Kernel, r)
  BY <1>1
<1> HIDE DEF st, cx
<1>14. Kernel \in Slots
  OBVIOUS
<1>15. QED
  BY <1>2, <1>5, <1>6, <1>7, <1>9, <1>10, <1>11, <1>12, <1>13, <1>14, DispatchOK

\* Every later schedule() stores the interrupted registers in the slot of the
\* running task, which is READY again or, from inside _die, TERMINATED.
LEMMA LaterScheduleOK ==
  ASSUME IInv, NEW r, Interrupted(r), initialized,
         LaterSchedule(r), UNCHANGED <<initialized, panicked>>
  PROVE  IInv'
<1> USE CapacityAssumption, WorkAssumption DEF Slots, Idle, Kernel
<1> DEFINE c == current_task_index
           s1 == IF Died(r) THEN "TERMINATED" ELSE "READY"
           st == [state EXCEPT ![c] = s1]
           cx == [ctx EXCEPT ![c] = r]
<1>1. live_count_ \in 2 .. Capacity /\ live_count_' = live_count_
  BY DEF LaterSchedule, IInv, TypeOK
<1>2. Started
  BY <1>1 DEF Started
<1>3. state[c] = "RUNNING" /\ r.exec = c /\ c \in Slots
  BY <1>2 DEF IInv, TypeOK, CurrentIsRunning, Interrupted
<1>4. Dispatch(st, cx, c, r)
  BY <1>3 DEF LaterSchedule, SaveCurrent
<1>5. s1 \in {"READY", "TERMINATED"}
      /\ (s1 = "TERMINATED" => Finished(r) /\ c # Idle /\ c # Kernel)
  BY <1>3 DEF Died, Finished, Interrupted, RegistersOK
<1> HIDE DEF s1
<1>6. st \in [Slots -> TaskState \cup {"FREE"}] /\ cx \in [Slots -> Registers]
  BY <1>3, <1>5 DEF IInv, TypeOK, TaskState, Interrupted, RegistersOK
<1>7. \A t \in Slots : st[t] # "FREE" <=> t < live_count_
  BY <1>3, <1>5 DEF IInv, TableOK, TypeOK, Occupied
<1>8. \A t \in Slots : st[t] # "FREE" => /\ RegistersOK(cx[t])
                                         /\ cx[t].exec = t
                                         /\ cx[t].pc \notin {"init", "down"}
  <2> SUFFICES ASSUME NEW t \in Slots, st[t] # "FREE"
               PROVE  /\ RegistersOK(cx[t])
                      /\ cx[t].exec = t
                      /\ cx[t].pc \notin {"init", "down"}
    OBVIOUS
  <2>1. CASE t = c
    BY <2>1, <1>3 DEF IInv, TypeOK, Interrupted
  <2>2. CASE t # c
    BY <2>2 DEF IInv, TypeOK, TableOK, Occupied
  <2>3. QED
    BY <2>1, <2>2
<1>9. \A t \in Slots : st[t] # "RUNNING"
  BY <1>2, <1>3, <1>5 DEF IInv, TypeOK, CurrentIsRunning
<1>10. st[Idle] = "READY" /\ st[Kernel] = "READY"
  BY <1>2, <1>3, <1>5, <1>9 DEF IInv, TypeOK, TwoTasksByDesign
<1>11. \A t \in Slots : st[t] = "TERMINATED" => Finished(cx[t])
  BY <1>3, <1>5 DEF IInv, TypeOK, OnlyFinishedTasksTerminate
<1>12. initialized' = TRUE /\ panicked' \in BOOLEAN
  BY Zenon DEF IInv, TypeOK
<1> HIDE DEF st, cx
<1>13. QED
  BY <1>1, <1>3, <1>4, <1>6, <1>7, <1>8, <1>9, <1>10, <1>11, <1>12, DispatchOK

\* schedule() preserves the invariant whichever interrupt enters it.
LEMMA ScheduleOK ==
  ASSUME IInv, NEW r, Interrupted(r), Schedule(r)
  PROVE  IInv'
BY FirstScheduleOK, LaterScheduleOK DEF Schedule

LEMMA NextIInv == IInv /\ [Next]_vars => IInv'
<1> SUFFICES ASSUME IInv, [Next]_vars PROVE IInv'
  OBVIOUS
<1> USE CapacityAssumption, WorkAssumption DEF Slots, Idle, Kernel
<1>1. CASE Construct
  <2>1. /\ cpu.exec = Kernel /\ live_count_ = 0 /\ live_count_' = 1
        /\ cpu' = [cpu EXCEPT !.pc = "yield"]
    BY <1>1 DEF Construct, IInv, PhaseOK, RegistersOK
  <2>2. RegistersOK(cpu)' /\ cpu'.exec = Kernel /\ cpu'.pc = "yield"
    BY <1>1, <2>1 DEF Construct, IInv, RegistersOK, Registers
  <2>3. initialized' = TRUE /\ panicked' \in BOOLEAN
    BY <1>1, Zenon DEF Construct, IInv, TypeOK
  <2>4. /\ state' = [state EXCEPT ![Idle] = "READY"]
        /\ ctx' = [ctx EXCEPT ![Idle] = NewContext(Idle)]
        /\ UNCHANGED current_task_index
    BY <1>1 DEF Construct
  <2>5. \A s \in Slots : state[s] = "FREE"
    BY <2>1 DEF IInv, TypeOK, TableOK, Occupied
  <2>6. TypeOK'
    <3>1. state' \in [Slots -> TaskState \cup {"FREE"}]
      BY <2>4 DEF IInv, TypeOK, TaskState
    <3>2. NewContext(Idle) \in Registers
      BY NewContextOK DEF RegistersOK
    <3>3. ctx' \in [Slots -> Registers]
      BY <2>4, <3>2 DEF IInv, TypeOK
    <3>4. live_count_' \in 0 .. Capacity /\ current_task_index' \in Slots
      BY <2>1, <2>4 DEF IInv, TypeOK
    <3>5. QED
      BY <3>1, <3>3, <3>4, <2>2, <2>3, Zenon DEF TypeOK, RegistersOK
  <2>7. TableOK'
    <3>1. \A s \in Slots : Occupied(s)' <=> s = Idle
      BY <2>4, <2>5 DEF IInv, TypeOK, Occupied
    <3>2. NewContext(Idle).pc = "entry"
      BY DEF NewContext
    <3>3. QED
      BY <2>1, <2>4, <3>1, <3>2, NewContextOK DEF IInv, TypeOK, TableOK
  <2>8. PhaseOK'
    BY <2>1, <2>2, <2>3 DEF PhaseOK
  <2>9. CurrentIsRunning' /\ TwoTasksByDesign' /\ OnlyFinishedTasksTerminate'
    BY <2>1, <2>2, <2>4, <2>5
       DEF IInv, TypeOK, CurrentIsRunning, TwoTasksByDesign,
           OnlyFinishedTasksTerminate, Started
  <2>10. QED
    BY <2>2, <2>6, <2>7, <2>8, <2>9 DEF IInv
<1>2. CASE CreateTask
  <2>1. UNCHANGED <<current_task_index, initialized, cpu>> /\ panicked' \in BOOLEAN
    BY <1>2, Zenon DEF CreateTask, IInv, TypeOK
  <2>2. initialized /\ live_count_ >= 2
    BY <1>2 DEF CreateTask, IInv, PhaseOK, TypeOK
  <2>3. ASSUME NEW s \in Slots,
               IsFirstFree(s),
               state' = [state EXCEPT ![s] = "READY"],
               ctx' = [ctx EXCEPT ![s] = NewContext(s)],
               live_count_' = live_count_ + 1
        PROVE  IInv'
    <3>1. s = live_count_
      <4>1. s >= live_count_
        BY <2>3 DEF IsFirstFree, IInv, TableOK, TypeOK
      <4>2. \A t \in Slots : t < s => t < live_count_
        BY <2>3 DEF IsFirstFree, IInv, TableOK
      <4>3. live_count_ \in 0 .. Capacity
        BY DEF IInv, TypeOK
      <4>4. ~(s > live_count_)
        <5>1. SUFFICES ASSUME s > live_count_ PROVE FALSE
          OBVIOUS
        <5>2. live_count_ \in Slots
          BY <4>3, <5>1
        <5>3. QED
          BY <4>2, <4>3, <5>1, <5>2
      <4>5. QED
        BY <4>1, <4>3, <4>4
    <3>2. live_count_' \in 3 .. Capacity /\ s # Idle /\ s # Kernel
      BY <2>2, <2>3, <3>1
    <3>3. state[s] = "FREE"
      BY <2>3 DEF IsFirstFree, Occupied
    <3>4. TypeOK'
      <4>1. /\ state' \in [Slots -> TaskState \cup {"FREE"}]
            /\ ctx' \in [Slots -> Registers]
            /\ live_count_' \in 0 .. Capacity
        BY <2>3, <3>2, NewContextOK DEF IInv, TypeOK, TaskState, RegistersOK
      <4>2. QED
        BY <4>1, <2>1, Zenon DEF TypeOK, IInv
    <3>5. TableOK'
      <4>1. \A t \in Slots : Occupied(t)' <=> t < live_count_'
        BY <2>3, <3>1 DEF IInv, TypeOK, TableOK, Occupied
      <4>2. NewContext(s).pc = "entry"
        BY DEF NewContext
      <4>3. QED
        BY <2>3, <4>1, <4>2, NewContextOK DEF IInv, TypeOK, TableOK, Occupied
    <3>6. PhaseOK' /\ RegistersOK(cpu)'
      BY <2>1, <2>2, <3>2 DEF IInv, PhaseOK
    <3>7. CurrentIsRunning' /\ TwoTasksByDesign' /\ OnlyFinishedTasksTerminate'
      BY <2>1, <2>2, <2>3, <3>2, <3>3
         DEF IInv, TypeOK, CurrentIsRunning, TwoTasksByDesign,
             OnlyFinishedTasksTerminate, Started
    <3>8. QED
      BY <3>4, <3>5, <3>6, <3>7 DEF IInv
  <2>4. ASSUME UNCHANGED <<state, ctx, live_count_>>
        PROVE  IInv'
    BY <2>1, <2>4 DEF IInv, TypeOK, TableOK, Occupied, PhaseOK, RegistersOK, CurrentIsRunning,
              TwoTasksByDesign, OnlyFinishedTasksTerminate, Started
  <2>5. QED
    BY <1>2, <2>3, <2>4 DEF CreateTask
<1>3. CASE TimerTick
  <2>1. Interrupted(cpu)
    BY <1>3 DEF TimerTick, Schedule, Interrupted, IInv, PhaseOK
  <2>2. QED
    BY <1>3, <2>1, ScheduleOK DEF TimerTick
<1>4. CASE Yield
  <2>1. Interrupted(AfterYield(cpu))
    BY <1>4 DEF Yield, AfterYield, Interrupted, IInv, RegistersOK, Registers
  <2>2. QED
    BY <1>4, <2>1, ScheduleOK DEF Yield
<1>5. CASE Run
  <2>1. UNCHANGED <<state, ctx, live_count_, current_task_index, initialized, panicked>>
    BY <1>5 DEF Run
  <2>2. RegistersOK(cpu)' /\ cpu'.exec = cpu.exec /\ cpu'.pc \in {"body", "die"}
        /\ cpu.pc \in {"entry", "body", "die"}
    BY <1>5, InstructionOK DEF Run, IInv
  <2>3. TypeOK'
    BY <2>1, <2>2, Zenon DEF IInv, TypeOK, RegistersOK
  <2>4. PhaseOK'
    BY <2>1, <2>2 DEF IInv, PhaseOK
  <2>5. TableOK' /\ CurrentIsRunning' /\ TwoTasksByDesign' /\ OnlyFinishedTasksTerminate'
    BY <2>1, <2>2 DEF IInv, TableOK, Occupied, CurrentIsRunning, TwoTasksByDesign,
                      OnlyFinishedTasksTerminate, Started
  <2>6. QED
    BY <2>2, <2>3, <2>4, <2>5 DEF IInv
<1>6. CASE Shutdown
  <2>1. RegistersOK(cpu)' /\ cpu'.exec = Kernel /\ cpu'.pc = "down"
    BY <1>6 DEF Shutdown, IInv, RegistersOK, Registers
  <2>2. initialized' = FALSE /\ panicked' \in BOOLEAN
    BY <1>6, Zenon DEF Shutdown, IInv, TypeOK
  <2>3. /\ state' = [s \in Slots |-> "FREE"] /\ live_count_' = 0
        /\ UNCHANGED <<ctx, current_task_index>>
    BY <1>6 DEF Shutdown
  <2>4. TypeOK'
    <3>1. state' \in [Slots -> TaskState \cup {"FREE"}] /\ live_count_' \in 0 .. Capacity
      BY <2>3
    <3>2. QED
      BY <3>1, <2>1, <2>2, <2>3, Zenon DEF IInv, TypeOK, RegistersOK
  <2>5. TableOK' /\ PhaseOK'
    BY <2>1, <2>2, <2>3 DEF TableOK, PhaseOK, Occupied
  <2>6. CurrentIsRunning' /\ TwoTasksByDesign' /\ OnlyFinishedTasksTerminate'
    BY <2>1, <2>2, <2>3 DEF CurrentIsRunning, TwoTasksByDesign,
                            OnlyFinishedTasksTerminate, Started
  <2>7. QED
    BY <2>1, <2>4, <2>5, <2>6 DEF IInv
<1>7. CASE UNCHANGED vars
  BY <1>7 DEF vars, IInv, TypeOK, TableOK, Occupied, PhaseOK, RegistersOK, CurrentIsRunning,
              TwoTasksByDesign, OnlyFinishedTasksTerminate, Started
<1>8. QED
  BY <1>1, <1>2, <1>3, <1>4, <1>5, <1>6, <1>7 DEF Next

\* The inductive invariant holds in every reachable state.
LEMMA AlwaysIInv == Spec => []IInv
BY InitIInv, NextIInv, PTL DEF Spec

\* Every variable of the scheduler keeps its type; in particular live_count_
\* never exceeds the capacity of the task table.
THEOREM TypeCorrect == Spec => []TypeOK
<1>1. IInv => TypeOK
  BY DEF IInv
<1>2. QED
  BY <1>1, AlwaysIInv, PTL

\* schedule() always finds the interrupted task in tasks[current_task_index].
THEOREM CurrentTaskIsTheRunningOne == Spec => []CurrentIsRunning
<1>1. IInv => CurrentIsRunning
  BY DEF IInv
<1>2. QED
  BY <1>1, AlwaysIInv, PTL

\* The comment of schedule(): idle and kernel are always there, in slots 0 and
\* 1, and the loop never falls through.
THEOREM IdleAndKernelAlwaysExist == Spec => []TwoTasksByDesign
<1>1. IInv => TwoTasksByDesign
  BY DEF IInv
<1>2. QED
  BY <1>1, AlwaysIInv, PTL

\* The magic-word test terminates exactly tasks that spin in Task::_die.
THEOREM TerminationIsSound == Spec => []OnlyFinishedTasksTerminate
<1>1. IInv => OnlyFinishedTasksTerminate
  BY DEF IInv
<1>2. QED
  BY <1>1, AlwaysIInv, PTL

\* Whatever task schedule() dispatches, to the executions it only stores r as
\* the registers of the interrupted one; and it revives no terminated task.
LEMMA SwitchIsInvisible ==
  ASSUME IInv, NEW r, Interrupted(r), Schedule(r)
  PROVE  /\ VirtualCpu' = [VirtualCpu EXCEPT ![cpu.exec] = r]
         /\ \A s \in Slots : state[s] = "TERMINATED" => state'[s] = "TERMINATED"
<1> USE CapacityAssumption, WorkAssumption DEF Slots, Idle, Kernel
<1>1. ASSUME NEW st \in [Slots -> TaskState \cup {"FREE"}],
             NEW c \in Slots, NEW i \in Slots,
             c = cpu.exec,
             \A s \in Slots : s # c => st[s] = state[s] ,
             st[c] # "FREE", state[c] # "TERMINATED",
             \E s \in Slots : st[s] = "READY",
             \A s \in Slots : st[s] # "FREE" =>
                                 [ctx EXCEPT ![c] = r][s].exec = s,
             Dispatch(st, [ctx EXCEPT ![c] = r], i, r)
      PROVE  /\ VirtualCpu' = [VirtualCpu EXCEPT ![cpu.exec] = r]
             /\ \A s \in Slots : state[s] = "TERMINATED" => state'[s] = "TERMINATED"
  <2> DEFINE cx == [ctx EXCEPT ![c] = r]
  <2>1. PICK j \in Slots :
           /\ StopsAt(st, i, j)
           /\ state' = [st EXCEPT ![j] = IF st[j] = "FREE" THEN "FREE" ELSE "RUNNING"]
           /\ ctx' = cx
           /\ cpu' = IF st[j] = "READY" THEN cx[j] ELSE r
    BY <1>1 DEF Dispatch
  <2>2. st[j] = "READY"
    BY <1>1, <2>1 DEF StopsAt
  <2>3. cpu' = cx[j] /\ cpu'.exec = j /\ state' = [st EXCEPT ![j] = "RUNNING"]
    BY <1>1, <2>1, <2>2
  <2>4. ctx \in [Slots -> Registers]
    BY DEF IInv, TypeOK
  <2>5. ASSUME NEW e \in Slots
        PROVE  VirtualCpu'[e] = [VirtualCpu EXCEPT ![cpu.exec] = r][e]
    <3>1. VirtualCpu'[e] = IF st[e] # "FREE" THEN cx[e] ELSE Absent
      BY <1>1, <2>1, <2>2, <2>3 DEF VirtualCpu, Occupied
    <3>2. CASE e = c
      BY <1>1, <2>4, <3>1, <3>2 DEF VirtualCpu
    <3>3. CASE e # c
      BY <1>1, <2>4, <3>1, <3>3 DEF VirtualCpu, Occupied
    <3>4. QED
      BY <3>2, <3>3
  <2>6. VirtualCpu' = [e \in Slots |-> VirtualCpu'[e]]
    BY DEF VirtualCpu
  <2>7. [VirtualCpu EXCEPT ![cpu.exec] = r]
          = [e \in Slots |-> [VirtualCpu EXCEPT ![cpu.exec] = r][e]]
    BY DEF VirtualCpu
  <2>8. VirtualCpu' = [VirtualCpu EXCEPT ![cpu.exec] = r]
    BY <2>5, <2>6, <2>7
  <2>9. \A s \in Slots : state[s] = "TERMINATED" => state'[s] = "TERMINATED"
    BY <1>1, <2>2, <2>3
  <2>10. QED
    BY <2>8, <2>9
<1>2. CASE FirstSchedule(r)
  <2>1. PICK s \in Slots :
         /\ IsFirstFree(s)
         /\ Dispatch([state EXCEPT ![s] = "READY"], [ctx EXCEPT ![s] = r], Kernel, r)
    BY <1>2 DEF FirstSchedule
  <2>2. live_count_ = 1
    BY <1>2 DEF FirstSchedule, Schedule, IInv, TypeOK
  <2>3. s = Kernel /\ state[s] = "FREE"
    BY <2>1, <2>2 DEF IsFirstFree, IInv, TableOK, Occupied
  <2>4. cpu.exec = Kernel
    BY <2>2 DEF IInv, PhaseOK
  <2> DEFINE st == [state EXCEPT ![s] = "READY"]
  <2>5. st \in [Slots -> TaskState \cup {"FREE"}] /\ st[s] = "READY"
    BY DEF IInv, TypeOK, TaskState
  <2>6. \A t \in Slots : t # s => st[t] = state[t]
    BY DEF IInv, TypeOK
  <2>7. \A t \in Slots : st[t] # "FREE" => [ctx EXCEPT ![s] = r][t].exec = t
    BY <2>3, <2>4, <2>6 DEF IInv, TypeOK, TableOK, Occupied, Interrupted
  <2> HIDE DEF st
  <2>8. Dispatch(st, [ctx EXCEPT ![s] = r], Kernel, r)
    BY <2>1 DEF st
  <2>9. Kernel \in Slots /\ s = cpu.exec /\ st[s] # "FREE" /\ state[s] # "TERMINATED"
    BY <2>3, <2>4, <2>5
  <2>10. \E t \in Slots : st[t] = "READY"
    BY <2>5
  <2> HIDE DEF Slots, Idle, Kernel
  <2>11. QED
    BY <1>1, <2>5, <2>6, <2>7, <2>8, <2>9, <2>10, ZenonT(60)
<1>3. CASE LaterSchedule(r)
  <2> DEFINE c == current_task_index
             s1 == IF Died(r) THEN "TERMINATED" ELSE "READY"
             st == [state EXCEPT ![c] = s1]
  <2>1. Started
    BY <1>3 DEF LaterSchedule, Schedule, Started, IInv, TypeOK
  <2>2. state[c] = "RUNNING" /\ r.exec = c /\ c \in Slots /\ cpu.exec = c
    BY <2>1 DEF IInv, TypeOK, CurrentIsRunning, Interrupted
  <2>3. Dispatch(st, [ctx EXCEPT ![c] = r], c, r)
    BY <1>3, <2>2 DEF LaterSchedule, SaveCurrent
  <2>4. s1 \in {"READY", "TERMINATED"} /\ (s1 = "TERMINATED" => c # Idle)
    BY <2>2 DEF Died, Interrupted, RegistersOK
  <2> HIDE DEF s1
  <2>5. st \in [Slots -> TaskState \cup {"FREE"}] /\ st[c] # "FREE"
    BY <2>2, <2>4 DEF IInv, TypeOK, TaskState
  <2>6. \A t \in Slots : t # c => st[t] = state[t]
    BY DEF IInv, TypeOK
  <2>7. \A t \in Slots : st[t] # "FREE" => [ctx EXCEPT ![c] = r][t].exec = t
    BY <2>2, <2>6 DEF IInv, TypeOK, TableOK, Occupied
  <2>8. \E s \in Slots : st[s] = "READY"
    <3>1. st[Idle] = "READY"
      BY <2>1, <2>2, <2>4 DEF IInv, TypeOK, TwoTasksByDesign, CurrentIsRunning
    <3>2. QED
      BY <3>1
  <2> HIDE DEF st
  <2>9. state[c] # "TERMINATED" /\ c = cpu.exec /\ c \in Slots
    BY <2>2
  <2> HIDE DEF Slots, Idle, Kernel
  <2>10. QED
    BY <1>1, <2>3, <2>5, <2>6, <2>7, <2>8, <2>9, ZenonT(60)
<1>4. QED
  BY <1>2, <1>3 DEF Schedule

\* A terminated task stays terminated until ~Scheduler destroys the table.
THEOREM TerminatedNeverRunsAgain == Spec => TerminatedIsFinal
<1> DEFINE Step == \A s \in Slots : state[s] = "TERMINATED" =>
                       state'[s] = "TERMINATED" \/ ~initialized'
<1>1. IInv /\ [Next]_vars => [Step]_vars
  <2> SUFFICES ASSUME IInv, Next PROVE Step
    BY DEF vars
  <2>1. CASE Construct
    BY <2>1 DEF Construct, IInv, TypeOK, PhaseOK, TableOK, Occupied, Slots,
                OnlyFinishedTasksTerminate, RegistersOK, Registers, Finished
  <2>2. CASE CreateTask
    BY <2>2 DEF CreateTask, IsFirstFree, Occupied, IInv, TypeOK
  <2>3. CASE TimerTick
    <3>1. Interrupted(cpu)
      BY <2>3 DEF TimerTick, Schedule, Interrupted, IInv, PhaseOK
    <3>2. QED
      BY <2>3, <3>1, SwitchIsInvisible DEF TimerTick
  <2>4. CASE Yield
    <3>1. Interrupted(AfterYield(cpu))
      BY <2>4, CapacityAssumption
         DEF Yield, AfterYield, Interrupted, IInv, RegistersOK, Registers, Idle, Kernel, Slots
    <3>2. QED
      BY <2>4, <3>1, SwitchIsInvisible DEF Yield
  <2>5. CASE Run
    BY <2>5 DEF Run
  <2>6. CASE Shutdown
    BY <2>6 DEF Shutdown
  <2>7. QED
    BY <2>1, <2>2, <2>3, <2>4, <2>5, <2>6 DEF Next
<1>2. QED
  BY <1>1, AlwaysIInv, PTL DEF Spec, TerminatedIsFinal

\* Two updates of a function that is constant but for one argument.
LEMMA TwoUpdates ==
  ASSUME NEW S, NEW x, NEW y, NEW a, NEW b, NEW k \in S, NEW i \in S, k # i
  PROVE  [[e \in S |-> IF e = k THEN x ELSE y] EXCEPT ![k] = a, ![i] = b]
           = [e \in S |-> IF e = k THEN a ELSE IF e = i THEN b ELSE y]
OBVIOUS

\* The scheduler gives every task a processor of its own: its steps are, for
\* the executions, single instructions, yields, creations, the shutdown, or
\* nothing at all.
THEOREM SchedulerImplementsVirtualCpus == Spec => ImplementsVirtualCpus
<1> USE CapacityAssumption, WorkAssumption DEF Slots, Idle, Kernel, VC!Slots, VC!Idle, VC!Kernel
<1>1. Init => VC!Init
  BY DEF Init, VC!Init, VirtualCpu, Occupied, BootContext, Absent,
         VC!BootContext, VC!Absent
<1>2. IInv /\ [Next]_vars => [VC!Next]_VirtualCpu
  <2> SUFFICES ASSUME IInv, [Next]_vars PROVE [VC!Next]_VirtualCpu
    OBVIOUS
  <2>1. CASE Construct
    <3>1. /\ cpu.exec = Kernel /\ cpu.pc = "init" /\ cpu \in Registers
          /\ cpu' = [cpu EXCEPT !.pc = "yield"]
          /\ state' = [state EXCEPT ![Idle] = "READY"]
          /\ ctx' = [ctx EXCEPT ![Idle] = NewContext(Idle)]
      BY <2>1 DEF Construct, IInv, RegistersOK
    <3>2. cpu'.exec = Kernel
      BY <3>1 DEF Registers
    <3>3. \A s \in Slots : state[s] = "FREE"
      BY <2>1 DEF Construct, IInv, PhaseOK, TypeOK, TableOK, Occupied
    <3>4. /\ VirtualCpu[Kernel] = cpu
          /\ VirtualCpu' = [VirtualCpu EXCEPT ![Kernel] = [cpu EXCEPT !.pc = "yield"],
                                              ![Idle] = NewContext(Idle)]
      <4>1. state \in [Slots -> TaskState \cup {"FREE"}] /\ ctx \in [Slots -> Registers]
        BY DEF IInv, TypeOK
      <4>2. VirtualCpu = [e \in Slots |-> IF e = Kernel THEN cpu ELSE Absent]
        BY <3>1, <3>3 DEF VirtualCpu, Occupied
      <4>3. VirtualCpu' = [e \in Slots |-> IF e = Kernel THEN [cpu EXCEPT !.pc = "yield"]
                                           ELSE IF e = Idle THEN NewContext(Idle)
                                           ELSE Absent]
        BY <3>1, <3>2, <3>3, <4>1 DEF VirtualCpu, Occupied
      <4>4. Kernel \in Slots /\ Idle \in Slots /\ Kernel # Idle
        OBVIOUS
      <4>5. VirtualCpu[Kernel] = cpu
        BY <4>2, <4>4
      <4>6. QED
        BY <4>2, <4>3, <4>4, <4>5, TwoUpdates
    <3>5. VC!Construct
      BY <3>1, <3>4 DEF VC!Construct, VC!NewContext, NewContext
    <3>6. QED
      BY <3>5 DEF VC!Next
  <2>2. CASE CreateTask
    <3>1. Started
      BY <2>2 DEF CreateTask, IInv, PhaseOK, TypeOK, Started
    <3>2. ASSUME NEW s \in Slots, IsFirstFree(s),
                 state' = [state EXCEPT ![s] = "READY"],
                 ctx' = [ctx EXCEPT ![s] = NewContext(s)]
          PROVE  VC!Create(s)
      <4>1. state[s] = "FREE" /\ cpu.exec # s /\ UNCHANGED cpu
        BY <2>2, <3>1, <3>2 DEF CreateTask, IsFirstFree, Occupied, IInv, CurrentIsRunning
      <4>2. VirtualCpu[s] = Absent
        BY <4>1 DEF VirtualCpu, Occupied
      <4>3. VirtualCpu' = [VirtualCpu EXCEPT ![s] = NewContext(s)]
        BY <3>2, <4>1 DEF VirtualCpu, Occupied, IInv, TypeOK
      <4>4. QED
        BY <4>2, <4>3 DEF VC!Create, VC!Absent, Absent, VC!NewContext, NewContext
    <3>3. ASSUME UNCHANGED <<state, ctx>>
          PROVE  UNCHANGED VirtualCpu
      BY <2>2, <3>3 DEF CreateTask, VirtualCpu, Occupied
    <3>4. QED
      BY <2>2, <3>2, <3>3 DEF CreateTask, VC!Next
  <2>3. CASE TimerTick
    <3>1. Interrupted(cpu)
      BY <2>3 DEF TimerTick, Schedule, Interrupted, IInv, PhaseOK
    <3>2. VirtualCpu' = [VirtualCpu EXCEPT ![cpu.exec] = cpu]
      BY <2>3, <3>1, SwitchIsInvisible DEF TimerTick
    <3>3. UNCHANGED VirtualCpu
      BY <3>2 DEF VirtualCpu
    <3>4. QED
      BY <3>3
  <2>4. CASE Yield
    <3>1. Interrupted(AfterYield(cpu))
      BY <2>4 DEF Yield, AfterYield, Interrupted, IInv, RegistersOK, Registers
    <3>2. VirtualCpu' = [VirtualCpu EXCEPT ![cpu.exec] = AfterYield(cpu)]
      BY <2>4, <3>1, SwitchIsInvisible DEF Yield
    <3>3. cpu.exec \in Slots /\ VirtualCpu[cpu.exec] = cpu
      BY DEF VirtualCpu, IInv, TypeOK, Registers
    <3>4. VC!Yield(cpu.exec)
      BY <2>4, <3>2, <3>3 DEF Yield, VC!Yield, VC!AfterYield, AfterYield
    <3>5. QED
      BY <3>3, <3>4 DEF VC!Next
  <2>5. CASE Run
    <3>1. PICK r \in Instruction(cpu) : cpu' = r
      BY <2>5 DEF Run
    <3>2. r.exec = cpu.exec /\ cpu.exec \in Slots
      BY <3>1, InstructionOK DEF IInv, RegistersOK, Registers
    <3>3. VirtualCpu[cpu.exec] = cpu
      BY <3>2 DEF VirtualCpu
    <3>4. VirtualCpu' = [VirtualCpu EXCEPT ![cpu.exec] = r]
      BY <2>5, <3>1, <3>2 DEF Run, VirtualCpu, Occupied
    <3>5. VC!Instruction(cpu) = Instruction(cpu)
      <4>1. /\ VC!EnterTask(cpu) = EnterTask(cpu)
            /\ VC!TaskBody(cpu) = TaskBody(cpu)
            /\ VC!ReturnToDie(cpu) = ReturnToDie(cpu)
            /\ VC!LoadMagic(cpu) = LoadMagic(cpu)
        BY Zenon DEF VC!EnterTask, EnterTask, VC!TaskBody, TaskBody, VC!ReturnToDie,
               ReturnToDie, VC!LoadMagic, LoadMagic
      <4>2. QED
        BY <4>1, Zenon DEF VC!Instruction, Instruction
    <3>6. VC!Run(cpu.exec)
      BY <3>1, <3>3, <3>4, <3>5 DEF VC!Run
    <3>7. QED
      BY <3>2, <3>6 DEF VC!Next
  <2>6. CASE Shutdown
    <3>1. /\ cpu.exec = Kernel /\ cpu.pc = "body" /\ cpu \in Registers
          /\ cpu' = [cpu EXCEPT !.pc = "down"]
          /\ state' = [s \in Slots |-> "FREE"]
      BY <2>6 DEF Shutdown, IInv, TypeOK
    <3>2. cpu'.exec = Kernel
      BY <3>1 DEF Registers
    <3>3. VirtualCpu[Kernel] = cpu
      BY <3>1 DEF VirtualCpu
    <3>4. VirtualCpu' = [e \in Slots |-> IF e = Kernel THEN [cpu EXCEPT !.pc = "down"]
                                                       ELSE Absent]
      BY <3>1, <3>2 DEF VirtualCpu, Occupied
    <3>5. VC!Shutdown
      BY <3>1, <3>3, <3>4 DEF VC!Shutdown, VC!Absent, Absent
    <3>6. QED
      BY <3>5 DEF VC!Next
  <2>7. CASE UNCHANGED vars
    BY <2>7 DEF vars, VirtualCpu, Occupied
  <2>8. QED
    BY <2>1, <2>2, <2>3, <2>4, <2>5, <2>6, <2>7 DEF Next
<1>3. QED
  BY <1>1, <1>2, AlwaysIInv, PTL DEF Spec, ImplementsVirtualCpus, VC!Spec
=============================================================================
