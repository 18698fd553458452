---------------------------- MODULE VirtualCpus ----------------------------
(***************************************************************************)
(* What Scheduler promises to the code it runs: every task has a processor *)
(* of its own.  An execution's registers change only by its own            *)
(* instructions; switching, saving and restoring are invisible.            *)
(***************************************************************************)
EXTENDS TaskProgram

VARIABLE vcpu    \* vcpu[e]: the registers of execution e, if it exists

Init == vcpu = [e \in Slots |-> IF e = Kernel THEN BootContext ELSE Absent]

\* One execution runs one instruction.
Run(e) == \E r \in Instruction(vcpu[e]) : vcpu' = [vcpu EXCEPT ![e] = r]

\* One execution gives up its processor and later goes on where it stopped.
Yield(e) == /\ vcpu[e].pc \in {"yield", "body"}
            /\ vcpu' = [vcpu EXCEPT ![e] = AfterYield(vcpu[e])]

\* The scheduler comes up with its idle task; boot code goes on to yield.
Construct == /\ vcpu[Kernel].pc = "init"
             /\ vcpu' = [vcpu EXCEPT ![Kernel].pc = "yield",
                                     ![Idle] = NewContext(Idle)]

\* A running execution adds one.
Create(e) == /\ vcpu[e] = Absent
             /\ vcpu' = [vcpu EXCEPT ![e] = NewContext(e)]

\* The kernel execution shuts the others down.
Shutdown == /\ vcpu[Kernel].pc = "body"
            /\ vcpu' = [e \in Slots |->
                          IF e = Kernel THEN [vcpu[e] EXCEPT !.pc = "down"]
                                        ELSE Absent]

Next == \/ \E e \in Slots : Run(e) \/ Yield(e) \/ Create(e)
        \/ Construct
        \/ Shutdown

Spec == Init /\ [][Next]_vcpu
=============================================================================
