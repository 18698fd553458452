------------------------------ MODULE SmpBoot ------------------------------
(***************************************************************************)
(* CoreManager::init and the warm start of the application processors.     *)
(*                                                                         *)
(* The BSP starts the APs one after the other: it prepares a stack, stores *)
(* its top in smp_stack_top, and sends INIT and STARTUP up to three times, *)
(* each followed by a sleep of 20 ticks.  A started AP loads its stack     *)
(* from smp_stack_top whenever it gets there, learns from the stack's      *)
(* anchor which core it is, logs, and sets that core's `initialized`.      *)
(* A stack is named by the core whose anchor it carries, 0 is none.        *)
(***************************************************************************)
EXTENDS Integers

CONSTANT NumAPs

ASSUME SmpAssumption == NumAPs \in Nat

APs == 1 .. NumAPs
Attempts == 3
Nobody == -1
BSP == 0

VARIABLES needs,          \* the STARTUP each AP is the first to answer; a dead AP none
          bsp,            \* the BSP in start_core: [pc, core, attempt]
          anchored,       \* cores whose stack and anchor are prepared
          smp_stack_top,
          ap,             \* where each AP is
          esp,            \* the stack each AP runs on
          initialized,
          output_lock,    \* Log::output_lock
          slow            \* a sleep ended while the AP was starting (history)

vars == <<needs, bsp, anchored, smp_stack_top, ap, esp, initialized, output_lock, slow>>

Init == /\ needs \in [APs -> 1 .. Attempts + 1]
        /\ bsp = [pc |-> "begin", core |-> 1, attempt |-> 1]
        /\ anchored = {}
        /\ smp_stack_top = 0
        /\ ap = [c \in APs |-> "off"]
        /\ esp = [c \in APs |-> 0]
        /\ initialized = [c \in APs |-> FALSE]
        /\ output_lock = Nobody
        /\ slow = FALSE
-----------------------------------------------------------------------------
(* start_core on the BSP, for each AP of the table. *)

At(pc) == bsp.pc = pc /\ bsp.core \in APs
Goto(pc) == bsp' = [bsp EXCEPT !.pc = pc]
NextCore == bsp' = [pc |-> "begin", core |-> bsp.core + 1, attempt |-> 1]

\* The stack carries the Core it was made for.
init_stack_anchor(c) == anchored' = anchored \cup {c}

\* LOG_INFO; the lock is free again when the message is out.
Begin == /\ At("begin") /\ output_lock = Nobody
         /\ Goto("prepare")
         /\ UNCHANGED <<needs, anchored, smp_stack_top, ap, esp, initialized, output_lock, slow>>

\* Mutant: smp_stack_top still names the stack before.
Prepare_KeepTop == /\ At("prepare")
                   /\ init_stack_anchor(bsp.core)
                   /\ smp_stack_top' = IF smp_stack_top = 0 THEN bsp.core ELSE smp_stack_top
                   /\ Goto("init")
                   /\ UNCHANGED <<needs, ap, esp, initialized, output_lock, slow>>

Prepare == /\ At("prepare")
           /\ init_stack_anchor(bsp.core)
           /\ smp_stack_top' = bsp.core
           /\ Goto("init")
           /\ UNCHANGED <<needs, ap, esp, initialized, output_lock, slow>>

\* send_init_ipi resets the AP wherever it is; sleep_ticks(20).
SendInit == /\ At("init")
            /\ ap' = [ap EXCEPT ![bsp.core] = "wait"]
            /\ esp' = [esp EXCEPT ![bsp.core] = 0]
            /\ Goto("startup")
            /\ UNCHANGED <<needs, anchored, smp_stack_top, initialized, output_lock, slow>>

\* send_startup_ipi, then sleep_ticks(20).
SendStartup == /\ At("startup")
               /\ ap' = IF bsp.attempt < needs[bsp.core] THEN ap
                        ELSE [ap EXCEPT ![bsp.core] = "real mode"]
               /\ Goto("check")
               /\ UNCHANGED <<needs, anchored, smp_stack_top, esp, initialized, output_lock, slow>>

InStartUp(c) == ap[c] \in {"real mode", "warm start", "log", "logging", "logged"}

\* The flag after the sleep ends the attempts.
Check == /\ At("check")
         /\ slow' = (slow \/ InStartUp(bsp.core))
         /\ IF initialized[bsp.core] THEN NextCore
            ELSE Goto("retry")
         /\ UNCHANGED <<needs, anchored, smp_stack_top, ap, esp, initialized, output_lock>>

\* Mutant: one attempt too few.
Retry_OneLess == /\ At("retry") /\ output_lock = Nobody
                 /\ bsp' = IF bsp.attempt < Attempts - 1
                           THEN [bsp EXCEPT !.pc = "init", !.attempt = @ + 1]
                           ELSE [bsp EXCEPT !.pc = "failed"]
                 /\ UNCHANGED <<needs, anchored, smp_stack_top, ap, esp, initialized, output_lock, slow>>

\* LOG_WARN, and the next attempt if one is left.
Retry == /\ At("retry") /\ output_lock = Nobody
         /\ bsp' = IF bsp.attempt < Attempts
                   THEN [bsp EXCEPT !.pc = "init", !.attempt = @ + 1]
                   ELSE [bsp EXCEPT !.pc = "failed"]
         /\ UNCHANGED <<needs, anchored, smp_stack_top, ap, esp, initialized, output_lock, slow>>

\* "Failed to start core", unless the flag is set by now.
GiveUp == /\ At("failed")
          /\ initialized[bsp.core] \/ output_lock = Nobody
          /\ NextCore
          /\ UNCHANGED <<needs, anchored, smp_stack_top, ap, esp, initialized, output_lock, slow>>
-----------------------------------------------------------------------------
(* warm_start_16 and warm_start_32 on AP c, interrupts disabled. *)

apOnly == <<needs, bsp, anchored, smp_stack_top, slow>>

\* A processor knows itself by the anchor under its stack pointer.
current_core(c) == esp[c]

lock(c) == output_lock = Nobody /\ output_lock' = c
unlock == output_lock' = Nobody

LoadStack(c) == /\ ap[c] = "real mode"
                /\ esp' = [esp EXCEPT ![c] = smp_stack_top]
                /\ ap' = [ap EXCEPT ![c] = "warm start"]
                /\ UNCHANGED <<apOnly, initialized, output_lock>>

\* init_fpu, current_core, LAPIC::enable.
WarmStart(c) == /\ ap[c] = "warm start"
                /\ ap' = [ap EXCEPT ![c] = "log"]
                /\ UNCHANGED <<apOnly, esp, initialized, output_lock>>

LogBegin(c) == /\ ap[c] = "log"
               /\ lock(c)
               /\ ap' = [ap EXCEPT ![c] = "logging"]
               /\ UNCHANGED <<apOnly, esp, initialized>>

\* Mutant: the lock is not given back.
LogEnd_KeepLock(c) == /\ ap[c] = "logging"
                      /\ ap' = [ap EXCEPT ![c] = "logged"]
                      /\ UNCHANGED <<apOnly, esp, initialized, output_lock>>

LogEnd(c) == /\ ap[c] = "logging"
             /\ unlock
             /\ ap' = [ap EXCEPT ![c] = "logged"]
             /\ UNCHANGED <<apOnly, esp, initialized>>

\* The flag of the core the anchor names; then _pause with interrupts on.
MarkReady(c) == /\ ap[c] = "logged"
                /\ initialized' = [initialized EXCEPT ![current_core(c)] = TRUE]
                /\ ap' = [ap EXCEPT ![c] = "ready"]
                /\ UNCHANGED <<apOnly, esp, output_lock>>

BspStep == Begin \/ Prepare \/ SendInit \/ SendStartup \/ Check \/ Retry \/ GiveUp
ApStep(c) == LoadStack(c) \/ WarmStart(c) \/ LogBegin(c) \/ LogEnd(c) \/ MarkReady(c)

Done == bsp.core \notin APs

Next == BspStep \/ (\E c \in APs : ApStep(c))

Spec == Init /\ [][Next]_vars

\* The processors run independently; none stops for ever.
FairSpec == Spec /\ WF_vars(BspStep) /\ \A c \in APs : WF_vars(ApStep(c))
-----------------------------------------------------------------------------
(* Properties.  All but the anchor assume that an AP that starts at all is *)
(* through before the sleep after its STARTUP ends (~slow).                *)

TypeOK == /\ needs \in [APs -> 1 .. Attempts + 1]
          /\ bsp \in [pc : {"begin", "prepare", "init", "startup", "check", "retry", "failed"},
                      core : 1 .. NumAPs + 1, attempt : 1 .. Attempts]
          /\ anchored \subseteq APs
          /\ smp_stack_top \in 0 .. NumAPs
          /\ ap \in [APs -> {"off", "wait", "real mode", "warm start", "log", "logging", "logged", "ready"}]
          /\ esp \in [APs -> 0 .. NumAPs]
          /\ initialized \in [APs -> BOOLEAN]
          /\ output_lock \in {Nobody} \cup APs
          /\ slow \in BOOLEAN

\* Whenever an AP loads its stack, however late, the stack carries a filled
\* anchor, so current_core (smp.hpp:168) does not panic; and if it is in time it
\* is the stack made for it, so no two share one, and it knows itself by its own
\* Core (smp.hpp:247, smp_ll.cpp:13).
OwnStack ==
    /\ TypeOK
    /\ \A c \in APs : ap[c] \notin {"off", "wait", "real mode"} => esp[c] \in anchored
    /\ ~slow => \A c \in APs : esp[c] \in {0, c}

\* A core whose `initialized` is set is asleep with interrupts enabled, so it
\* will answer the shootdowns flush_remote_tlbs counts it for (vmm.cpp:26); and
\* when the BSP is through, exactly the processors that answer one of three
\* STARTUPs are initialized: no retry loses one (smp.hpp:250).
InitializedMeansUp ==
    ~slow => /\ \A c \in APs : initialized[c] => ap[c] = "ready"
             /\ Done => \A c \in APs : initialized[c] <=> needs[c] <= Attempts

\* Bring-up ends: the BSP never waits for a lock a reset AP has taken with it.
BringUpEnds == <>(Done \/ slow)
=============================================================================
