------------------------------- MODULE Atexit -------------------------------
(***************************************************************************)
(* The table of exit functions (icxxabi.cpp): __cxa_atexit fills it,       *)
(* __cxa_finalize(0) runs all of it from Kernel::~Kernel, __cxa_finalize(f)*)
(* runs the entries of one function and closes the gaps.  An exit function *)
(* may register further ones while it runs.  The obj_ptr of an entry is    *)
(* the number of its registration, which makes entries distinguishable.    *)
(***************************************************************************)
EXTENDS Integers, Sequences, FiniteSets

CONSTANTS
    Funcs,              \* destructor functions
    ATEXIT_MAX_FUNCS,   \* 128 in the code
    MaxRegistrations    \* bound on registrations in a behaviour

VARIABLES
    funcs,      \* __atexit_funcs, indexed from 0: [f, obj]
    count,      \* __atexit_func_count
    serial,     \* registrations so far; the next one is serial + 1
    refused,    \* those the full table turned away
    dropped,    \* those made while __cxa_finalize(0) was at work
    ran,        \* the registrations run so far, in order
    fin         \* the __cxa_finalize in progress: its loop index, whether an
                \* exit function runs, and serial when it began

vars == <<funcs, count, serial, refused, dropped, ran, fin>>

NoFunc == "nullptr"
Empty == [f |-> NoFunc, obj |-> 0]
Slots == 0 .. ATEXIT_MAX_FUNCS - 1
Idle == [kind |-> "none", f |-> NoFunc, i |-> 0, running |-> FALSE, since |-> 0]

Init ==
    /\ funcs = [s \in Slots |-> Empty]
    /\ count = 0 /\ serial = 0
    /\ refused = {} /\ dropped = {}
    /\ ran = <<>>
    /\ fin = Idle

(* the test __atexit_func_count >= ATEXIT_MAX_FUNCS fails *)
HasRoom == count < ATEXIT_MAX_FUNCS

(* __cxa_atexit, from ordinary code or from an exit function that runs *)
__cxa_atexit(f) ==
    /\ fin.kind = "none" \/ fin.running
    /\ serial < MaxRegistrations
    /\ serial' = serial + 1
    /\ IF HasRoom
       THEN /\ funcs' = [funcs EXCEPT ![count] = [f |-> f, obj |-> serial + 1]]
            /\ count' = count + 1
            /\ dropped' = IF fin.kind = "all" THEN dropped \cup {serial + 1} ELSE dropped
            /\ UNCHANGED refused
       ELSE /\ refused' = refused \cup {serial + 1}
            /\ UNCHANGED <<funcs, count, dropped>>
    /\ UNCHANGED <<ran, fin>>

-----------------------------------------------------------------------------
(* __cxa_finalize(0) *)

FinalizeAll ==
    /\ fin.kind = "none"
    /\ fin' = [kind |-> "all", f |-> NoFunc, i |-> count, running |-> FALSE, since |-> serial]
    /\ UNCHANGED <<funcs, count, serial, refused, dropped, ran>>

(* One turn of while (i--): take the entry, clear it, call it. *)
RunNext ==
    /\ fin.kind = "all" /\ ~fin.running /\ fin.i > 0
    /\ LET e == funcs[fin.i - 1]
       IN  /\ ran' = IF e.f = NoFunc THEN ran ELSE Append(ran, e.obj)
           /\ fin' = [fin EXCEPT !.i = @ - 1, !.running = e.f # NoFunc]
    /\ funcs' = [funcs EXCEPT ![fin.i - 1] = Empty]
    /\ UNCHANGED <<count, serial, refused, dropped>>

AllDone ==
    /\ fin.kind = "all" /\ ~fin.running /\ fin.i = 0
    /\ count' = 0
    /\ fin' = Idle
    /\ UNCHANGED <<funcs, serial, refused, dropped, ran>>

(* The exit function returns. *)
Return ==
    /\ fin.running
    /\ fin' = [fin EXCEPT !.running = FALSE]
    /\ UNCHANGED <<funcs, count, serial, refused, dropped, ran>>

-----------------------------------------------------------------------------
(* __cxa_finalize(f) *)

FinalizeOne(f) ==
    /\ fin.kind = "none"
    /\ fin' = [kind |-> "one", f |-> f, i |-> count, running |-> FALSE, since |-> serial]
    /\ UNCHANGED <<funcs, count, serial, refused, dropped, ran>>

(* One turn of the loop from the end: run and clear an entry of f. *)
RunMatching ==
    /\ fin.kind = "one" /\ ~fin.running /\ fin.i > 0
    /\ LET e == funcs[fin.i - 1]
           match == e.f = fin.f
       IN  /\ ran' = IF match THEN Append(ran, e.obj) ELSE ran
           /\ funcs' = IF match THEN [funcs EXCEPT ![fin.i - 1] = Empty] ELSE funcs
           /\ fin' = [fin EXCEPT !.i = @ - 1, !.running = match]
    /\ UNCHANGED <<count, serial, refused, dropped>>

(* The entries that keep their place in the order when the gaps close, and *)
(* the slot each position is filled from. Slots past the new count keep    *)
(* what they held.                                                         *)
Kept_ButLast == {r \in 0 .. count - 2 : funcs[r].f # NoFunc}

Kept == {r \in 0 .. count - 1 : funcs[r].f # NoFunc}

From_Last(w) ==
    IF w \in Kept THEN w
    ELSE CHOOSE r \in Kept : Cardinality({q \in Kept : q > r}) = Cardinality({q \in 0 .. w - 1 : q \notin Kept})

From(w) == CHOOSE r \in Kept : Cardinality({q \in Kept : q < r}) = w

CloseGaps ==
    /\ fin.kind = "one" /\ ~fin.running /\ fin.i = 0
    /\ funcs' = [w \in Slots |-> IF w < Cardinality(Kept) THEN funcs[From(w)] ELSE funcs[w]]
    /\ count' = Cardinality(Kept)
    /\ fin' = Idle
    /\ UNCHANGED <<serial, refused, dropped, ran>>

Next ==
    \/ \E f \in Funcs : __cxa_atexit(f) \/ FinalizeOne(f)
    \/ FinalizeAll \/ RunNext \/ AllDone
    \/ RunMatching \/ CloseGaps
    \/ Return

Spec == Init /\ [][Next]_vars

-----------------------------------------------------------------------------
(* Properties *)

Ran == {ran[k] : k \in DOMAIN ran}
Waiting == {funcs[s].obj : s \in {s \in Slots : s < count /\ funcs[s].f # NoFunc}}

(* Types; the count never exceeds the table. *)
TypeOK ==
    /\ funcs \in [Slots -> [f : Funcs \cup {NoFunc}, obj : 0 .. MaxRegistrations]]
    /\ count \in 0 .. ATEXIT_MAX_FUNCS
    /\ fin.i \in 0 .. ATEXIT_MAX_FUNCS

(* Every registration is run exactly once.  Never twice, in any sequence   *)
(* of registrations and of both kinds of finalize (the self-test of        *)
(* builtin.hpp expects one call); and between calls it has run or waits in *)
(* the table, unless the table was full or __cxa_finalize(0) was running   *)
(* when it was made (icxxabi.cpp:19-20, 45): closing the gaps loses        *)
(* nothing, even entries that an exit function added meanwhile.            *)
ExactlyOnce ==
    /\ TypeOK
    /\ \A j, k \in DOMAIN ran : ran[j] = ran[k] => j = k
    /\ fin.kind = "none" => 1 .. serial = Ran \cup Waiting \cup refused \cup dropped

(* __cxa_finalize(0) runs an entry only when everything registered after   *)
(* it has run, also when __cxa_finalize(f) has moved entries before        *)
(* (icxxabi.cpp:34-44, 58-65).                                             *)
NewestFirst ==
    [][(fin.kind = "all" /\ Len(ran') > Len(ran)) =>
          ran'[Len(ran')] + 1 .. fin.since \subseteq Ran \cup refused \cup dropped]_vars
=============================================================================
