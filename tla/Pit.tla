-------------------------------- MODULE Pit --------------------------------
(***************************************************************************)
(* pit: the tick counter, the table of timer handlers and sleep_ticks.     *)
(*                                                                         *)
(* Handlers run on the BSP.  register_handler and unregister_handler       *)
(* disable interrupts, so a task's call never overlaps tick_handler; but   *)
(* tick_handler calls back with handlers_lock released, and a callback may *)
(* change the table the loop is walking.  A client is a (callback, arg)    *)
(* pair.  MaxTicks bounds the history TLC explores.                        *)
(***************************************************************************)
EXTENDS Integers, FiniteSets

CONSTANTS Clients,
          MAX_HANDLERS,
          interval_us,   \* microseconds per tick, pit::init's argument
          Intervals,     \* interval_us arguments of register_handler
          Targets,       \* arguments of sleep_ticks
          MaxTicks

ASSUME PitAssumption == /\ MAX_HANDLERS \in Nat
                        /\ interval_us \in Nat \ {0}
                        /\ Intervals \subseteq Nat \ {0}
                        /\ Targets \subseteq Nat
                        /\ MaxTicks \in Nat

VARIABLES tick_count,
          handlers,
          handler_count,
          i,             \* tick_handler's loop, 0 when it is not running
          running,       \* the client tick_handler is calling back
          sleeper,       \* a task in sleep_ticks
          since,         \* the tick each slot's registration starts from (history)
          fires          \* how often it has been called back since (history)

vars == <<tick_count, handlers, handler_count, i, running, sleeper, since, fires>>

Slots == 1 .. MAX_HANDLERS
Triggers == {"EveryTick", "Interval", "OneShot"}
None == "none"
Empty == [client |-> None, trigger |-> "EveryTick", interval |-> 0, last |-> 0, active |-> FALSE]
Awake == [start |-> 0, target |-> 0, asleep |-> FALSE]

now == tick_count * interval_us

Init == /\ tick_count = 0
        /\ handlers = [s \in Slots |-> Empty]
        /\ handler_count = 0
        /\ i = 0
        /\ running = None
        /\ sleeper = Awake
        /\ since = [s \in Slots |-> 0]
        /\ fires = [s \in Slots |-> 0]
-----------------------------------------------------------------------------
(* The table. *)

Active(s) == handlers[s].active

FirstFree(s) == ~Active(s) /\ \A r \in Slots : r < s => Active(r)

Holds(s, c) == Active(s) /\ handlers[s].client = c

\* A slot the running loop has yet to visit is called back in this tick.
register_handler(c, trigger, interval) ==
    /\ IF handler_count >= MAX_HANDLERS
       THEN UNCHANGED <<handlers, handler_count, since, fires>>    \* returns false
       ELSE \E s \in Slots :
               /\ FirstFree(s)
               /\ handlers' = [handlers EXCEPT ![s] =
                     [client |-> c, trigger |-> trigger, last |-> now, active |-> TRUE,
                      interval |-> IF trigger = "EveryTick" THEN interval_us ELSE interval]]
               /\ handler_count' = handler_count + 1
               /\ since' = [since EXCEPT ![s] = IF i > 0 /\ s > i THEN tick_count - 1 ELSE tick_count]
               /\ fires' = [fires EXCEPT ![s] = 0]
    /\ UNCHANGED <<tick_count, i, running, sleeper>>

\* The first matching entry goes; returns false when there is none.
unregister_handler(c) ==
    /\ IF \A s \in Slots : ~Holds(s, c)
       THEN UNCHANGED <<handlers, handler_count>>
       ELSE \E s \in Slots :
               /\ Holds(s, c) /\ \A r \in Slots : r < s => ~Holds(r, c)
               /\ handlers' = [handlers EXCEPT ![s].active = FALSE]
               /\ handler_count' = handler_count - 1
    /\ UNCHANGED <<tick_count, i, running, sleeper, since, fires>>

TableCall == \E c \in Clients : \/ \E trigger \in Triggers, interval \in Intervals :
                                      register_handler(c, trigger, interval)
                                \/ unregister_handler(c)

TaskCall == i = 0 /\ TableCall
-----------------------------------------------------------------------------
(* tick_handler: one visit of a slot under handlers_lock, then the call    *)
(* back without it.                                                        *)

Tick == /\ i = 0 /\ tick_count < MaxTicks
        /\ tick_count' = tick_count + 1
        /\ i' = 1
        /\ UNCHANGED <<handlers, handler_count, running, sleeper, since, fires>>

Visiting(s) == i = s /\ running = None

Due(s) == /\ Active(s)
          /\ \/ handlers[s].trigger = "EveryTick"
             \/ now - handlers[s].last >= handlers[s].interval

Skip(s) == /\ Visiting(s) /\ ~Due(s)
           /\ i' = i + 1
           /\ UNCHANGED <<tick_count, handlers, handler_count, running, sleeper, since, fires>>

\* Mutant: a OneShot entry is not subtracted from the count.
Fire_KeepCount(s) ==
    /\ Visiting(s) /\ Due(s)
    /\ CASE handlers[s].trigger = "Interval" -> handlers' = [handlers EXCEPT ![s].last = now]
         [] handlers[s].trigger = "OneShot" -> handlers' = [handlers EXCEPT ![s].active = FALSE]
         [] OTHER -> UNCHANGED handlers
    /\ running' = handlers[s].client
    /\ fires' = [fires EXCEPT ![s] = @ + 1]
    /\ UNCHANGED <<tick_count, handler_count, i, sleeper, since>>

Fire(s) ==
    /\ Visiting(s) /\ Due(s)
    /\ CASE handlers[s].trigger = "Interval" ->
              handlers' = [handlers EXCEPT ![s].last = now] /\ UNCHANGED handler_count
         [] handlers[s].trigger = "OneShot" ->
              /\ handlers' = [handlers EXCEPT ![s].active = FALSE]
              /\ handler_count' = handler_count - 1
         [] OTHER -> UNCHANGED <<handlers, handler_count>>
    /\ running' = handlers[s].client
    /\ fires' = [fires EXCEPT ![s] = @ + 1]
    /\ UNCHANGED <<tick_count, i, sleeper, since>>

\* The callback may register and unregister before it returns.
CallbackCall == running # None /\ TableCall

CallbackReturn == /\ running # None
                  /\ running' = None
                  /\ i' = i + 1
                  /\ UNCHANGED <<tick_count, handlers, handler_count, sleeper, since, fires>>

\* Mutant: the loop runs up to the number of entries in use.
TickEnd_AtCount == /\ i > handler_count /\ i > 0 /\ running = None
                   /\ i' = 0
                   /\ UNCHANGED <<tick_count, handlers, handler_count, running, sleeper, since, fires>>

TickEnd == /\ i > MAX_HANDLERS /\ running = None
           /\ i' = 0
           /\ UNCHANGED <<tick_count, handlers, handler_count, running, sleeper, since, fires>>
-----------------------------------------------------------------------------
(* sleep_ticks: a task that polls the counter between interrupts. *)

Sleep(target) == /\ i = 0 /\ ~sleeper.asleep
                 /\ sleeper' = [start |-> tick_count, target |-> target, asleep |-> TRUE]
                 /\ UNCHANGED <<tick_count, handlers, handler_count, i, running, since, fires>>

Wake == /\ i = 0 /\ sleeper.asleep
        /\ tick_count - sleeper.start >= sleeper.target
        /\ sleeper' = [sleeper EXCEPT !.asleep = FALSE]
        /\ UNCHANGED <<tick_count, handlers, handler_count, i, running, since, fires>>

Next == \/ TaskCall \/ CallbackCall
        \/ Tick \/ CallbackReturn \/ TickEnd
        \/ \E s \in Slots : Skip(s) \/ Fire(s)
        \/ \E target \in Targets : Sleep(target)
        \/ Wake

Spec == Init /\ [][Next]_vars
-----------------------------------------------------------------------------
(* Properties. *)

TypeOK == /\ tick_count \in 0 .. MaxTicks
          /\ handlers \in [Slots -> [client : Clients \cup {None}, trigger : Triggers,
                                     interval : Nat, last : Nat, active : BOOLEAN]]
          /\ handler_count \in 0 .. MAX_HANDLERS
          /\ i \in 0 .. MAX_HANDLERS + 1
          /\ running \in Clients \cup {None}
          /\ sleeper \in [start : Nat, target : Nat, asleep : BOOLEAN]
          /\ since \in [Slots -> -1 .. MaxTicks]
          /\ fires \in [Slots -> Nat]

\* handler_count is the number of entries in use (pit.cpp:16 refuses a
\* registration on it alone), whatever callbacks do while the loop runs.
CountIsExact == TypeOK /\ handler_count = Cardinality({s \in Slots : Active(s)})

\* The number of ticks whose loop has visited slot s since it was filled.
Visits(s) == tick_count - since[s] - (IF i # 0 /\ (s > i \/ (s = i /\ running = None)) THEN 1 ELSE 0)

\* Handlers are called back when they should be, even if a callback of the
\* same tick registered them or emptied a slot before theirs.  An EveryTick
\* handler: in every tick exactly once.  Not too early: an Interval handler has
\* not run more often than the time since its registration allows, and a
\* OneShot handler not before it goes.  Not too late: after a tick each whose
\* interval has elapsed was called back in it (pit.cpp:61-102).
OnTime == \A s \in Slots : Active(s) =>
    /\ handlers[s].trigger = "EveryTick" => fires[s] = Visits(s)
    /\ handlers[s].trigger = "Interval" =>
         fires[s] * handlers[s].interval <= (tick_count - since[s]) * interval_us
    /\ handlers[s].trigger = "OneShot" => fires[s] = 0
    /\ i = 0 /\ handlers[s].trigger # "EveryTick" =>
         now - handlers[s].last < handlers[s].interval
=============================================================================
