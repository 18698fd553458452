------------------------------ MODULE SharedPtr ------------------------------
(***************************************************************************)
(* kstd::shared_ptr (memory.hpp) used by several tasks.  Each task owns    *)
(* some handles; the handles of Common are read by every task and changed  *)
(* by none.  An operation is release() followed by the assignment of the   *)
(* new block; the reads and writes of a handle and the operations on the   *)
(* reference count are separate steps, and tasks interleave between them.  *)
(***************************************************************************)
EXTENDS Integers, FiniteSets

CONSTANTS
    Tasks, Handles, Blocks,
    Owner,        \* handle -> the task that may change it, or Common
    Common, None

VARIABLES
    block,        \* handle -> its ptr_block, or None (nullptr)
    refcount,     \* block -> its count
    allocated,    \* the blocks (and their objects) that exist
    deletions,    \* block -> how often its object was deleted, this life
    call          \* task -> the operation it is in

vars == <<block, refcount, allocated, deletions, call>>

Idle == [op |-> "none", at |-> "idle", h |-> None, src |-> None, old |-> None]
Ops == {"reset", "reset_ptr", "copy", "move"}
Readable(t) == {h \in Handles : Owner[h] \in {t, Common}}
Own(t) == {h \in Handles : Owner[h] = t}

(* Every handle of Common holds the same block, all others are empty. *)
Init ==
    \E b \in Blocks :
      /\ block = [h \in Handles |-> IF Owner[h] = Common THEN b ELSE None]
      /\ refcount = [c \in Blocks |->
            IF c = b THEN Cardinality({h \in Handles : Owner[h] = Common}) ELSE 0]
      /\ allocated = {c \in Blocks : refcount[c] > 0}
      /\ deletions = [c \in Blocks |-> 0]
      /\ call = [t \in Tasks |-> Idle]

(* The entry of reset(), reset(ptr) and the two operator=, which return at  *)
(* once on self-assignment. A copy or move constructor is the same          *)
(* operation on an empty handle.                                            *)
Call(t, op, h, src) ==
    /\ call[t].at = "idle"
    /\ op \in {"copy", "move"} => h # src
    /\ call' = [call EXCEPT ![t] =
         [op |-> op, at |-> "release", h |-> h, src |-> src, old |-> None]]
    /\ UNCHANGED <<block, refcount, allocated, deletions>>

(* release(): the handle gives up its block ... *)
Detach(t) ==
    LET c == call[t] IN
    /\ c.at = "release"
    /\ call' = [call EXCEPT ![t].old = block[c.h],
                            ![t].at = IF block[c.h] = None THEN "assign" ELSE "sub"]
    /\ block' = [block EXCEPT ![c.h] = None]
    /\ UNCHANGED <<refcount, allocated, deletions>>

FetchSub_NewValue(t) ==
    LET c == call[t] IN
    /\ c.at = "sub"
    /\ refcount' = [refcount EXCEPT ![c.old] = @ - 1]
    /\ call' = [call EXCEPT ![t].at = IF refcount[c.old] - 1 = 1 THEN "delete" ELSE "assign"]
    /\ UNCHANGED <<block, allocated, deletions>>

(* ... decrements the count in one atomic step ... *)
FetchSub(t) ==
    LET c == call[t] IN
    /\ c.at = "sub"
    /\ refcount' = [refcount EXCEPT ![c.old] = @ - 1]
    /\ call' = [call EXCEPT ![t].at = IF refcount[c.old] = 1 THEN "delete" ELSE "assign"]
    /\ UNCHANGED <<block, allocated, deletions>>

(* ... and, having taken the last reference, deletes the object and then *)
(* the block.                                                            *)
DeleteObject(t) ==
    /\ call[t].at = "delete"
    /\ deletions' = [deletions EXCEPT ![call[t].old] = @ + 1]
    /\ call' = [call EXCEPT ![t].at = "delete_block"]
    /\ UNCHANGED <<block, refcount, allocated>>

DeleteBlock(t) ==
    /\ call[t].at = "delete_block"
    /\ allocated' = allocated \ {call[t].old}
    /\ call' = [call EXCEPT ![t].at = "assign"]
    /\ UNCHANGED <<block, refcount, deletions>>

(* reset(): the handle stays empty. *)
AssignNothing(t) ==
    /\ call[t].at = "assign" /\ call[t].op = "reset"
    /\ call' = [call EXCEPT ![t] = Idle]
    /\ UNCHANGED <<block, refcount, allocated, deletions>>

(* reset(ptr): a new block that counts one, in memory that is free. *)
AssignNew(t) ==
    LET c == call[t] IN
    /\ c.at = "assign" /\ c.op = "reset_ptr"
    /\ \E b \in Blocks \ allocated :
         /\ block' = [block EXCEPT ![c.h] = b]
         /\ refcount' = [refcount EXCEPT ![b] = 1]
         /\ allocated' = allocated \cup {b}
         /\ deletions' = [deletions EXCEPT ![b] = 0]
    /\ call' = [call EXCEPT ![t] = Idle]

AssignCopy_Uncounted(t) ==
    LET c == call[t] IN
    /\ c.at = "assign" /\ c.op = "copy"
    /\ block' = [block EXCEPT ![c.h] = block[c.src]]
    /\ call' = [call EXCEPT ![t] = Idle]
    /\ UNCHANGED <<refcount, allocated, deletions>>

(* The copying forms take the source's block, and then count it. *)
AssignCopy(t) ==
    LET c == call[t] IN
    /\ c.at = "assign" /\ c.op = "copy"
    /\ block' = [block EXCEPT ![c.h] = block[c.src]]
    /\ call' = [call EXCEPT ![t] = IF block[c.src] = None THEN Idle
                                   ELSE [c EXCEPT !.at = "add"]]
    /\ UNCHANGED <<refcount, allocated, deletions>>

FetchAdd(t) ==
    /\ call[t].at = "add"
    /\ refcount' = [refcount EXCEPT ![block[call[t].h]] = @ + 1]
    /\ call' = [call EXCEPT ![t] = Idle]
    /\ UNCHANGED <<block, allocated, deletions>>

(* The moving forms leave the source empty, and the count as it is. *)
AssignMove(t) ==
    LET c == call[t] IN
    /\ c.at = "assign" /\ c.op = "move"
    /\ block' = [block EXCEPT ![c.h] = block[c.src], ![c.src] = None]
    /\ call' = [call EXCEPT ![t] = Idle]
    /\ UNCHANGED <<refcount, allocated, deletions>>

Step(t) ==
    \/ Detach(t) \/ FetchSub(t) \/ DeleteObject(t) \/ DeleteBlock(t)
    \/ AssignNothing(t) \/ AssignNew(t) \/ AssignCopy(t) \/ FetchAdd(t) \/ AssignMove(t)

Next ==
    \E t \in Tasks :
      \/ Step(t)
      \/ \E h \in Own(t) :
           \/ Call(t, "reset", h, None)
           \/ Call(t, "reset_ptr", h, None) /\ Blocks # allocated
           \/ \E src \in Readable(t) : Call(t, "copy", h, src)
           \/ \E src \in Own(t) : Call(t, "move", h, src)

Spec == Init /\ [][Next]_vars

-----------------------------------------------------------------------------
(* Properties *)

(* Types of the variables. *)
TypeOK ==
    /\ block \in [Handles -> Blocks \cup {None}]
    /\ refcount \in [Blocks -> 0 .. Cardinality(Handles)]
    /\ allocated \subseteq Blocks
    /\ deletions \in [Blocks -> 0 .. 1]

Holders(b) == {h \in Handles : block[h] = b}
Leaving(b) == {t \in Tasks : call[t].at = "sub" /\ call[t].old = b}
Arriving(b) == {t \in Tasks : call[t].at = "add" /\ block[call[t].h] = b}

(* A block's count is the number of handles that hold it, less the copies  *)
(* not yet counted and plus the releases not yet subtracted: between       *)
(* operations use_count() is the number of owners (memory.hpp:19-47).      *)
CountIsExact ==
    TypeOK /\ \A b \in allocated :
        refcount[b] = Cardinality(Holders(b)) + Cardinality(Leaving(b)) - Cardinality(Arriving(b))

(* An object lives exactly as long as it has an owner, whatever the tasks  *)
(* do meanwhile (memory.hpp:94-107).  No handle holds a block that was     *)
(* freed or whose object was deleted; and a block nobody holds, and no     *)
(* operation is about to drop, is freed and its object was deleted.        *)
LivesWhileOwned ==
    /\ \A h \in Handles : block[h] # None =>
          block[h] \in allocated /\ deletions[block[h]] = 0
    /\ \A b \in allocated :
          \/ Holders(b) # {}
          \/ \E t \in Tasks : call[t].old = b /\ call[t].at \in {"sub", "delete", "delete_block"}
=============================================================================
