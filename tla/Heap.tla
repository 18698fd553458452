-------------------------------- MODULE Heap --------------------------------
(***************************************************************************)
(* The kernel heap: a best-fit allocator with boundary tags that grows and *)
(* shrinks at its upper end.  Every public operation runs under the heap's *)
(* InterruptSpinLockGuard, so each is one step.                            *)
(*                                                                         *)
(* Addresses are byte offsets from startAddr.  A chunk is known by its     *)
(* address; the header words of everything that is not a chunk are         *)
(* garbage.  Reaching a panic, a failed assert, a page fault or a chunk    *)
(* that is not where its tags say stops the model, with the reason in      *)
(* `fault`.                                                                *)
(***************************************************************************)
EXTENDS Integers, SequencesExt

CONSTANTS PAGE_SIZE,
          HEAP_MIN_SIZE,
          HEAP_MAX_SIZE,   \* maxAddr - startAddr
          Requests,        \* bound: the sizes asked of alloc ...
          AlignedRequests  \* ... and of palignedAlloc

MIN_CHUNK_SIZE == 16
CHUNK_OVERHEAD == 4
HEADER == 8                       \* TWO_SIZE_T_SIZES, before the payload

ASSUME PageAssumption ==
    /\ PAGE_SIZE \in Nat /\ PAGE_SIZE >= 2 * MIN_CHUNK_SIZE /\ PAGE_SIZE % 8 = 0
    /\ HEAP_MIN_SIZE % PAGE_SIZE = 0 /\ HEAP_MAX_SIZE % PAGE_SIZE = 0
    /\ 0 < HEAP_MIN_SIZE /\ HEAP_MIN_SIZE <= HEAP_MAX_SIZE

VARIABLES heap,         \* [chunk, list, endAddr, fault], see TypeOK
          live,         \* ghost: the size asked for, of each chunk a caller holds
          askedAligned  \* ghost: palignedAlloc has been called

vars == <<heap, live, askedAligned>>

Addresses == {8 * k : k \in 0 .. HEAP_MAX_SIZE \div 8}
Sizes == Addresses \cup {0}

\* chunk: the headers; size, CINUSE and PINUSE bits, and the prevFoot word.
\* list: the free list, in its order.
TypeOK ==
    /\ DOMAIN heap.chunk \subseteq Addresses
    /\ \A c \in DOMAIN heap.chunk :
         heap.chunk[c] \in [size : Sizes, cinuse : BOOLEAN, pinuse : BOOLEAN,
                            prevFoot : Sizes]
    /\ heap.list \in Seq(DOMAIN heap.chunk)
    /\ heap.endAddr \in HEAP_MIN_SIZE .. HEAP_MAX_SIZE
    /\ heap.endAddr % PAGE_SIZE = 0
    /\ DOMAIN live \subseteq DOMAIN heap.chunk

align_heap_size(n) == ((n + PAGE_SIZE - 1) \div PAGE_SIZE) * PAGE_SIZE

\* Mutant: the overhead is forgotten.
request2size_NoOverhead(req) ==
    IF req < 11 THEN MIN_CHUNK_SIZE ELSE ((req + 7) \div 8) * 8

\* MIN_REQUEST is 11.
request2size(req) ==
    IF req < MIN_CHUNK_SIZE - CHUNK_OVERHEAD - 1 THEN MIN_CHUNK_SIZE
    ELSE ((req + CHUNK_OVERHEAD + 7) \div 8) * 8

Stop(h, why) == IF h.fault = "no" THEN [h EXCEPT !.fault = why] ELSE h
-----------------------------------------------------------------------------
(* The words of a header. *)

PutChunk(h, c, size, cinuse, pinuse, prevFoot) ==
    LET new == [size |-> size, cinuse |-> cinuse, pinuse |-> pinuse,
                prevFoot |-> prevFoot]
    IN  [h EXCEPT !.chunk = [a \in DOMAIN @ \cup {c} |->
                               IF a = c THEN new ELSE h.chunk[a]]]

\* A chunk that became part of another one.
Forget(h, c) == [h EXCEPT !.chunk = [a \in DOMAIN @ \ {c} |-> h.chunk[a]]]

\* set_size_and_pinuse.
SetSizeAndPinuse(h, c, size) ==
    PutChunk(h, c, size, FALSE, TRUE,
             IF c \in DOMAIN h.chunk THEN h.chunk[c].prevFoot ELSE 0)

SetPinuse(h, c, bit) == [h EXCEPT !.chunk[c].pinuse = bit]

\* The follower's header is written even if the heap ends before it.
set_inuse(h, c, size) ==
    LET g == [h EXCEPT !.chunk[c].cinuse = TRUE, !.chunk[c].size = size]
    IN  IF c + size \in DOMAIN h.chunk THEN SetPinuse(g, c + size, TRUE)
        ELSE Stop(g, "page fault")

set_foot(h, c, size) == [h EXCEPT !.chunk[c + size].prevFoot = size]
-----------------------------------------------------------------------------
(* The free list, ordered by size. *)

SizeOf(h, i) == h.chunk[h.list[i]].size

\* Where the first entry of at least `size` bytes is; behind the end if nowhere.
FirstOfSize(h, size) ==
    LET i == SelectInSeq(h.list, LAMBDA c : h.chunk[c].size >= size)
    IN  IF i = 0 THEN Len(h.list) + 1 ELSE i

\* Before entry i of the list, or at its end.
list_add_tail(h, c, i) == [h EXCEPT !.list = InsertAt(@, i, c)]

insertChunk(h, c) == list_add_tail(h, c, FirstOfSize(h, h.chunk[c].size))

\* Unlinking something that is not on the list follows garbage pointers.
removeChunk(h, c) == IF Contains(h.list, c) THEN [h EXCEPT !.list = Remove(@, c)]
                     ELSE Stop(h, "corrupt")
-----------------------------------------------------------------------------
(* alloc_unlocked, after request2size.  The result is [h, c]: heap and chunk. *)

\* expand_unlocked and the bookkeeping after it: the free chunk that ends the
\* heap grows, or a new one is created behind the old end.
Expanded(h, nb) ==
    LET end == align_heap_size(h.endAddr + nb)
        top == {c \in ToSet(h.list) : c + h.chunk[c].size = h.endAddr}
        at == IF top = {} THEN h.endAddr ELSE CHOOSE c \in top : TRUE
        g == IF top = {} THEN h ELSE removeChunk(h, at)
    IN  IF end > HEAP_MAX_SIZE THEN Stop(h, "exhausted")
        ELSE insertChunk(SetSizeAndPinuse([g EXCEPT !.endAddr = end], at, end - at), at)

\* Mutant: a remainder smaller than a chunk is split off.
Splits_Always(size, nb) == size >= nb + 8

\* Is what remains big enough for a chunk of its own?
Splits(size, nb) == size >= nb + MIN_CHUNK_SIZE

\* Take the smallest hole; the rest of it becomes a free chunk.  The prevFoot of
\* the chunk behind the hole is left as it is.
TakeHole(h, nb) ==
    LET c == h.list[FirstOfSize(h, nb)]
        size == h.chunk[c].size
        g == removeChunk(h, c)
        rest == PutChunk(g, c + nb, size - nb, FALSE, FALSE, 0)
    IN  [c |-> c,
         h |-> IF Splits(size, nb)
               THEN set_inuse(insertChunk(rest, c + nb), c, nb)
               ELSE set_inuse(g, c, size)]

alloc_unlocked(h, nb) ==
    LET roomy == IF FirstOfSize(h, nb) <= Len(h.list) THEN h ELSE Expanded(h, nb)
    IN  IF roomy.fault = "no" THEN TakeHole(roomy, nb) ELSE [c |-> 0, h |-> roomy]
-----------------------------------------------------------------------------
(* free_unlocked(ptr), for the chunk of ptr. *)

\* [h, c, size]: the block that is being freed, merged with a free predecessor.
\* A prevFoot that does not lead to a free chunk of that size is a stale tag.
MergePrev(h, c) ==
    LET foot == h.chunk[c].prevFoot
        prev == c - foot
        good == /\ prev \in DOMAIN h.chunk
                /\ ~h.chunk[prev].cinuse /\ h.chunk[prev].size = foot
    IN  IF h.chunk[c].pinuse THEN [h |-> h, c |-> c, size |-> h.chunk[c].size]
        ELSE IF ~good
        THEN [h |-> Stop(h, IF prev < 0 THEN "panic" ELSE "corrupt"), c |-> c,
              size |-> h.chunk[c].size]
        ELSE [h |-> Forget(removeChunk(h, prev), c), c |-> prev,
              size |-> h.chunk[c].size + foot]

\* Mutant: a free follower is not merged.
MergeNext_Never(b) ==
    LET next == b.c + b.size
    IN  IF next >= b.h.endAddr THEN b
        ELSE [b EXCEPT !.h = SetPinuse(@, next, FALSE)]

\* ... and with a free follower; one in use learns that its predecessor is free.
MergeNext(b) ==
    LET next == b.c + b.size
        head == b.h.chunk[next]
    IN  IF next >= b.h.endAddr THEN b
        ELSE IF ~head.pinuse \/ (~head.cinuse /\ next + head.size > b.h.endAddr)
        THEN [b EXCEPT !.h = Stop(@, "panic")]
        ELSE IF head.cinuse THEN [b EXCEPT !.h = SetPinuse(@, next, FALSE)]
        ELSE [b EXCEPT !.h = Forget(removeChunk(@, next), next),
                       !.size = @ + head.size]

\* The upper end moves down to newSize, rounded up, but not below the minimum.
contract_unlocked(h, newSize) ==
    LET aligned == align_heap_size(newSize)
    IN  IF newSize >= h.endAddr THEN Stop(h, "contract")
        ELSE [h EXCEPT !.endAddr = IF aligned < HEAP_MIN_SIZE THEN HEAP_MIN_SIZE
                                                              ELSE aligned]

\* The block becomes a free chunk; at the end of the heap it is given back as
\* far as possible, and may vanish.
Release(b) ==
    LET keep == b.c + (IF b.c % PAGE_SIZE # 0 THEN MIN_CHUNK_SIZE ELSE 0)
        cut == contract_unlocked(b.h, keep)
        size == b.size - (b.h.endAddr - cut.endAddr)
    IN  IF b.c + b.size # b.h.endAddr
        THEN insertChunk(SetSizeAndPinuse(set_foot(b.h, b.c, b.size), b.c, b.size), b.c)
        ELSE IF cut.fault # "no" THEN cut
        ELSE IF size > 0 THEN insertChunk(SetSizeAndPinuse(cut, b.c, size), b.c)
        ELSE Forget(cut, b.c)

free_unlocked(h, c) ==
    LET b == MergePrev(h, c)
        n == MergeNext(b)
    IN  IF b.h.fault # "no" THEN b.h
        ELSE IF n.h.fault # "no" THEN n.h
        ELSE Release(n)
-----------------------------------------------------------------------------
(* palignedAlloc_unlocked. *)

\* Mutant: the header is not allowed for.
AlignUp_NoHeader(a, garbage) ==
    LET size == a.h.chunk[a.c].size
        br == ((a.c + HEADER) \div PAGE_SIZE + 1) * PAGE_SIZE
        pos == IF br - a.c >= MIN_CHUNK_SIZE THEN br ELSE br + PAGE_SIZE
        lead == pos - a.c
        g == PutChunk(a.h, pos, size - lead, TRUE, garbage, lead)
    IN  IF (a.c + HEADER) % PAGE_SIZE = 0 THEN a
        ELSE [c |-> pos, h |-> insertChunk(SetSizeAndPinuse(g, a.c, lead), a.c)]

\* Move the chunk up so that its payload starts a page; what precedes it becomes
\* free.  The PINUSE bit of the new header is whatever memory holds: `garbage`.
AlignUp(a, garbage) ==
    LET size == a.h.chunk[a.c].size
        br == ((a.c + HEADER) \div PAGE_SIZE + 1) * PAGE_SIZE - HEADER
        pos == IF br - a.c >= MIN_CHUNK_SIZE THEN br ELSE br + PAGE_SIZE
        lead == pos - a.c
        g == PutChunk(a.h, pos, size - lead, TRUE, garbage, lead)
    IN  IF (a.c + HEADER) % PAGE_SIZE = 0 THEN a
        ELSE [c |-> pos, h |-> insertChunk(SetSizeAndPinuse(g, a.c, lead), a.c)]

\* Give back what lies behind the first nb bytes.
Trim(a, nb) ==
    LET size == a.h.chunk[a.c].size
        g == PutChunk([a.h EXCEPT !.chunk[a.c].size = nb], a.c + nb, size - nb,
                      TRUE, TRUE, 0)
    IN  IF size > nb + MIN_CHUNK_SIZE
        THEN [a EXCEPT !.h = free_unlocked(g, a.c + nb)] ELSE a

palignedAlloc_unlocked(h, nb, garbage) ==
    LET a == alloc_unlocked(h, request2size(nb + PAGE_SIZE + MIN_CHUNK_SIZE
                                               - CHUNK_OVERHEAD))
        t == Trim(AlignUp(a, garbage), nb)
        ok == /\ t.h.chunk[t.c].size >= nb /\ t.h.chunk[t.c].cinuse
              /\ (t.c + HEADER) % PAGE_SIZE = 0
    IN  IF a.h.fault # "no" THEN a
        ELSE IF t.h.fault # "no" THEN t
        ELSE [t EXCEPT !.h = IF ok THEN @ ELSE Stop(@, "assert")]
-----------------------------------------------------------------------------
\* The constructor: one hole of HEAP_MIN_SIZE bytes.
Init == /\ heap = [chunk |-> [a \in {0} |-> [size |-> HEAP_MIN_SIZE, cinuse |-> FALSE,
                                             pinuse |-> TRUE, prevFoot |-> 0]],
                   list |-> <<0>>, endAddr |-> HEAP_MIN_SIZE, fault |-> "no"]
        /\ live = [a \in {} |-> 0]
        /\ askedAligned = FALSE

\* A caller gets chunk c for a request of `size` bytes, unless the heap stopped.
Hand(a, size) ==
    /\ heap' = a.h
    /\ live' = IF a.h.fault # "no" THEN live
               ELSE [c \in DOMAIN live \cup {a.c} |-> IF c = a.c THEN size ELSE live[c]]

alloc(size) == /\ heap.fault = "no"
               /\ Hand(alloc_unlocked(heap, request2size(size)), size)
               /\ UNCHANGED askedAligned

palignedAlloc(size) ==
    /\ heap.fault = "no"
    /\ \E garbage \in BOOLEAN :
         Hand(palignedAlloc_unlocked(heap, request2size(size), garbage), size)
    /\ askedAligned' = TRUE

\* A caller frees a chunk it holds, once.
free(c) == /\ heap.fault = "no" /\ c \in DOMAIN live
           /\ heap' = free_unlocked(heap, c)
           /\ live' = [a \in DOMAIN live \ {c} |-> live[a]]
           /\ UNCHANGED askedAligned

Next == \/ \E size \in Requests : alloc(size)
        \/ \E size \in AlignedRequests : palignedAlloc(size)
        \/ \E c \in Addresses : free(c)

Spec == Init /\ [][Next]_vars
-----------------------------------------------------------------------------
(* Properties.  `Sound` delimits them: none is claimed of a heap that stopped. *)

Sound == heap.fault = "no"
Chunks == DOMAIN heap.chunk
Free == {c \in Chunks : ~heap.chunk[c].cinuse}
EndOf(c) == c + heap.chunk[c].size

\* However alloc and free split, merge, grow and shrink: the chunks tile the heap
\* without gap or overlap, those in use are exactly the ones callers hold, and
\* the free list holds each of the others exactly once, smallest first, so that
\* findSmallestChunk is a best fit.  A clear PINUSE bit means that a free chunk
\* ends here: the one free() looks for behind prevFoot.
ChunksTileTheHeap ==
    /\ TypeOK
    /\ Sound =>
             /\ 0 \in Chunks
             /\ \A c \in Chunks :
                  /\ heap.chunk[c].size >= MIN_CHUNK_SIZE
                  /\ EndOf(c) \in Chunks \cup {heap.endAddr}
                  /\ \A a \in Chunks : a <= c \/ a >= EndOf(c)
             /\ Chunks \ Free = DOMAIN live
             /\ ToSet(heap.list) = Free /\ IsInjective(heap.list)
             /\ \A i, j \in DOMAIN heap.list : i <= j => SizeOf(heap, i) <= SizeOf(heap, j)
             /\ \A c \in Chunks : ~heap.chunk[c].pinuse => \E p \in Free : EndOf(p) = c

\* No operation on another block, and no shrinking of the heap, takes a byte of
\* the payload a caller was promised: it fits between the block's header and the
\* header word of the next chunk, whose prevFoot word it may use.
BlocksKeepTheirSize ==
    Sound => \A c \in DOMAIN live : HEADER + live[c] <= heap.chunk[c].size + CHUNK_OVERHEAD

\* Without palignedAlloc free chunks never stay side by side, and when every
\* block was freed the heap is what the constructor made: nothing leaks to
\* fragmentation, and all that was grown has been given back.
NothingLeaks ==
    Sound /\ ~askedAligned =>
        /\ \A c \in Free : EndOf(c) \notin Free
        /\ DOMAIN live = {} => heap.list = <<0>> /\ heap.endAddr = HEAP_MIN_SIZE

\* The ways to stop that legal calls have are the known ones: the heap's limit;
\* the follower of a chunk that ends the heap (heap.cpp:263), a page fault; a
\* stale prevFoot (TagsAreNeverStale); and the assertion of contract_unlocked,
\* when the last block is a minimal one (heap.cpp:327).  The "Memory Corrupt"
\* panics are never reached first, and what palignedAlloc asserts of its result
\* is true.
OnlyKnownFaults ==
    heap.fault \in {"no", "exhausted", "page fault", "corrupt", "contract"}

\* free() trusts prevFoot; the sanity checks around it, which end in
\* panic("(free) Memory Corrupt"), say that callers who free what they allocated
\* never find a tag that is not the size of a free predecessor.
TagsAreNeverStale == heap.fault # "corrupt"
=============================================================================
