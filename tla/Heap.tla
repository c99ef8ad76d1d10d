--------------------------------- MODULE Heap ---------------------------------
(***************************************************************************)
(* The kernel's heap (heap.rs): a list of free blocks in address order,    *)
(* threaded through the blocks themselves, and a bump edge above which     *)
(* nothing has been handed out yet.  A request takes the first block of    *)
(* the list that is big enough; a block that is freed is joined with its   *)
(* neighbours, and with what is above the edge.                            *)
(*                                                                         *)
(* Addresses count from HEAP_BASE.  The whole of alloc and dealloc runs    *)
(* under an IrqSpinLock (SpinLocks), so each is one step.  Requests with   *)
(* more alignment than MIN_ALIGN, and those for which there is no room,    *)
(* get a null pointer and change nothing.                                  *)
(***************************************************************************)
EXTENDS Integers, FiniteSets

CONSTANTS INITIAL_HEAP_SIZE, MIN_ALIGN, MIN_BLOCK_SIZE,
          Requests     \* bound: the sizes asked for

(* The header of a free block fits in the least that can be left over.     *)
ASSUME HeapAssumption ==
    /\ MIN_ALIGN \in Nat \ {0} /\ MIN_BLOCK_SIZE \in 1 .. MIN_ALIGN
    /\ INITIAL_HEAP_SIZE \in Nat /\ Requests \subseteq Nat

VARIABLES free,   \* FreeList: its head, and the headers in the blocks on it
          bump,   \* Heap::bump
          live    \* the blocks handed out, with the sizes of their layouts

heapVars == <<free, bump, live>>

NoBlock == -1    \* None, for an Option<NonNull<FreeBlock>>

-----------------------------------------------------------------------------
Rounded(size) ==
    LET least == IF size < MIN_BLOCK_SIZE THEN MIN_BLOCK_SIZE ELSE size
    IN  ((least + MIN_ALIGN - 1) \div MIN_ALIGN) * MIN_ALIGN

SizeAt(at) == free.header[at].size
NextOf(at) == free.header[at].next

(* Both loops go from the head along the links: where they are after each  *)
(* turn.  A loop stops at the end of the list or at a block of S.          *)
Walk ==
    LET walk[n \in 0 .. INITIAL_HEAP_SIZE] ==
            IF n = 0 THEN free.head ELSE IF walk[n - 1] = NoBlock THEN NoBlock ELSE NextOf(walk[n - 1])
    IN  walk
Stops(S, n) == Walk[n] \in S \cup {NoBlock} /\ \A m \in 0 .. n - 1 : Walk[m] \notin S \cup {NoBlock}
Stop(S) == CHOOSE n \in 0 .. INITIAL_HEAP_SIZE : Stops(S, n)
Visited(n) == IF n < 0 THEN NoBlock ELSE Walk[n]

(* The blocks on the list: those that a loop passes that nothing stops.    *)
List == {Walk[n] : n \in 0 .. Stop({}) - 1}

(* Headers that are allocated or swallowed are not looked at any more.     *)
Gone(list, at) == [list EXCEPT !.header = [a \in DOMAIN @ \ {at} |-> @[a]]]
Written(list, at, size, next) ==
    [list EXCEPT !.header = [a \in DOMAIN @ \cup {at} |-> IF a = at THEN [size |-> size, next |-> next] ELSE @[a]]]
Linked(list, prev, to) ==
    IF prev = NoBlock THEN [list EXCEPT !.head = to]
    ELSE Written(list, prev, list.header[prev].size, to)

-----------------------------------------------------------------------------
(* First fit.  What is left over takes the place of the block.             *)

Fitting(size) == {at \in List : SizeAt(at) >= size}

Taken(prev, at, size) ==
    LET leftover == SizeAt(at) - size
    IN  IF leftover >= MIN_BLOCK_SIZE
        THEN Linked(Written(Gone(free, at), at + size, leftover, NextOf(at)), prev, at + size)
        ELSE Linked(Gone(free, at), prev, NextOf(at))

pop_fit(request) ==
    LET n == Stop(Fitting(Rounded(request)))
    IN  /\ Walk[n] # NoBlock
        /\ free' = Taken(Visited(n - 1), Walk[n], Rounded(request))
        /\ live' = live \cup {[at |-> Walk[n], size |-> request]}
        /\ UNCHANGED bump

(* No block of the list is big enough, but there is room above the edge.   *)
Carve(request) ==
    /\ Walk[Stop(Fitting(Rounded(request)))] = NoBlock
    /\ bump + Rounded(request) <= INITIAL_HEAP_SIZE
    /\ bump' = bump + Rounded(request)
    /\ live' = live \cup {[at |-> bump, size |-> request]}
    /\ UNCHANGED free

-----------------------------------------------------------------------------
(* Freeing.  The loop stops at the first block above ptr.                  *)

(* (Mutant: blocks are joined with the one after them only.)               *)
NeverFollows(prev, ptr) == FALSE

Follows(prev, ptr) == prev # NoBlock /\ prev + SizeAt(prev) = ptr
Joins(next, ptr, size) == next # NoBlock /\ ptr + size = next

(* The block joined with the one after it, if they touch.                  *)
Upper(next, ptr, size) ==
    IF Joins(next, ptr, size)
    THEN [list |-> Gone(free, next), size |-> size + SizeAt(next), next |-> NextOf(next)]
    ELSE [list |-> free, size |-> size, next |-> next]

(* And with the one before it; otherwise it is put on the list.            *)
Whole(prev, ptr, upper) ==
    IF Follows(prev, ptr)
    THEN [at |-> prev, size |-> SizeAt(prev) + upper.size,
          list |-> Written(upper.list, prev, SizeAt(prev) + upper.size, upper.next)]
    ELSE [at |-> ptr, size |-> upper.size,
          list |-> Linked(Written(upper.list, ptr, upper.size, upper.next), prev, ptr)]

(* A block that ends at the bump edge is above it again.                   *)
release(ptr, size) ==
    LET n == Stop({at \in List : at > ptr})
        prev == Visited(n - 1)
        upper == Upper(Walk[n], ptr, size)
        whole == Whole(prev, ptr, upper)
        link == IF Follows(prev, ptr) THEN Visited(n - 2) ELSE prev
    IN  IF upper.next = NoBlock /\ whole.at + whole.size = bump
        THEN free' = Linked(Gone(whole.list, whole.at), link, NoBlock) /\ bump' = whole.at
        ELSE free' = whole.list /\ UNCHANGED bump

dealloc(b) == release(b.at, Rounded(b.size)) /\ live' = live \ {b}

HeapInit == free = [head |-> NoBlock, header |-> [a \in {} |-> 0]] /\ bump = 0 /\ live = {}

HeapNext ==
    \/ \E request \in Requests : pop_fit(request) \/ Carve(request)
    \/ \E b \in live : dealloc(b)

HeapSpec == HeapInit /\ [][HeapNext]_heapVars

-----------------------------------------------------------------------------
Aligned(x) == x % MIN_ALIGN = 0

HeapTypeOK ==
    /\ DOMAIN free.header = List
    /\ \A at \in List : Aligned(at) /\ Aligned(SizeAt(at))
    /\ \A b \in live : Aligned(b.at) /\ b.size \in Requests
    /\ bump \in 0 .. INITIAL_HEAP_SIZE /\ Aligned(bump)

Holds(at, size, byte) == at <= byte /\ byte < at + size
FreeAt(blocks, byte) == {at \in blocks : Holds(at, SizeAt(at), byte)}
GivenAt(byte) == {b \in live : Holds(b.at, Rounded(b.size), byte)}

(* Every byte below the edge is in one free block or in one allocation,    *)
(* none above it is in any, and the list is in address order.              *)
Tiled ==
    LET blocks == List
    IN  /\ \A byte \in 0 .. INITIAL_HEAP_SIZE - 1 :
               Cardinality(FreeAt(blocks, byte)) + Cardinality(GivenAt(byte)) = IF byte < bump THEN 1 ELSE 0
        /\ \A at \in blocks : NextOf(at) # NoBlock => at < NextOf(at)

(* A request is refused only if nowhere in the heap there are as many      *)
(* bytes in a row that are not allocated, whatever was freed and in which  *)
(* order.                                                                  *)
RoomIsFound ==
    \A request \in Requests :
        LET size == Rounded(request)
            room == \E at \in 0 .. INITIAL_HEAP_SIZE - size :
                        \A byte \in at .. at + size - 1 : GivenAt(byte) = {}
        IN  room => Fitting(size) # {} \/ bump + size <= INITIAL_HEAP_SIZE

HeapExact == Tiled /\ RoomIsFound
=============================================================================
