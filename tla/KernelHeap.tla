------------------------------ MODULE KernelHeap ------------------------------
(***************************************************************************)
(* The kernel heap under an arbitrary client that frees only what it was    *)
(* given: kmalloc, kfree and krealloc of libc/stdlib/kmalloc.c as actions.   *)
(***************************************************************************)
EXTENDS Kmalloc

CONSTANT Sizes     \* sizes the client asks for

ASSUME SizesAssumption == Sizes \subseteq Nat

VARIABLES
    heap,
    live    \* history: what the client holds, a function from the block of
            \* each pointer to the size it asked for

vars == <<heap, live>>

Init == heap = EmptyHeap /\ live = [b \in {} |-> 0]

With(b, n) == [c \in DOMAIN live \cup {b} |-> IF c = b THEN n ELSE live[c]]
Without(b) == [c \in DOMAIN live \ {b} |-> live[c]]

kmalloc(n) ==
    LET b == MallocBlock(heap, n)
    IN  /\ heap' = MallocHeap(heap, n)
        /\ live' = IF b = Null THEN live ELSE With(b, n)

kfree(b) ==
    /\ heap' = Free(heap, b)
    /\ live' = Without(b)

\* krealloc(): to 0 it frees, in place when the block is large enough, else it
\* allocates, copies block->size bytes and frees the old block.
kreallocFree(b) == 0 \in Sizes /\ kfree(b)

\* Mutant: the size of the block is not looked at.
MutantReallocInPlace(b, n) ==
    /\ n # 0
    /\ live' = [live EXCEPT ![b] = n]
    /\ UNCHANGED heap

kreallocInPlace(b, n) ==
    /\ n # 0 /\ heap.blk[b].size >= n
    /\ live' = [live EXCEPT ![b] = n]
    /\ UNCHANGED heap

\* Mutant: the old block is not freed.
MutantReallocMove(b, n) ==
    LET c == MallocBlock(heap, n)
    IN  /\ n # 0 /\ heap.blk[b].size < n
        /\ c # Null
        /\ heap' = MallocHeap(heap, n)
        /\ live' = [d \in (DOMAIN live \ {b}) \cup {c} |-> IF d = c THEN n ELSE live[d]]

kreallocMove(b, n) ==
    LET c == MallocBlock(heap, n)
    IN  /\ n # 0 /\ heap.blk[b].size < n
        /\ c # Null
        /\ heap' = Free(MallocHeap(heap, n), b)
        /\ live' = [d \in (DOMAIN live \ {b}) \cup {c} |-> IF d = c THEN n ELSE live[d]]

kreallocFails(b, n) ==
    /\ n # 0 /\ heap.blk[b].size < n
    /\ MallocBlock(heap, n) = Null
    /\ UNCHANGED vars

Next ==
    \/ \E n \in Sizes : kmalloc(n)
    \/ \E b \in DOMAIN live :
          \/ kfree(b)
          \/ kreallocFree(b)
          \/ \E n \in Sizes : kreallocInPlace(b, n) \/ kreallocMove(b, n) \/ kreallocFails(b, n)

Spec == Init /\ [][Next]_vars

-----------------------------------------------------------------------------
(* The loops of kmalloc.c over the headers, to compare with the sets of       *)
(* blocks in Kmalloc.                                                         *)

\* The loop of find_free_block(n).
FindWalk(n) ==
    LET from[b \in 0 .. HeapEnd] ==
          IF b >= HeapEnd \/ b \notin Blocks(heap) THEN Null
          ELSE IF heap.blk[b].is_free = 1 /\ heap.blk[b].size >= n THEN b
          ELSE from[EndOf(heap, b)]
    IN  from[heap_base]

\* The loop of prev_block(target), at block b with prev before it.
PrevWalk(target) ==
    LET from[b \in 0 .. HeapEnd] ==
          [prev \in -1 .. HeapEnd |->
             IF b >= HeapEnd \/ b = target THEN prev
             ELSE IF b \notin Blocks(heap) THEN Null
             ELSE from[EndOf(heap, b)][b]]
    IN  from[heap_base][Null]

-----------------------------------------------------------------------------
(* Properties.                                                              *)

\* Type correctness: a heap is a map of headers with its last block, and every
\* pointer the client holds is that of a block in use.
TypeOK ==
    /\ heap \in [blk : [Blocks(heap) -> Header], heap_ptr : Blocks(heap)]
    /\ live \in [DOMAIN live -> Nat]
    /\ \A b \in DOMAIN live : b \in Blocks(heap) /\ heap.blk[b].is_free = 0

\* The blocks tile the heap: from heap_base each one ends where the next one
\* begins, heap_ptr is the last, and none reaches past the end of the heap.  So
\* every walk of kmalloc.c ends, sees each block once, and meets only headers.
ChainTiles == Tiled(heap)

\* Merging is complete: two free blocks never lie side by side, however the
\* frees are ordered, though each kfree looks at one neighbour on each side.
FullyMerged == Merged(heap)

\* Nothing leaks: a block in use is the first one or one that the client holds.
NoLeak == \A b \in Blocks(heap) : heap.blk[b].is_free = 1 \/ b = heap_base \/ b \in DOMAIN live

\* The loops of find_free_block and prev_block, which follow the chain header
\* by header, find the lowest free block that fits and the block that ends
\* where the given one begins.
WalksAgree ==
    /\ \A n \in Sizes :
          IF FindFreeBlock(heap, n) = {} THEN FindWalk(n) = Null
          ELSE FindFreeBlock(heap, n) = {FindWalk(n)}
    /\ \A b \in Blocks(heap) \ {heap_base} : PrevBlock(heap, b) = {PrevWalk(b)}

\* kmalloc.c gives the client what an allocator promises: the pointers it
\* returns are the blocks plus the header.
Ranges == [p \in {b + MetaSize : b \in DOMAIN live} |-> live[p - MetaSize]]
A == INSTANCE Allocator WITH Size <- HeapEnd, ranges <- Ranges
ImplementsAllocator == A!Spec
=============================================================================
