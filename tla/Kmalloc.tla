------------------------------- MODULE Kmalloc -------------------------------
(***************************************************************************)
(* The kernel heap of libc/stdlib/kmalloc.c: first fit over a chain of      *)
(* blocks, no splitting, merging with both neighbours on kfree.             *)
(*                                                                         *)
(* A heap is the map of the headers on the chain, by address, with heap_ptr, *)
(* the last of them.  Headers are read only from header to header and at    *)
(* pointers that kmalloc returned, so one that was merged into a block      *)
(* before it is dropped.  Beyond the chain the heap was never written and    *)
(* holds no KMALLOC_MAGIC.                                                  *)
(*                                                                         *)
(* The operators are functions from heap to heap, so that callers can make   *)
(* several calls in one step.                                               *)
(***************************************************************************)
EXTENDS Integers

CONSTANTS
    HeapEnd,   \* _heap_end - _heap_start: addresses are 0 .. HeapEnd - 1
    MetaSize   \* KMALLOC_METADATA_SIZE

ASSUME HeapAssumption == MetaSize \in Nat \ {0} /\ HeapEnd \in Nat /\ MetaSize <= HeapEnd

Null == -1
heap_base == 0
Header == [size : Nat, is_free : {0, 1}]
Used(n) == [size |-> n, is_free |-> 0]

\* kmalloc_init(): an empty block in use that is never given out.
EmptyHeap == [blk |-> [a \in {heap_base} |-> Used(0)], heap_ptr |-> heap_base]

Blocks(h) == DOMAIN h.blk
\* (char *)(block + 1) + block->size
EndOf(h, b) == b + MetaSize + h.blk[b].size

-----------------------------------------------------------------------------
\* next_block() with the test of the magic number: the chain goes on there.
NextBlock(h, b) == {n \in Blocks(h) : n = EndOf(h, b) /\ n < HeapEnd}

\* prev_block(): the block whose walk step leads to b.
PrevBlock(h, b) == {p \in Blocks(h) : EndOf(h, p) = b}

\* find_free_block(): the walk goes up and stops at the first that fits.
Fitting(h, n) == {b \in Blocks(h) : h.blk[b].is_free = 1 /\ h.blk[b].size >= n}
\* Mutant: the smallest block that fits instead of the first.
MutantBestFit(h, n) == {b \in Fitting(h, n) : \A c \in Fitting(h, n) : h.blk[b].size <= h.blk[c].size}
FindFreeBlock(h, n) == {b \in Fitting(h, n) : \A c \in Fitting(h, n) : b <= c}

SetFree(h, b, v) == [h EXCEPT !.blk[b].is_free = v]

\* Mutant: the header of the merged block is not counted.
MutantMerge(h, b, n) ==
    [blk |-> [a \in Blocks(h) \ {n} |->
                 IF a = b THEN [h.blk[b] EXCEPT !.size = @ + h.blk[n].size] ELSE h.blk[a]],
     heap_ptr |-> IF h.heap_ptr = n THEN b ELSE h.heap_ptr]

\* Merge block n into block b, which ends where n begins.
Merge(h, b, n) ==
    [blk |-> [a \in Blocks(h) \ {n} |->
                 IF a = b THEN [h.blk[b] EXCEPT !.size = @ + MetaSize + h.blk[n].size]
                 ELSE h.blk[a]],
     heap_ptr |-> IF h.heap_ptr = n THEN b ELSE h.heap_ptr]

\* The two halves of coalesce(): at most one block can be merged by each.
Forward(h, b) ==
    IF \E n \in NextBlock(h, b) : h.blk[n].is_free = 1
    THEN Merge(h, b, EndOf(h, b)) ELSE h

Backward(h, b) ==
    IF \E p \in PrevBlock(h, b) : h.blk[p].is_free = 1
    THEN Merge(h, CHOOSE p \in PrevBlock(h, b) : TRUE, b) ELSE h

\* Mutant: no merging with the block before.
MutantCoalesce(h, b) == Forward(h, b)
Coalesce(h, b) == Backward(Forward(h, b), b)

\* expand_heap(): a block of exactly n bytes after the last one.
CanExpand(h, n) == EndOf(h, h.heap_ptr) + MetaSize + n <= HeapEnd
ExpandHeap(h, n) ==
    [blk |-> [a \in Blocks(h) \cup {EndOf(h, h.heap_ptr)} |->
                 IF a = EndOf(h, h.heap_ptr) THEN Used(n) ELSE h.blk[a]],
     heap_ptr |-> EndOf(h, h.heap_ptr)]

\* kmalloc(n): the block chosen, or Null, and the heap after it.  The pointer
\* handed out is the block + MetaSize.
MallocBlock(h, n) ==
    IF n = 0 THEN Null
    ELSE IF FindFreeBlock(h, n) # {} THEN CHOOSE b \in FindFreeBlock(h, n) : TRUE
    ELSE IF CanExpand(h, n) THEN EndOf(h, h.heap_ptr)
    ELSE Null

MallocHeap(h, n) ==
    IF MallocBlock(h, n) = Null THEN h
    ELSE IF FindFreeBlock(h, n) # {}
      THEN SetFree(h, MallocBlock(h, n), 0)
    ELSE ExpandHeap(h, n)

\* kfree() of the pointer to block b.
Free(h, b) == Coalesce(SetFree(h, b, 1), b)
-----------------------------------------------------------------------------
(* What the properties of the modules that use a heap are made of.           *)

Tiled(h) ==
    /\ heap_base \in Blocks(h)
    /\ \A b \in Blocks(h) : b \in Nat /\ heap_base <= b /\ b <= h.heap_ptr
    /\ \A b \in Blocks(h) \ {h.heap_ptr} : EndOf(h, b) \in Blocks(h)
    /\ \A b, c \in Blocks(h) : b < c => EndOf(h, b) <= c
    /\ EndOf(h, h.heap_ptr) <= HeapEnd

Merged(h) ==
    \A b, c \in Blocks(h) : EndOf(h, b) = c => ~(h.blk[b].is_free = 1 /\ h.blk[c].is_free = 1)
=============================================================================
