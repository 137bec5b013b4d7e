--------------------------- MODULE KernelHeapProofs ---------------------------
(***************************************************************************)
(* Proofs about kmalloc.c, for every size of the heap, of the header and of  *)
(* the requests: the chain of headers always tiles the heap, merging is      *)
(* complete, nothing leaks, the walks over the headers find the blocks they   *)
(* should, and clients see an Allocator.  Then proofs about the scheduler's    *)
(* use of it (TaskHeap), for every size of task_t and stack: no task on the   *)
(* ring loses its memory, and no memory loses its task.                      *)
(***************************************************************************)
EXTENDS KernelHeap, TaskHeap, WellFoundedInduction, TLAPS

HeapType(h) == h \in [blk : [Blocks(h) -> Header], heap_ptr : Blocks(h)]
GoodHeap(h) == HeapType(h) /\ Tiled(h)
IsUsed(h, b) == b \in Blocks(h) /\ h.blk[b].is_free = 0

\* The ends of blocks are numbers after their beginnings.
LEMMA EndProps ==
  ASSUME NEW h, GoodHeap(h), NEW b \in Blocks(h)
  PROVE  /\ b \in Nat /\ h.blk[b].size \in Nat /\ EndOf(h, b) \in Nat
         /\ b < EndOf(h, b) /\ EndOf(h, b) <= HeapEnd
         /\ h.blk[b].is_free \in {0, 1}
<1>1. b \in Nat /\ h.blk[b] \in Header
  BY DEF GoodHeap, HeapType, Tiled
<1>2. h.blk[b].size \in Nat /\ h.blk[b].is_free \in {0, 1}
  BY <1>1 DEF Header
<1>3. EndOf(h, b) \in Nat /\ b < EndOf(h, b)
  BY <1>1, <1>2, HeapAssumption DEF EndOf
<1>4. EndOf(h, b) <= HeapEnd
  <2>1. h.heap_ptr \in Blocks(h) /\ h.heap_ptr \in Nat
    BY DEF GoodHeap, HeapType, Tiled
  <2>2. CASE b = h.heap_ptr
    BY <2>2 DEF GoodHeap, Tiled
  <2>3. CASE b # h.heap_ptr
    <3>1. b < h.heap_ptr
      BY <2>1, <2>3, <1>1 DEF GoodHeap, Tiled
    <3>2. EndOf(h, b) <= h.heap_ptr
      BY <3>1, <2>1 DEF GoodHeap, Tiled
    <3>3. EndOf(h, h.heap_ptr) <= HeapEnd
      BY DEF GoodHeap, Tiled
    <3>4. EndOf(h, h.heap_ptr) \in Nat /\ h.heap_ptr < EndOf(h, h.heap_ptr)
      <4>1. h.blk[h.heap_ptr] \in Header
        BY <2>1 DEF GoodHeap, HeapType
      <4>2. h.blk[h.heap_ptr].size \in Nat
        BY <4>1 DEF Header
      <4> QED BY <4>2, <2>1, HeapAssumption DEF EndOf
    <3> QED BY <3>2, <3>3, <3>4, <1>3, <2>1, HeapAssumption
  <2> QED BY <2>2, <2>3
<1> QED BY <1>1, <1>2, <1>3, <1>4

\* Setting is_free of one block changes nothing else.
LEMMA FlagProps ==
  ASSUME NEW h, GoodHeap(h), NEW b \in Blocks(h), NEW v \in {0, 1},
         NEW k, k = SetFree(h, b, v)
  PROVE  /\ GoodHeap(k) /\ Blocks(k) = Blocks(h) /\ k.heap_ptr = h.heap_ptr
         /\ \A c \in Blocks(h) :
               /\ EndOf(k, c) = EndOf(h, c) /\ k.blk[c].size = h.blk[c].size
               /\ k.blk[c].is_free = (IF c = b THEN v ELSE h.blk[c].is_free)
               /\ c # b => k.blk[c] = h.blk[c]
<1>1. h \in [blk : [Blocks(h) -> Header], heap_ptr : Blocks(h)]
  BY DEF GoodHeap, HeapType
<1>2. /\ k.blk = [h.blk EXCEPT ![b].is_free = v] /\ k.heap_ptr = h.heap_ptr
      /\ k = [blk |-> k.blk, heap_ptr |-> k.heap_ptr]
  BY <1>1 DEF SetFree
<1>3. Blocks(k) = Blocks(h)
  BY <1>2 DEF Blocks
<1>4. ASSUME NEW c \in Blocks(h)
      PROVE  /\ k.blk[c].size = h.blk[c].size /\ k.blk[c] \in Header
             /\ k.blk[c].is_free = (IF c = b THEN v ELSE h.blk[c].is_free)
             /\ c # b => k.blk[c] = h.blk[c]
  <2>1. h.blk[c] \in Header
    BY <1>1
  <2>2. k.blk[c] = IF c = b THEN [h.blk[b] EXCEPT !.is_free = v] ELSE h.blk[c]
    BY <1>1, <1>2
  <2> QED BY <2>1, <2>2 DEF Header
<1>5. \A c \in Blocks(h) : EndOf(k, c) = EndOf(h, c)
  BY <1>4 DEF EndOf
<1>6. HeapType(k)
  <2>1. k.blk \in [Blocks(k) -> Header]
    BY <1>1, <1>2, <1>3, <1>4 DEF Blocks
  <2> QED BY <2>1, <1>1, <1>2, <1>3 DEF HeapType
<1>7. Tiled(k)
  BY <1>1, <1>2, <1>3, <1>5 DEF GoodHeap, Tiled
<1> QED BY <1>2, <1>3, <1>4, <1>5, <1>6, <1>7 DEF GoodHeap

\* A new block after the last one extends the tiling.
LEMMA ExpandProps ==
  ASSUME NEW h, GoodHeap(h), NEW n \in Nat, CanExpand(h, n)
  PROVE  LET e == EndOf(h, h.heap_ptr)
             k == ExpandHeap(h, n)
         IN  /\ GoodHeap(k) /\ Blocks(k) = Blocks(h) \cup {e} /\ e \notin Blocks(h)
             /\ e \in Nat /\ e # heap_base /\ k.heap_ptr = e /\ k.blk[e] = Used(n)
             /\ \A c \in Blocks(h) : k.blk[c] = h.blk[c] /\ EndOf(k, c) = EndOf(h, c)
<1> DEFINE e == EndOf(h, h.heap_ptr)
           k == ExpandHeap(h, n)
<1>1. h \in [blk : [Blocks(h) -> Header], heap_ptr : Blocks(h)]
  BY DEF GoodHeap, HeapType
<1>2. h.heap_ptr \in Blocks(h)
  BY <1>1
<1>3. e \in Nat /\ h.heap_ptr < e /\ h.heap_ptr \in Nat
  BY <1>2, EndProps
<1>4. \A c \in Blocks(h) : c \in Nat /\ c <= h.heap_ptr
  BY DEF GoodHeap, Tiled
<1>5. e \notin Blocks(h) /\ e # heap_base
  BY <1>3, <1>4 DEF heap_base
<1>6. k.blk = [a \in Blocks(h) \cup {e} |-> IF a = e THEN Used(n) ELSE h.blk[a]]
      /\ k.heap_ptr = e /\ k = [blk |-> k.blk, heap_ptr |-> k.heap_ptr]
  BY DEF ExpandHeap
<1> HIDE DEF e, k
<1>7. Blocks(k) = Blocks(h) \cup {e} /\ k.blk[e] = Used(n)
  BY <1>6 DEF Blocks
<1>8. \A c \in Blocks(h) : k.blk[c] = h.blk[c] /\ EndOf(k, c) = EndOf(h, c)
  BY <1>5, <1>6 DEF EndOf
<1>9. Used(n) \in Header /\ Used(n).size = n
  BY DEF Used, Header
<1>10. HeapType(k)
  <2>1. k.blk \in [Blocks(k) -> Header]
    BY <1>1, <1>6, <1>7, <1>8, <1>9
  <2> QED BY <2>1, <1>6, <1>7 DEF HeapType
<1>11. EndOf(k, e) = e + MetaSize + n /\ EndOf(k, e) <= HeapEnd
  BY <1>7, <1>9 DEF EndOf, CanExpand, e
<1>12. Tiled(k)
  <2>1. heap_base \in Blocks(k)
    BY <1>7 DEF GoodHeap, Tiled
  <2>2. \A b \in Blocks(k) : b \in Nat /\ heap_base <= b /\ b <= k.heap_ptr
    BY <1>3, <1>4, <1>6, <1>7 DEF heap_base
  <2>3. \A b \in Blocks(k) \ {k.heap_ptr} : EndOf(k, b) \in Blocks(k)
    <3>1. ASSUME NEW b \in Blocks(h) PROVE EndOf(h, b) \in Blocks(h) \cup {e}
      BY <3>1 DEF GoodHeap, Tiled, e
    <3> QED BY <3>1, <1>6, <1>7, <1>8
  <2>4. \A b, c \in Blocks(k) : b < c => EndOf(k, b) <= c
    <3> SUFFICES ASSUME NEW b \in Blocks(k), NEW c \in Blocks(k), b < c
                 PROVE  EndOf(k, b) <= c
      OBVIOUS
    <3>1. b \in Blocks(h)
      BY <1>3, <1>4, <1>7
    <3>2. CASE c \in Blocks(h)
      BY <3>1, <3>2, <1>8 DEF GoodHeap, Tiled
    <3>3. CASE c = e
      <4>1. CASE b = h.heap_ptr
        BY <4>1, <3>1, <3>3, <1>8, <1>3 DEF e
      <4>2. CASE b # h.heap_ptr
        <5>1. b < h.heap_ptr
          BY <4>2, <3>1, <1>3, <1>4
        <5>2. EndOf(h, b) <= h.heap_ptr
          BY <5>1, <3>1, <1>2 DEF GoodHeap, Tiled
        <5>3. EndOf(h, b) \in Nat /\ EndOf(k, b) = EndOf(h, b)
          BY <3>1, <1>8, EndProps
        <5> QED BY <5>2, <5>3, <3>3, <1>3
      <4> QED BY <4>1, <4>2
    <3> QED BY <3>2, <3>3, <1>7
  <2> QED BY <2>1, <2>2, <2>3, <2>4, <1>6, <1>11 DEF Tiled
<1> QED BY <1>3, <1>5, <1>6, <1>7, <1>8, <1>10, <1>12 DEF GoodHeap, e, k

\* Merging a block with its successor keeps the tiling: one block fewer, of
\* the two lengths and a header, that ends where the successor ended.
LEMMA MergeProps ==
  ASSUME NEW h, GoodHeap(h), NEW b \in Blocks(h), NEW n \in Blocks(h), EndOf(h, b) = n,
         NEW k, k = Merge(h, b, n)
  PROVE  /\ GoodHeap(k) /\ Blocks(k) = Blocks(h) \ {n} /\ b # n
         /\ EndOf(k, b) = EndOf(h, n) /\ k.blk[b].is_free = h.blk[b].is_free
         /\ \A c \in Blocks(h) \ {b, n} : k.blk[c] = h.blk[c] /\ EndOf(k, c) = EndOf(h, c)
<1>1. h \in [blk : [Blocks(h) -> Header], heap_ptr : Blocks(h)]
  BY DEF GoodHeap, HeapType
<1>2. /\ b \in Nat /\ n \in Nat /\ b < n /\ EndOf(h, n) \in Nat /\ n < EndOf(h, n)
      /\ h.blk[b].size \in Nat /\ h.blk[n].size \in Nat
  BY EndProps
<1>3. h.blk[b] \in Header
  BY <1>1
<1>4. /\ k.blk = [a \in Blocks(h) \ {n} |->
                     IF a = b THEN [h.blk[b] EXCEPT !.size = @ + MetaSize + h.blk[n].size]
                     ELSE h.blk[a]]
      /\ k.heap_ptr = (IF h.heap_ptr = n THEN b ELSE h.heap_ptr)
      /\ k = [blk |-> k.blk, heap_ptr |-> k.heap_ptr]
  BY DEF Merge
<1>5. Blocks(k) = Blocks(h) \ {n} /\ b # n
  BY <1>2, <1>4 DEF Blocks
<1>6. /\ k.blk[b].size = h.blk[b].size + MetaSize + h.blk[n].size
      /\ k.blk[b].is_free = h.blk[b].is_free /\ k.blk[b] \in Header
  BY <1>2, <1>3, <1>4, HeapAssumption DEF Header
<1>7. EndOf(k, b) = EndOf(h, n)
  BY <1>2, <1>6, HeapAssumption DEF EndOf
<1>8. \A c \in Blocks(h) \ {b, n} : k.blk[c] = h.blk[c] /\ EndOf(k, c) = EndOf(h, c)
  BY <1>4 DEF EndOf
<1>9. HeapType(k)
  <2>1. k.blk \in [Blocks(k) -> Header]
    BY <1>1, <1>4, <1>5, <1>6, <1>8
  <2>2. k.heap_ptr \in Blocks(k)
    BY <1>1, <1>4, <1>5
  <2> QED BY <2>1, <2>2, <1>4 DEF HeapType
<1>10. \A c \in Blocks(h) : c <= b \/ n <= c
  BY <1>2 DEF GoodHeap, Tiled
<1>11. Tiled(k)
  <2>1. heap_base \in Blocks(k)
    BY <1>2, <1>5 DEF GoodHeap, Tiled, heap_base
  <2>2. \A c \in Blocks(k) : c \in Nat /\ heap_base <= c /\ c <= k.heap_ptr
    BY <1>1, <1>2, <1>4, <1>5, <1>10 DEF GoodHeap, Tiled, heap_base
  <2>3. \A c \in Blocks(k) \ {k.heap_ptr} : EndOf(k, c) \in Blocks(k)
    <3> SUFFICES ASSUME NEW c \in Blocks(k) \ {k.heap_ptr} PROVE EndOf(k, c) \in Blocks(k)
      OBVIOUS
    <3>1. CASE c = b
      <4>1. n # h.heap_ptr
        BY <3>1, <1>4
      <4> QED BY <4>1, <3>1, <1>2, <1>5, <1>7 DEF GoodHeap, Tiled
    <3>2. CASE c # b
      <4>1. c \in Blocks(h) \ {b, n} /\ c # h.heap_ptr
        <5>1. c \in Blocks(h) \ {b, n}
          BY <3>2, <1>5
        <5>2. CASE h.heap_ptr = n
          BY <5>1, <5>2
        <5>3. CASE h.heap_ptr # n
          BY <5>1, <5>3, <1>4
        <5> QED BY <5>1, <5>2, <5>3
      <4>2. EndOf(h, c) \in Blocks(h) /\ EndOf(k, c) = EndOf(h, c)
        BY <4>1, <1>8 DEF GoodHeap, Tiled
      <4>3. EndOf(h, c) # n
        <5>1. CASE c < b
          <6>1. EndOf(h, c) <= b
            BY <5>1, <4>1 DEF GoodHeap, Tiled
          <6> QED BY <6>1, <1>2, <4>1, EndProps
        <5>2. CASE n < c
          <6>1. c \in Nat /\ EndOf(h, c) \in Nat /\ c < EndOf(h, c)
            BY <4>1, EndProps
          <6> QED BY <6>1, <5>2, <1>2
        <5>3. c \in Nat
          BY <4>1, EndProps
        <5>4. c <= b \/ n <= c
          BY <4>1, <1>10
        <5>5. c < b \/ n < c
          BY <5>3, <5>4, <4>1, <1>2
        <5> QED BY <5>1, <5>2, <5>5
      <4> QED BY <4>2, <4>3, <1>5
    <3> QED BY <3>1, <3>2
  <2>4. \A c, d \in Blocks(k) : c < d => EndOf(k, c) <= d
    <3> SUFFICES ASSUME NEW c \in Blocks(k), NEW d \in Blocks(k), c < d
                 PROVE  EndOf(k, c) <= d
      OBVIOUS
    <3>1. c \in Blocks(h) /\ d \in Blocks(h) /\ d # n /\ c # n
      BY <1>5
    <3>2. CASE c = b
      <4>1. n < d
        <5>1. d \in Nat /\ (d <= b \/ n <= d)
          BY <3>1, <1>10, EndProps
        <5> QED BY <5>1, <3>1, <3>2, <1>2
      <4> QED BY <4>1, <3>1, <3>2, <1>7 DEF GoodHeap, Tiled
    <3>3. CASE c # b
      BY <3>1, <3>3, <1>8 DEF GoodHeap, Tiled
    <3> QED BY <3>2, <3>3
  <2>5. EndOf(k, k.heap_ptr) <= HeapEnd
    <3>1. CASE h.heap_ptr = n
      BY <3>1, <1>4, <1>7, EndProps
    <3>2. CASE h.heap_ptr = b
      BY <3>2, <1>2, <1>4, <1>5, <1>7, EndProps
    <3>3. CASE h.heap_ptr # n /\ h.heap_ptr # b
      <4>1. k.heap_ptr = h.heap_ptr /\ h.heap_ptr \in Blocks(h) \ {b, n}
        BY <3>3, <1>1, <1>4
      <4>2. EndOf(k, h.heap_ptr) = EndOf(h, h.heap_ptr)
        BY <4>1, <1>8
      <4> QED BY <4>1, <4>2, EndProps
    <3> QED BY <3>1, <3>2, <3>3
  <2> QED BY <2>1, <2>2, <2>3, <2>4, <2>5 DEF Tiled
<1> QED BY <1>5, <1>6, <1>7, <1>8, <1>9, <1>11 DEF GoodHeap

\* kmalloc: a free block that fits or a new one at the end, never one in use.
LEMMA MallocProps ==
  ASSUME NEW h, GoodHeap(h), Merged(h), IsUsed(h, heap_base), NEW n \in Nat,
         NEW b, b = MallocBlock(h, n), b # Null
  PROVE  LET k == MallocHeap(h, n)
         IN  /\ GoodHeap(k) /\ Merged(k) /\ Blocks(k) = Blocks(h) \cup {b}
             /\ n # 0 /\ b # heap_base /\ ~IsUsed(h, b)
             /\ IsUsed(k, b) /\ n <= k.blk[b].size
             /\ \A c \in Blocks(h) \ {b} : k.blk[c] = h.blk[c]
<1> DEFINE k == MallocHeap(h, n)
<1>0. n # 0
  BY DEF MallocBlock
<1>1. CASE FindFreeBlock(h, n) # {}
  <2>1. b \in FindFreeBlock(h, n) /\ k = SetFree(h, b, 0)
    BY <1>0, <1>1 DEF MallocBlock, MallocHeap
  <2>2. b \in Blocks(h) /\ h.blk[b].is_free = 1 /\ n <= h.blk[b].size
    <3>1. b \in Blocks(h) /\ h.blk[b].is_free = 1 /\ h.blk[b].size >= n
      BY <2>1 DEF FindFreeBlock, Fitting
    <3> QED BY <3>1, EndProps
  <2> HIDE DEF k
  <2>3. /\ GoodHeap(k) /\ Blocks(k) = Blocks(h)
        /\ \A c \in Blocks(h) :
              /\ EndOf(k, c) = EndOf(h, c) /\ k.blk[c].size = h.blk[c].size
              /\ c # b => k.blk[c] = h.blk[c]
        /\ k.blk[b].is_free = 0
    <3>0. b \in Blocks(h)
      BY <2>2
    <3>1. /\ GoodHeap(SetFree(h, b, 0)) /\ Blocks(SetFree(h, b, 0)) = Blocks(h)
          /\ \A c \in Blocks(h) :
                /\ EndOf(SetFree(h, b, 0), c) = EndOf(h, c)
                /\ SetFree(h, b, 0).blk[c].size = h.blk[c].size
                /\ c # b => SetFree(h, b, 0).blk[c] = h.blk[c]
          /\ SetFree(h, b, 0).blk[b].is_free = 0
      BY ONLY GoodHeap(h), <3>0, FlagProps
    <3> QED BY <2>1, <3>1
  <2>4. Merged(k)
    BY <2>3 DEF Merged
  <2>5. b # heap_base /\ ~IsUsed(h, b) /\ IsUsed(k, b)
    BY <2>2, <2>3 DEF IsUsed
  <2> QED BY <1>0, <2>2, <2>3, <2>4, <2>5 DEF k
<1>2. CASE FindFreeBlock(h, n) = {}
  <2>1. CanExpand(h, n) /\ b = EndOf(h, h.heap_ptr) /\ k = ExpandHeap(h, n)
    BY <1>0, <1>2 DEF MallocBlock, MallocHeap
  <2> HIDE DEF k
  <2>2. /\ GoodHeap(k) /\ Blocks(k) = Blocks(h) \cup {b} /\ b \notin Blocks(h)
        /\ b # heap_base /\ k.heap_ptr = b /\ k.blk[b] = Used(n)
        /\ \A c \in Blocks(h) : k.blk[c] = h.blk[c] /\ EndOf(k, c) = EndOf(h, c)
    BY <2>1, ExpandProps
  <2>3. k.blk[b].is_free = 0 /\ n <= k.blk[b].size
    BY <2>2 DEF Used
  <2>4. Merged(k)
    BY <2>2, <2>3 DEF Merged
  <2>5. ~IsUsed(h, b) /\ IsUsed(k, b)
    BY <2>2, <2>3 DEF IsUsed
  <2> QED BY <1>0, <2>2, <2>3, <2>4, <2>5 DEF k
<1> QED BY <1>1, <1>2

\* Only one block ends where another begins.
LEMMA EndUnique ==
  ASSUME NEW h, GoodHeap(h), NEW b \in Blocks(h), NEW c \in Blocks(h), EndOf(h, b) = EndOf(h, c)
  PROVE  b = c
<1>1. b \in Nat /\ c \in Nat /\ b < EndOf(h, b) /\ c < EndOf(h, c) /\ EndOf(h, b) \in Nat
  BY EndProps
<1>2. ~(b < c)
  BY <1>1 DEF GoodHeap, Tiled
<1>3. ~(c < b)
  BY <1>1 DEF GoodHeap, Tiled
<1> QED BY <1>1, <1>2, <1>3

\* kfree: the block and its free neighbours become one free block, all blocks
\* in use stay as they are, and no two free blocks touch.
LEMMA FreeProps ==
  ASSUME NEW h, GoodHeap(h), Merged(h), IsUsed(h, heap_base), NEW b,
         IsUsed(h, b), b # heap_base
  PROVE  LET k == Free(h, b)
         IN  /\ GoodHeap(k) /\ Merged(k)
             /\ \A c : IsUsed(k, c) <=> (IsUsed(h, c) /\ c # b)
             /\ \A c : IsUsed(k, c) => k.blk[c] = h.blk[c]
<1> DEFINE h1 == SetFree(h, b, 1)
           h2 == Forward(h1, b)
           k == Backward(h2, b)
<1>0. b \in Blocks(h) /\ h.blk[b].is_free = 0 /\ Free(h, b) = k
  BY DEF IsUsed, Free, Coalesce
<1>1. /\ GoodHeap(h1) /\ Blocks(h1) = Blocks(h) /\ h1.blk[b].is_free = 1
      /\ \A c \in Blocks(h) : EndOf(h1, c) = EndOf(h, c)
      /\ \A c \in Blocks(h) \ {b} : h1.blk[c] = h.blk[c]
  <2>1. 1 \in {0, 1}
    OBVIOUS
  <2>2. /\ GoodHeap(h1) /\ Blocks(h1) = Blocks(h)
        /\ \A c \in Blocks(h) :
              /\ EndOf(h1, c) = EndOf(h, c)
              /\ h1.blk[c].is_free = (IF c = b THEN 1 ELSE h.blk[c].is_free)
              /\ c # b => h1.blk[c] = h.blk[c]
    BY <1>0, <2>1, FlagProps
  <2> HIDE DEF h1
  <2> QED BY <2>2, <1>0
<1> HIDE DEF h1
<1>2. \A c, d \in Blocks(h1) :
         EndOf(h1, c) = d /\ h1.blk[c].is_free = 1 /\ h1.blk[d].is_free = 1 => c = b \/ d = b
  BY <1>1 DEF Merged
<1>3. /\ GoodHeap(h2) /\ b \in Blocks(h2) /\ Blocks(h2) \subseteq Blocks(h)
      /\ h2.blk[b].is_free = 1
      /\ \A c \in Blocks(h2) \ {b} : h2.blk[c] = h1.blk[c] /\ EndOf(h2, c) = EndOf(h1, c)
      /\ \A c \in Blocks(h) \ Blocks(h2) : h.blk[c].is_free = 1 /\ c # b
      /\ \A d \in Blocks(h2) : EndOf(h2, b) = d => h2.blk[d].is_free = 0
  <2>1. CASE \E n \in NextBlock(h1, b) : h1.blk[n].is_free = 1
    <3>0. PICK n \in NextBlock(h1, b) : h1.blk[n].is_free = 1
      BY <2>1
    <3>1. n \in Blocks(h1) /\ h1.blk[n].is_free = 1 /\ EndOf(h1, b) = n /\ h2 = Merge(h1, b, n)
      BY <2>1, <3>0 DEF NextBlock, Forward
    <3>10. b \in Blocks(h1) /\ GoodHeap(h1)
      BY <1>0, <1>1
    <3> HIDE DEF h2
    <3>2. /\ GoodHeap(h2) /\ Blocks(h2) = Blocks(h1) \ {n} /\ b # n
          /\ EndOf(h2, b) = EndOf(h1, n) /\ h2.blk[b].is_free = h1.blk[b].is_free
          /\ \A c \in Blocks(h1) \ {b, n} : h2.blk[c] = h1.blk[c] /\ EndOf(h2, c) = EndOf(h1, c)
      BY <3>1, <3>10, MergeProps
    <3>3. ASSUME NEW d \in Blocks(h2), EndOf(h2, b) = d PROVE h2.blk[d].is_free = 0
      <4>1. d \in Blocks(h1) /\ d # n /\ d = EndOf(h1, n)
        BY <3>2, <3>3
      <4>2. n < d /\ b < n /\ n \in Nat /\ b \in Nat /\ d \in Nat
        BY <4>1, <3>1, <1>0, <1>1, EndProps
      <4>3. h1.blk[d].is_free = 0
        <5>1. h1.blk[d].is_free \in {0, 1}
          BY <4>1, <1>1, EndProps
        <5> QED BY <5>1, <4>1, <4>2, <3>1, <1>2
      <4> QED BY <4>1, <4>2, <4>3, <3>2
    <3>4. \A c \in Blocks(h) \ Blocks(h2) : h.blk[c].is_free = 1 /\ c # b
      BY <3>1, <3>2, <1>1
    <3> QED BY <3>2, <3>3, <3>4, <1>0, <1>1
  <2>2. CASE ~\E n \in NextBlock(h1, b) : h1.blk[n].is_free = 1
    <3>1. h2 = h1
      BY <2>2 DEF Forward
    <3>2. ASSUME NEW d \in Blocks(h1), EndOf(h1, b) = d PROVE h1.blk[d].is_free = 0
      <4>1. d \in Nat /\ d < HeapEnd
        <5>1. d < EndOf(h1, d) /\ EndOf(h1, d) <= HeapEnd /\ d \in Nat /\ EndOf(h1, d) \in Nat
          BY <3>2, <1>1, EndProps
        <5> QED BY <5>1, HeapAssumption
      <4>2. h1.blk[d].is_free \in {0, 1}
        BY <1>1, EndProps
      <4> QED BY <4>1, <4>2, <3>2, <2>2 DEF NextBlock
    <3> HIDE DEF h2
    <3> QED BY <3>1, <3>2, <1>0, <1>1
  <2> QED BY <2>1, <2>2
<1> HIDE DEF h2
<1>4. \A c, d \in Blocks(h2) : EndOf(h2, c) = d /\ h2.blk[c].is_free = 1 /\ h2.blk[d].is_free = 1 => d = b
  <2> SUFFICES ASSUME NEW c \in Blocks(h2), NEW d \in Blocks(h2), EndOf(h2, c) = d,
                      h2.blk[c].is_free = 1, h2.blk[d].is_free = 1, d # b
               PROVE  FALSE
    OBVIOUS
  <2>1. CASE c = b
    BY <2>1, <1>3
  <2>2. CASE c # b
    BY <2>2, <1>1, <1>2, <1>3
  <2> QED BY <2>1, <2>2
<1>5. CASE \E p \in PrevBlock(h2, b) : h2.blk[p].is_free = 1
  <2>1. PICK p \in PrevBlock(h2, b) : h2.blk[p].is_free = 1
    BY <1>5
  <2>2. p \in Blocks(h2) /\ EndOf(h2, p) = b
    BY DEF PrevBlock
  <2>3. \A q \in PrevBlock(h2, b) : q = p
    BY <2>2, <1>3, EndUnique DEF PrevBlock
  <2>4. k = Merge(h2, p, b)
    <3>1. (CHOOSE q \in PrevBlock(h2, b) : TRUE) = p
      BY <2>1, <2>3
    <3> QED BY <3>1, <1>5 DEF Backward
  <2> HIDE DEF k
  <2>5. /\ GoodHeap(k) /\ Blocks(k) = Blocks(h2) \ {b} /\ p # b
        /\ EndOf(k, p) = EndOf(h2, b) /\ k.blk[p].is_free = h2.blk[p].is_free
        /\ \A c \in Blocks(h2) \ {p, b} : k.blk[c] = h2.blk[c] /\ EndOf(k, c) = EndOf(h2, c)
    BY <2>2, <2>4, <1>3, MergeProps
  <2>6. Merged(k)
    <3> SUFFICES ASSUME NEW c \in Blocks(k), NEW d \in Blocks(k), EndOf(k, c) = d,
                        k.blk[c].is_free = 1, k.blk[d].is_free = 1
                 PROVE  FALSE
      BY DEF Merged
    <3>1. c \in Blocks(h2) \ {b} /\ d \in Blocks(h2) \ {b}
      BY <2>5
    <3>2. h2.blk[c].is_free = 1 /\ h2.blk[d].is_free = 1
      <4>1. \A x \in Blocks(k) : k.blk[x].is_free = 1 => h2.blk[x].is_free = 1
        BY <2>1, <2>5
      <4> QED BY <4>1
    <3>3. CASE c = p
      BY <3>1, <3>2, <3>3, <2>5, <1>3
    <3>4. CASE c # p
      BY <3>1, <3>2, <3>4, <2>5, <1>4
    <3> QED BY <3>3, <3>4
  <2>7. h2.blk[p] = h.blk[p] /\ h.blk[p].is_free = 1 /\ p \in Blocks(h)
    BY <2>1, <2>2, <2>5, <1>1, <1>3
  <2>8. \A c \in Blocks(k) \ {p} : k.blk[c] = h.blk[c] /\ c \in Blocks(h) /\ c # b
    BY <2>5, <1>1, <1>3
  <2>9. \A c : IsUsed(k, c) <=> (IsUsed(h, c) /\ c # b)
    BY <2>1, <2>5, <2>7, <2>8, <1>3 DEF IsUsed
  <2>10. \A c : IsUsed(k, c) => k.blk[c] = h.blk[c]
    BY <2>1, <2>5, <2>8 DEF IsUsed
  <2> QED BY <2>5, <2>6, <2>9, <2>10, <1>0
<1>6. CASE ~\E p \in PrevBlock(h2, b) : h2.blk[p].is_free = 1
  <2>1. k = h2
    BY <1>6 DEF Backward
  <2>2. Merged(h2)
    BY <1>4, <1>6 DEF Merged, PrevBlock
  <2>3. \A c : IsUsed(h2, c) <=> (IsUsed(h, c) /\ c # b)
    BY <1>1, <1>3 DEF IsUsed
  <2>4. \A c : IsUsed(h2, c) => h2.blk[c] = h.blk[c]
    BY <1>1, <1>3 DEF IsUsed
  <2> HIDE DEF k
  <2> QED BY <2>1, <2>2, <2>3, <2>4, <1>0, <1>3
<1> QED BY <1>5, <1>6

-----------------------------------------------------------------------------
\* What the client holds are blocks in use, other than the first, and large
\* enough.
LiveFits ==
    \A b \in DOMAIN live :
       /\ IsUsed(heap, b) /\ b # heap_base
       /\ live[b] \in Nat \ {0} /\ live[b] <= heap.blk[b].size

\* The inductive invariant.
IInv ==
    /\ GoodHeap(heap) /\ Merged(heap) /\ IsUsed(heap, heap_base)
    /\ live \in [DOMAIN live -> Nat]
    /\ LiveFits /\ NoLeak

\* The empty heap satisfies the invariant.
LEMMA InitInv == Init => IInv
<1> SUFFICES ASSUME Init PROVE IInv
  OBVIOUS
<1>1. /\ heap.blk = [a \in {heap_base} |-> Used(0)] /\ heap.heap_ptr = heap_base
      /\ heap = [blk |-> heap.blk, heap_ptr |-> heap.heap_ptr]
  BY DEF Init, EmptyHeap
<1>2. Blocks(heap) = {heap_base} /\ heap.blk[heap_base] = Used(0)
  BY <1>1 DEF Blocks
<1>3. Used(0) \in Header /\ Used(0).size = 0 /\ Used(0).is_free = 0
  BY DEF Used, Header
<1>4. EndOf(heap, heap_base) = MetaSize
  BY <1>2, <1>3, HeapAssumption DEF EndOf, heap_base
<1>5. HeapType(heap)
  BY <1>1, <1>2, <1>3 DEF HeapType
<1>6. Tiled(heap)
  BY <1>1, <1>2, <1>4, HeapAssumption DEF Tiled, heap_base
<1>7. Merged(heap) /\ IsUsed(heap, heap_base)
  BY <1>2, <1>3 DEF Merged, IsUsed
<1>8. live = [b \in {} |-> 0]
  BY DEF Init
<1>9. DOMAIN live = {} /\ live \in [DOMAIN live -> Nat]
  BY <1>8
<1> QED BY <1>2, <1>5, <1>6, <1>7, <1>9 DEF IInv, GoodHeap, LiveFits, NoLeak

\* kmalloc preserves the invariant, whether it finds a block or not.
LEMMA MallocStep ==
  ASSUME IInv, NEW n \in Nat, kmalloc(n)
  PROVE  IInv'
<1>1. CASE MallocBlock(heap, n) = Null
  <2>1. heap' = heap /\ live' = live
    BY <1>1 DEF kmalloc, MallocHeap
  <2> QED BY <2>1 DEF IInv, LiveFits, NoLeak
<1>2. CASE MallocBlock(heap, n) # Null
  <2>1. PICK b : b = MallocBlock(heap, n)
    OBVIOUS
  <2>2. heap' = MallocHeap(heap, n) /\ live' = With(b, n)
    BY <1>2, <2>1 DEF kmalloc
  <2>3. /\ GoodHeap(heap') /\ Merged(heap') /\ Blocks(heap') = Blocks(heap) \cup {b}
        /\ n # 0 /\ b # heap_base /\ ~IsUsed(heap, b)
        /\ IsUsed(heap', b) /\ n <= heap'.blk[b].size
        /\ \A c \in Blocks(heap) \ {b} : heap'.blk[c] = heap.blk[c]
    BY <1>2, <2>1, <2>2, MallocProps DEF IInv
  <2>4. \A c : IsUsed(heap, c) => c # b /\ IsUsed(heap', c) /\ heap'.blk[c] = heap.blk[c]
    BY <2>3 DEF IsUsed
  <2>5. DOMAIN live' = DOMAIN live \cup {b} /\ live'[b] = n
        /\ \A c \in DOMAIN live : c # b /\ live'[c] = live[c]
    BY <2>2, <2>4 DEF With, IInv, LiveFits
  <2>6. LiveFits'
    BY <2>3, <2>4, <2>5 DEF IInv, LiveFits
  <2>7. live' \in [DOMAIN live' -> Nat]
    BY <2>2, <2>5 DEF With, IInv
  <2>8. NoLeak'
    BY <2>3, <2>5 DEF IInv, NoLeak
  <2>9. IsUsed(heap', heap_base)
    BY <2>4 DEF IInv
  <2> QED BY <2>3, <2>6, <2>7, <2>8, <2>9 DEF IInv
<1> QED BY <1>1, <1>2

\* kfree preserves the invariant.
LEMMA FreeStep ==
  ASSUME IInv, NEW b \in DOMAIN live, kfree(b)
  PROVE  IInv'
<1>1. IsUsed(heap, b) /\ b # heap_base
  BY DEF IInv, LiveFits
<1>2. heap' = Free(heap, b) /\ live' = Without(b)
  BY DEF kfree
<1>3. /\ GoodHeap(heap') /\ Merged(heap')
      /\ \A c : IsUsed(heap', c) <=> (IsUsed(heap, c) /\ c # b)
      /\ \A c : IsUsed(heap', c) => heap'.blk[c] = heap.blk[c]
  BY <1>1, <1>2, FreeProps DEF IInv
<1>4. DOMAIN live' = DOMAIN live \ {b} /\ \A c \in DOMAIN live' : live'[c] = live[c]
  BY <1>2 DEF Without
<1>5. LiveFits'
  BY <1>3, <1>4 DEF IInv, LiveFits
<1>6. live' \in [DOMAIN live' -> Nat]
  BY <1>2, <1>4 DEF Without, IInv
<1>7. NoLeak'
  <2> SUFFICES ASSUME NEW c \in Blocks(heap'), heap'.blk[c].is_free # 1
               PROVE  c = heap_base \/ c \in DOMAIN live'
    BY DEF NoLeak
  <2>1. heap'.blk[c].is_free \in {0, 1}
    BY <1>3, EndProps
  <2>2. IsUsed(heap', c)
    BY <2>1 DEF IsUsed
  <2>3. IsUsed(heap, c) /\ c # b
    BY <2>2, <1>3
  <2> QED BY <2>3, <1>4 DEF IInv, NoLeak, IsUsed
<1>8. IsUsed(heap', heap_base)
  BY <1>1, <1>3 DEF IInv
<1> QED BY <1>3, <1>5, <1>6, <1>7, <1>8 DEF IInv

\* A krealloc that moves allocates first and frees the old block after.
LEMMA MoveStep ==
  ASSUME IInv, NEW b \in DOMAIN live, NEW n \in Nat, kreallocMove(b, n)
  PROVE  IInv'
<1>1. PICK c : c = MallocBlock(heap, n)
  OBVIOUS
<1>2. PICK g : g = MallocHeap(heap, n)
  OBVIOUS
<1>3. /\ c # Null /\ heap' = Free(g, b)
      /\ live' = [d \in (DOMAIN live \ {b}) \cup {c} |-> IF d = c THEN n ELSE live[d]]
  BY <1>1, <1>2 DEF kreallocMove
<1>4. /\ GoodHeap(g) /\ Merged(g) /\ Blocks(g) = Blocks(heap) \cup {c}
      /\ n # 0 /\ c # heap_base /\ ~IsUsed(heap, c)
      /\ IsUsed(g, c) /\ n <= g.blk[c].size
      /\ \A d \in Blocks(heap) \ {c} : g.blk[d] = heap.blk[d]
  BY <1>1, <1>2, <1>3, MallocProps DEF IInv
<1>5. \A d : IsUsed(heap, d) => d # c /\ IsUsed(g, d) /\ g.blk[d] = heap.blk[d]
  BY <1>4 DEF IsUsed
<1>6. IsUsed(heap, b) /\ b # heap_base /\ b # c /\ IsUsed(g, b) /\ IsUsed(g, heap_base)
  BY <1>5 DEF IInv, LiveFits
<1>7. /\ GoodHeap(heap') /\ Merged(heap')
      /\ \A d : IsUsed(heap', d) <=> (IsUsed(g, d) /\ d # b)
      /\ \A d : IsUsed(heap', d) => heap'.blk[d] = g.blk[d]
  BY <1>3, <1>4, <1>6, FreeProps
<1>8. /\ DOMAIN live' = (DOMAIN live \ {b}) \cup {c} /\ live'[c] = n
      /\ \A d \in DOMAIN live \ {b} : d # c /\ live'[d] = live[d]
  BY <1>3, <1>5 DEF IInv, LiveFits
<1>9. LiveFits'
  <2> SUFFICES ASSUME NEW d \in DOMAIN live'
               PROVE  /\ IsUsed(heap', d) /\ d # heap_base
                      /\ live'[d] \in Nat \ {0} /\ live'[d] <= heap'.blk[d].size
    BY DEF LiveFits
  <2>1. CASE d = c
    BY <2>1, <1>4, <1>6, <1>7, <1>8
  <2>2. CASE d # c
    <3>1. d \in DOMAIN live /\ d # b /\ live'[d] = live[d]
      BY <2>2, <1>8
    <3>2. /\ IsUsed(heap, d) /\ d # heap_base
          /\ live[d] \in Nat \ {0} /\ live[d] <= heap.blk[d].size
      BY <3>1 DEF IInv, LiveFits
    <3>3. IsUsed(heap', d) /\ heap'.blk[d] = heap.blk[d]
      BY <3>1, <3>2, <1>5, <1>7
    <3> QED BY <3>1, <3>2, <3>3
  <2> QED BY <2>1, <2>2
<1>10. live' \in [DOMAIN live' -> Nat]
  BY <1>3, <1>8 DEF IInv
<1>11. NoLeak'
  <2> SUFFICES ASSUME NEW d \in Blocks(heap'), heap'.blk[d].is_free # 1
               PROVE  d = heap_base \/ d \in DOMAIN live'
    BY DEF NoLeak
  <2>1. heap'.blk[d].is_free \in {0, 1}
    BY <1>7, EndProps
  <2>2. IsUsed(g, d) /\ d # b
    BY <2>1, <1>7 DEF IsUsed
  <2>3. d = c \/ (d \in Blocks(heap) /\ heap.blk[d].is_free = 0)
    BY <2>2, <1>4 DEF IsUsed
  <2> QED BY <2>2, <2>3, <1>8 DEF IInv, NoLeak
<1>12. IsUsed(heap', heap_base)
  BY <1>6, <1>7
<1> QED BY <1>7, <1>9, <1>10, <1>11, <1>12 DEF IInv

\* Every step preserves the invariant.
LEMMA NextInv == IInv /\ [Next]_vars => IInv'
<1> SUFFICES ASSUME IInv, [Next]_vars PROVE IInv'
  OBVIOUS
<1>1. ASSUME NEW n \in Sizes, kmalloc(n) PROVE IInv'
  BY <1>1, MallocStep, SizesAssumption
<1>2. ASSUME NEW b \in DOMAIN live, kfree(b) PROVE IInv'
  BY <1>2, FreeStep
<1>3. ASSUME NEW b \in DOMAIN live, kreallocFree(b) PROVE IInv'
  BY <1>3, FreeStep DEF kreallocFree
<1>4. ASSUME NEW b \in DOMAIN live, NEW n \in Sizes, kreallocInPlace(b, n) PROVE IInv'
  <2>1. heap' = heap /\ n \in Nat \ {0} /\ n <= heap.blk[b].size
    <3>1. heap' = heap /\ n # 0 /\ heap.blk[b].size >= n /\ n \in Nat
      BY <1>4, SizesAssumption DEF kreallocInPlace
    <3>2. heap.blk[b].size \in Nat
      BY EndProps DEF IInv, LiveFits, IsUsed
    <3> QED BY <3>1, <3>2
  <2>2. /\ live' = [live EXCEPT ![b] = n] /\ DOMAIN live' = DOMAIN live
        /\ \A c \in DOMAIN live : live'[c] = IF c = b THEN n ELSE live[c]
    BY <1>4 DEF kreallocInPlace, IInv
  <2>3. LiveFits' /\ NoLeak'
    BY <2>1, <2>2 DEF IInv, LiveFits, NoLeak
  <2>4. live' \in [DOMAIN live' -> Nat]
    BY <2>1, <2>2 DEF IInv
  <2> QED BY <2>1, <2>3, <2>4 DEF IInv
<1>5. ASSUME NEW b \in DOMAIN live, NEW n \in Sizes, kreallocMove(b, n) PROVE IInv'
  BY <1>5, MoveStep, SizesAssumption
<1>6. ASSUME UNCHANGED vars PROVE IInv'
  BY <1>6 DEF vars, IInv, LiveFits, NoLeak
<1> QED BY <1>1, <1>2, <1>3, <1>4, <1>5, <1>6 DEF Next, kreallocFails

\* The inductive invariant holds in every reachable state.
THEOREM Invariance == Spec => []IInv
<1> QED BY InitInv, NextInv, PTL DEF Spec

\* The heap and what the client holds keep their types.
THEOREM TypeCorrect == Spec => []TypeOK
<1>1. IInv => TypeOK
  BY DEF IInv, GoodHeap, HeapType, LiveFits, IsUsed, TypeOK
<1> QED BY <1>1, Invariance, PTL

\* The chain of headers tiles the heap after every sequence of calls.
THEOREM TilesHolds == Spec => []ChainTiles
<1>1. IInv => ChainTiles
  BY DEF IInv, GoodHeap, ChainTiles
<1> QED BY <1>1, Invariance, PTL

\* kfree leaves no two free blocks side by side.
THEOREM MergedHolds == Spec => []FullyMerged
<1>1. IInv => FullyMerged
  BY DEF IInv, FullyMerged
<1> QED BY <1>1, Invariance, PTL

\* No block stays in use that nobody holds.
THEOREM NoLeakHolds == Spec => []NoLeak
<1>1. IInv => NoLeak
  BY DEF IInv
<1> QED BY <1>1, Invariance, PTL

-----------------------------------------------------------------------------
\* Two blocks in use never share an address, as far as the client uses them.
LEMMA Apart ==
  ASSUME NEW h, GoodHeap(h), NEW b \in Blocks(h), NEW c \in Blocks(h), b # c,
         NEW n \in Nat, NEW m \in Nat, n <= h.blk[b].size, m <= h.blk[c].size
  PROVE  /\ b + MetaSize \in Nat /\ b + MetaSize + n <= HeapEnd
         /\ (b + MetaSize) + n <= c + MetaSize \/ (c + MetaSize) + m <= b + MetaSize
<1>1. /\ b \in Nat /\ h.blk[b].size \in Nat /\ EndOf(h, b) <= HeapEnd
      /\ c \in Nat /\ h.blk[c].size \in Nat
  BY EndProps
<1>2. EndOf(h, b) = b + MetaSize + h.blk[b].size /\ EndOf(h, c) = c + MetaSize + h.blk[c].size
  BY DEF EndOf
<1>3. EndOf(h, b) <= c \/ EndOf(h, c) <= b
  <2>1. b < c \/ c < b
    BY <1>1
  <2> QED BY <2>1 DEF GoodHeap, Tiled
<1> QED BY <1>1, <1>2, <1>3, HeapAssumption

\* The domain of the ranges, and the pointer of a block.
LEMMA RangesProps ==
  ASSUME IInv
  PROVE  /\ DOMAIN Ranges = {b + MetaSize : b \in DOMAIN live}
         /\ \A b \in DOMAIN live : b \in Nat /\ Ranges[b + MetaSize] = live[b]
<1>1. \A b \in DOMAIN live : b \in Nat
  BY EndProps DEF IInv, LiveFits, IsUsed
<1>2. DOMAIN Ranges = {b + MetaSize : b \in DOMAIN live}
  BY DEF Ranges
<1>3. ASSUME NEW b \in DOMAIN live PROVE Ranges[b + MetaSize] = live[b]
  <2>1. (b + MetaSize) - MetaSize = b
    BY <1>1, HeapAssumption
  <2> QED BY <2>1, <1>2 DEF Ranges
<1> QED BY <1>1, <1>2, <1>3

\* The pointers of all held blocks but one are all pointers but its own.
LEMMA PtrsWithout ==
  ASSUME IInv, NEW b \in DOMAIN live
  PROVE  {c + MetaSize : c \in DOMAIN live \ {b}} = DOMAIN Ranges \ {b + MetaSize}
<1>1. \A c \in DOMAIN live : c \in Nat
  BY RangesProps
<1>2. \A c \in DOMAIN live \ {b} : c + MetaSize # b + MetaSize
  BY <1>1, HeapAssumption
<1>3. DOMAIN Ranges = {c + MetaSize : c \in DOMAIN live}
  BY RangesProps
<1> QED BY <1>2, <1>3

\* A step leaves the blocks S as they are and gives b the length n.
Leaves(S, b, n) ==
    /\ DOMAIN live' = S \cup {b} /\ S \subseteq DOMAIN live
    /\ live'[b] = n /\ \A c \in S \ {b} : live'[c] = live[c]

\* The function of the ranges after such a step.
RangesWith(S, b, n) ==
    [q \in {c + MetaSize : c \in S} \cup {b + MetaSize} |->
        IF q = b + MetaSize THEN n ELSE Ranges[q]]

\* The ranges after a step that leaves the blocks S and gives b the length n.
LEMMA RangesAfter ==
  ASSUME IInv, IInv', NEW S, NEW b, NEW n, Leaves(S, b, n)
  PROVE  Ranges' = RangesWith(S, b, n)
<1>0. /\ DOMAIN live' = S \cup {b} /\ S \subseteq DOMAIN live
      /\ live'[b] = n /\ \A c \in S \ {b} : live'[c] = live[c]
  BY DEF Leaves
<1>1. Ranges' = [p \in {c + MetaSize : c \in DOMAIN live'} |-> live'[p - MetaSize]]
  BY DEF Ranges
<1>2. {c + MetaSize : c \in DOMAIN live'} = {c + MetaSize : c \in S} \cup {b + MetaSize}
  BY <1>0
<1>3. \A c \in DOMAIN live' : c \in Nat
  BY EndProps DEF IInv, LiveFits, IsUsed
<1>4. ASSUME NEW c \in DOMAIN live'
      PROVE  live'[(c + MetaSize) - MetaSize]
               = IF c + MetaSize = b + MetaSize THEN n ELSE Ranges[c + MetaSize]
  <2>0. b \in Nat /\ c \in Nat
    BY <1>0, <1>3
  <2>1. (c + MetaSize) - MetaSize = c /\ (c + MetaSize = b + MetaSize <=> c = b)
    BY <2>0, HeapAssumption
  <2>2. CASE c = b
    BY <2>1, <2>2, <1>0
  <2>3. CASE c # b
    <3>1. c \in S \ {b} /\ c \in DOMAIN live
      BY <2>3, <1>0
    <3>2. Ranges[c + MetaSize] = live[c]
      BY <3>1, RangesProps
    <3> QED BY <2>1, <2>3, <3>1, <3>2, <1>0
  <2> QED BY <2>2, <2>3
<1>5. \A q \in {c + MetaSize : c \in DOMAIN live'} :
         live'[q - MetaSize] = IF q = b + MetaSize THEN n ELSE Ranges[q]
  BY <1>4
<1> QED BY <1>1, <1>2, <1>5 DEF RangesWith

\* A block in use in a heap h that keeps what the client holds, other than the
\* blocks it holds, fits the abstract allocator.
LEMMA BlockFits ==
  ASSUME IInv, NEW h, GoodHeap(h), NEW b, IsUsed(h, b), NEW n \in Nat \ {0}, n <= h.blk[b].size,
         NEW S, S \subseteq DOMAIN live, b \notin S,
         \A c \in S : IsUsed(h, c) /\ h.blk[c] = heap.blk[c],
         NEW r, DOMAIN r = {c + MetaSize : c \in S},
         \A c \in S : r[c + MetaSize] = live[c]
  PROVE  A!Fits(r, b + MetaSize, n) /\ b + MetaSize \in 0 .. HeapEnd /\ n \in 0 .. HeapEnd
<1>1. b \in Blocks(h) /\ b \in Nat
  BY EndProps DEF IsUsed
<1>2. b + MetaSize \in Nat /\ b + MetaSize + n <= HeapEnd
  <2>1. h.blk[b].size \in Nat /\ EndOf(h, b) <= HeapEnd
    BY <1>1, EndProps
  <2> QED BY <2>1, <1>1, HeapAssumption DEF EndOf
<1>3. ASSUME NEW q \in DOMAIN r
      PROVE  (b + MetaSize) + n <= q \/ q + r[q] <= b + MetaSize
  <2>1. PICK c \in S : q = c + MetaSize
    OBVIOUS
  <2>2. c \in Blocks(h) /\ c # b /\ r[q] = live[c] /\ live[c] \in Nat /\ live[c] <= h.blk[c].size
    BY <2>1 DEF IInv, LiveFits, IsUsed
  <2> QED BY <1>1, <2>1, <2>2, Apart
<1> QED BY <1>2, <1>3, HeapAssumption DEF A!Fits

\* An allocation is an Alloc of the abstract allocator, a failed one a stutter.
LEMMA AllocRefines ==
  ASSUME IInv, IInv', NEW n \in Nat, kmalloc(n)
  PROVE  [A!Next]_Ranges
<1>1. CASE MallocBlock(heap, n) = Null
  BY <1>1 DEF kmalloc, Ranges
<1>2. CASE MallocBlock(heap, n) # Null
  <2>1. PICK b : b = MallocBlock(heap, n)
    OBVIOUS
  <2>2. heap' = MallocHeap(heap, n) /\ live' = With(b, n)
    BY <1>2, <2>1 DEF kmalloc
  <2>3. /\ GoodHeap(heap') /\ n # 0 /\ b # heap_base /\ ~IsUsed(heap, b)
        /\ IsUsed(heap', b) /\ n <= heap'.blk[b].size
        /\ \A c \in Blocks(heap) \ {b} : heap'.blk[c] = heap.blk[c]
        /\ Blocks(heap') = Blocks(heap) \cup {b}
    BY <1>2, <2>1, <2>2, MallocProps DEF IInv
  <2>4. \A c \in DOMAIN live : c # b /\ IsUsed(heap', c) /\ heap'.blk[c] = heap.blk[c]
    BY <2>3 DEF IInv, LiveFits, IsUsed
  <2>5. DOMAIN live' = DOMAIN live \cup {b} /\ live'[b] = n
        /\ \A c \in DOMAIN live \ {b} : live'[c] = live[c]
    BY <2>2 DEF With
  <2>6. Ranges' = A!With(Ranges, b + MetaSize, n)
    <3>1. Leaves(DOMAIN live, b, n)
      BY <2>5 DEF Leaves
    <3>2. Ranges' = RangesWith(DOMAIN live, b, n)
      BY <3>1, RangesAfter
    <3> QED BY <3>2, RangesProps DEF RangesWith, A!With
  <2>7. A!Fits(Ranges, b + MetaSize, n) /\ b + MetaSize \in 0 .. HeapEnd /\ n \in 0 .. HeapEnd
    <3>1. b \notin DOMAIN live /\ n \in Nat \ {0}
      BY <2>3, <2>4
    <3> QED BY <2>3, <2>4, <3>1, BlockFits, RangesProps
  <2> QED BY <2>6, <2>7 DEF A!Next, A!Alloc
<1> QED BY <1>1, <1>2

\* A kfree is a Release.
LEMMA ReleaseRefines ==
  ASSUME IInv, IInv', NEW b \in DOMAIN live, kfree(b)
  PROVE  A!Next
<1>1. live' = Without(b)
  BY DEF kfree
<1>2. DOMAIN live' = DOMAIN live \ {b} /\ \A c \in DOMAIN live' : live'[c] = live[c]
  BY <1>1 DEF Without
<1>3. {c + MetaSize : c \in DOMAIN live'} = DOMAIN Ranges \ {b + MetaSize}
  BY <1>2, PtrsWithout
<1>4. Ranges' = [p \in {c + MetaSize : c \in DOMAIN live'} |-> live'[p - MetaSize]]
  BY DEF Ranges
<1>5. \A p \in {c + MetaSize : c \in DOMAIN live'} : live'[p - MetaSize] = Ranges[p]
  <2> SUFFICES ASSUME NEW c \in DOMAIN live'
               PROVE  live'[(c + MetaSize) - MetaSize] = Ranges[c + MetaSize]
    OBVIOUS
  <2>1. c \in DOMAIN live /\ c \in Nat /\ Ranges[c + MetaSize] = live[c]
    BY <1>2, RangesProps
  <2>2. (c + MetaSize) - MetaSize = c
    BY <2>1, HeapAssumption
  <2> QED BY <2>1, <2>2, <1>2
<1>6. Ranges' = A!Without(b + MetaSize)
  BY <1>3, <1>4, <1>5 DEF A!Without
<1>7. b + MetaSize \in DOMAIN Ranges
  BY RangesProps
<1> QED BY <1>6, <1>7 DEF A!Next, A!Release

\* A krealloc in place is a Resize.
LEMMA ResizeRefines ==
  ASSUME IInv, IInv', NEW b \in DOMAIN live, NEW n \in Nat, kreallocInPlace(b, n)
  PROVE  A!Next
<1>1. /\ n # 0 /\ heap.blk[b].size >= n
      /\ live' = [live EXCEPT ![b] = n]
  BY DEF kreallocInPlace
<1>2. DOMAIN live' = DOMAIN live \cup {b} /\ live'[b] = n
      /\ \A c \in DOMAIN live \ {b} : live'[c] = live[c]
  BY <1>1 DEF IInv
<1>3. Ranges' = A!With(Ranges, b + MetaSize, n)
  <2>1. Leaves(DOMAIN live, b, n)
    BY <1>2 DEF Leaves
  <2>2. Ranges' = RangesWith(DOMAIN live, b, n)
    BY <2>1, RangesAfter
  <2> QED BY <2>2, RangesProps DEF RangesWith, A!With
<1>4. IsUsed(heap, b) /\ heap.blk[b].size \in Nat
  BY EndProps DEF IInv, LiveFits, IsUsed
<1>5. b + MetaSize \in DOMAIN Ranges
  BY RangesProps
<1>6. A!Fits(A!Without(b + MetaSize), b + MetaSize, n) /\ n \in 0 .. HeapEnd
      /\ b + MetaSize \in 0 .. HeapEnd
  <2> DEFINE r == A!Without(b + MetaSize)
             S == DOMAIN live \ {b}
  <2>1. DOMAIN r = {c + MetaSize : c \in S} /\ \A q \in DOMAIN r : r[q] = Ranges[q]
    BY PtrsWithout DEF A!Without
  <2>2. \A c \in S : r[c + MetaSize] = live[c]
    BY <2>1, RangesProps
  <2>3. \A c \in S : IsUsed(heap, c) /\ heap.blk[c] = heap.blk[c]
    BY DEF IInv, LiveFits
  <2>4. n \in Nat \ {0} /\ n <= heap.blk[b].size /\ GoodHeap(heap) /\ S \subseteq DOMAIN live /\ b \notin S
    BY <1>1, <1>4 DEF IInv
  <2> HIDE DEF r, S
  <2>5. A!Fits(r, b + MetaSize, n) /\ b + MetaSize \in 0 .. HeapEnd /\ n \in 0 .. HeapEnd
    BY <2>1, <2>2, <2>3, <2>4, <1>4, BlockFits
  <2> QED BY <2>5 DEF r
<1> QED BY <1>3, <1>5, <1>6 DEF A!Next, A!Resize

\* A krealloc that moves is a Move.
LEMMA MoveRefines ==
  ASSUME IInv, IInv', NEW b \in DOMAIN live, NEW n \in Nat, kreallocMove(b, n)
  PROVE  A!Next
<1>1. PICK c : c = MallocBlock(heap, n)
  OBVIOUS
<1>2. PICK g : g = MallocHeap(heap, n)
  OBVIOUS
<1>3. /\ c # Null
      /\ live' = [d \in (DOMAIN live \ {b}) \cup {c} |-> IF d = c THEN n ELSE live[d]]
  BY <1>1 DEF kreallocMove
<1>4. /\ GoodHeap(g) /\ n # 0 /\ ~IsUsed(heap, c) /\ IsUsed(g, c) /\ n <= g.blk[c].size
      /\ Blocks(g) = Blocks(heap) \cup {c}
      /\ \A d \in Blocks(heap) \ {c} : g.blk[d] = heap.blk[d]
  BY <1>1, <1>2, <1>3, MallocProps DEF IInv
<1>5. \A d \in DOMAIN live : d # c /\ IsUsed(g, d) /\ g.blk[d] = heap.blk[d]
  BY <1>4 DEF IInv, LiveFits, IsUsed
<1>6. DOMAIN live' = (DOMAIN live \ {b}) \cup {c} /\ live'[c] = n
      /\ \A d \in (DOMAIN live \ {b}) \ {c} : live'[d] = live[d]
  BY <1>3
<1>7. Ranges' = RangesWith(DOMAIN live \ {b}, c, n)
  <2>1. Leaves(DOMAIN live \ {b}, c, n)
    BY <1>6 DEF Leaves
  <2> QED BY <2>1, RangesAfter
<1>8. Ranges' = A!With(A!Without(b + MetaSize), c + MetaSize, n)
  <2>1. {d + MetaSize : d \in DOMAIN live \ {b}} = DOMAIN Ranges \ {b + MetaSize}
    BY PtrsWithout
  <2> QED BY <2>1, <1>7 DEF RangesWith, A!With, A!Without
<1>9. b + MetaSize \in DOMAIN Ranges
  BY RangesProps
<1>10. A!Fits(Ranges, c + MetaSize, n) /\ c + MetaSize \in 0 .. HeapEnd /\ n \in 0 .. HeapEnd
  <2>1. c \notin DOMAIN live /\ n \in Nat \ {0}
    BY <1>4, <1>5
  <2> QED BY <1>4, <1>5, <2>1, BlockFits, RangesProps
<1> QED BY <1>8, <1>9, <1>10 DEF A!Next, A!Move

\* kmalloc.c implements the abstract allocator: every allocation it hands out
\* lies in the heap, overlaps no other, and stays where it is until it is freed.
THEOREM Refinement == Spec => ImplementsAllocator
<1>1. Init => A!Init
  BY DEF Init, A!Init, Ranges
<1>2. IInv /\ IInv' /\ [Next]_vars => [A!Next]_Ranges
  <2> SUFFICES ASSUME IInv, IInv', [Next]_vars PROVE [A!Next]_Ranges
    OBVIOUS
  <2>1. ASSUME NEW n \in Sizes, kmalloc(n) PROVE [A!Next]_Ranges
    BY <2>1, AllocRefines, SizesAssumption
  <2>2. ASSUME NEW b \in DOMAIN live, kfree(b) PROVE [A!Next]_Ranges
    BY <2>2, ReleaseRefines
  <2>3. ASSUME NEW b \in DOMAIN live, kreallocFree(b) PROVE [A!Next]_Ranges
    BY <2>3, ReleaseRefines DEF kreallocFree
  <2>4. ASSUME NEW b \in DOMAIN live, NEW n \in Sizes, kreallocInPlace(b, n)
        PROVE  [A!Next]_Ranges
    BY <2>4, ResizeRefines, SizesAssumption
  <2>5. ASSUME NEW b \in DOMAIN live, NEW n \in Sizes, kreallocMove(b, n)
        PROVE  [A!Next]_Ranges
    BY <2>5, MoveRefines, SizesAssumption
  <2>6. ASSUME UNCHANGED vars PROVE Ranges' = Ranges
    BY <2>6 DEF vars, Ranges
  <2> QED BY <2>1, <2>2, <2>3, <2>4, <2>5, <2>6 DEF Next, kreallocFails
<1> QED BY <1>1, <1>2, Invariance, PTL DEF Spec, ImplementsAllocator, A!Spec

-----------------------------------------------------------------------------
(* The walks of find_free_block and find_prev_block.                          *)

\* The least element of a set of naturals.
LEMMA Smallest ==
    ASSUME NEW S \in SUBSET Nat, S # {}
    PROVE  \E m \in S : \A k \in S : m <= k
  <1>1. PICK m \in S : \A k \in S : ~(<<k, m>> \in OpToRel(<, Nat))
    BY WFMin, NatLessThanWellFounded, Zenon
  <1>2. \A k \in S : ~(k < m) BY <1>1, Zenon DEF OpToRel
  <1> QED BY <1>2

\* Induction on a set: what holds at 0 and goes on, holds everywhere.
LEMMA SetInduction ==
    ASSUME NEW S \in SUBSET Nat, 0 \in S, \A n \in S : n + 1 \in S
    PROVE  \A n \in Nat : n \in S
<1> SUFFICES ASSUME Nat \ S # {} PROVE FALSE
  OBVIOUS
<1>1. PICK m \in Nat \ S : \A k \in Nat \ S : m <= k
  BY Smallest
<1>2. m # 0 /\ m - 1 \in Nat /\ ~(m <= m - 1)
  OBVIOUS
<1>3. m - 1 \in S
  BY <1>1, <1>2
<1>4. (m - 1) + 1 = m
  OBVIOUS
<1> QED BY <1>3, <1>4

\* No block begins inside another, or at its end but the next.
LEMMA NextUp ==
    ASSUME NEW h, GoodHeap(h), NEW b \in Blocks(h), NEW c \in Blocks(h)
    PROVE  /\ b \in Nat /\ c \in Nat /\ b < HeapEnd /\ EndOf(h, b) \in Nat
           /\ b < EndOf(h, b) /\ EndOf(h, b) <= HeapEnd
           /\ b < c => EndOf(h, b) <= c /\ EndOf(h, b) \in Blocks(h)
           /\ EndOf(h, b) \notin Blocks(h) => b = h.heap_ptr
<1>1. b \in Nat /\ c \in Nat /\ EndOf(h, b) \in Nat /\ b < EndOf(h, b) /\ EndOf(h, b) <= HeapEnd
  BY EndProps
<1>2. b < HeapEnd
  BY <1>1, HeapAssumption
<1>3. b < c => EndOf(h, b) <= c
  BY DEF GoodHeap, Tiled
<1>4. EndOf(h, b) \notin Blocks(h) => b = h.heap_ptr
  BY DEF GoodHeap, Tiled
<1>5. c <= h.heap_ptr
  BY DEF GoodHeap, Tiled
<1>6. b < c => b # h.heap_ptr
  BY <1>1, <1>5
<1> QED BY <1>1, <1>2, <1>3, <1>4, <1>6

\* Every block but the first has one before it.
LEMMA PrevExists ==
    ASSUME NEW h, GoodHeap(h), NEW b \in Blocks(h) \ {heap_base}
    PROVE  \E p \in Blocks(h) : EndOf(h, p) = b
<1> DEFINE S == {m \in Nat : \E c \in Blocks(h) : c < b /\ m = b - c}
<1>1. b \in Nat /\ 0 < b /\ heap_base \in Blocks(h)
  BY DEF GoodHeap, Tiled, heap_base
<1>2. b - 0 \in S
  BY <1>1 DEF heap_base
<1>3. PICK m \in S : \A k \in S : m <= k
  BY <1>2, Smallest
<1>4. PICK c \in Blocks(h) : c < b /\ m = b - c
  BY <1>3
<1>5. /\ c \in Nat /\ EndOf(h, c) <= b /\ EndOf(h, c) \in Blocks(h) /\ EndOf(h, c) \in Nat
      /\ c < EndOf(h, c)
  BY <1>4, NextUp
<1>6. ASSUME EndOf(h, c) # b PROVE FALSE
  <2>1. EndOf(h, c) < b
    BY <1>1, <1>5, <1>6
  <2>2. b - EndOf(h, c) \in Nat /\ b - EndOf(h, c) < b - c
    BY <1>1, <1>5, <2>1
  <2>3. b - EndOf(h, c) \in S
    BY <1>5, <2>1, <2>2
  <2> QED BY <1>1, <1>3, <1>4, <1>5, <2>2, <2>3
<1> QED BY <1>6

\* What the walk of find_free_block finds from block b on.
Above(h, b, n) == {c \in Fitting(h, n) : b <= c}
Lowest(h, b, n) == {c \in Above(h, b, n) : \A d \in Above(h, b, n) : c <= d}
FoundFrom(h, b, n) ==
    IF b \in Blocks(h) /\ Above(h, b, n) # {} THEN CHOOSE c : c \in Lowest(h, b, n) ELSE Null

LEMMA LowestOne ==
    ASSUME NEW h, GoodHeap(h), NEW b, NEW n, Above(h, b, n) # {}
    PROVE  \E c : Lowest(h, b, n) = {c}
<1>1. Above(h, b, n) \in SUBSET Nat
  BY DEF Above, Fitting, GoodHeap, Tiled
<1>2. PICK c \in Above(h, b, n) : \A d \in Above(h, b, n) : c <= d
  BY <1>1, Smallest
<1>3. \A d \in Lowest(h, b, n) : d = c
  BY <1>1, <1>2 DEF Lowest
<1>4. c \in Lowest(h, b, n)
  BY <1>2 DEF Lowest
<1> QED BY <1>3, <1>4

LEMMA FoundStep ==
    ASSUME NEW h, GoodHeap(h), NEW b \in 0 .. HeapEnd, NEW n \in Nat
    PROVE  FoundFrom(h, b, n) =
             IF b >= HeapEnd \/ b \notin Blocks(h) THEN Null
             ELSE IF h.blk[b].is_free = 1 /\ h.blk[b].size >= n THEN b
             ELSE FoundFrom(h, EndOf(h, b), n)
<1>1. CASE b \notin Blocks(h)
  BY <1>1 DEF FoundFrom
<1>2. CASE b \in Blocks(h)
  <2>1. b \in Nat /\ b < HeapEnd /\ EndOf(h, b) \in Nat /\ b < EndOf(h, b)
    BY <1>2, NextUp
  <2>2. CASE h.blk[b].is_free = 1 /\ h.blk[b].size >= n
    <3>1. b \in Above(h, b, n)
      BY <1>2, <2>1, <2>2 DEF Above, Fitting
    <3>2. b \in Lowest(h, b, n)
      BY <3>1 DEF Lowest, Above
    <3>3. (CHOOSE c : c \in Lowest(h, b, n)) = b
      BY <3>1, <3>2, LowestOne
    <3>4. ~(b >= HeapEnd)
      BY <2>1, HeapAssumption
    <3> QED BY <3>1, <3>3, <3>4, <1>2, <2>2 DEF FoundFrom
  <2>3. CASE ~(h.blk[b].is_free = 1 /\ h.blk[b].size >= n)
    <3>1. b \notin Fitting(h, n)
      BY <2>3 DEF Fitting
    <3>2. \A c \in Fitting(h, n) : c \in Blocks(h)
      BY DEF Fitting
    <3>3. \A c \in Fitting(h, n) : b <= c <=> EndOf(h, b) <= c
      <4> SUFFICES ASSUME NEW c \in Fitting(h, n) PROVE b <= c <=> EndOf(h, b) <= c
        OBVIOUS
      <4>1. c \in Nat /\ c # b /\ (b < c => EndOf(h, b) <= c)
        BY <3>1, <3>2, <1>2, NextUp
      <4> QED BY <4>1, <2>1
    <3>4. Above(h, b, n) = Above(h, EndOf(h, b), n)
      BY <3>3 DEF Above
    <3>5. Lowest(h, b, n) = Lowest(h, EndOf(h, b), n)
      BY <3>4 DEF Lowest
    <3>6. Above(h, b, n) # {} => EndOf(h, b) \in Blocks(h)
      <4> SUFFICES ASSUME NEW c \in Above(h, b, n) PROVE EndOf(h, b) \in Blocks(h)
        OBVIOUS
      <4>1. c \in Blocks(h) /\ c # b /\ b <= c
        BY <3>1, <3>2 DEF Above
      <4> QED BY <4>1, <1>2, <2>1, NextUp
    <3>7. FoundFrom(h, b, n) = FoundFrom(h, EndOf(h, b), n)
      BY <3>4, <3>5, <3>6, <1>2 DEF FoundFrom
    <3>8. ~(b >= HeapEnd)
      BY <2>1, HeapAssumption
    <3> QED BY <3>7, <3>8, <1>2, <2>3
  <2> QED BY <2>2, <2>3
<1> QED BY <1>1, <1>2

\* The loop of find_free_block finds the lowest block that fits.
LEMMA FindWalkFinds ==
    ASSUME GoodHeap(heap), NEW n \in Nat
    PROVE  FindWalk(n) = FoundFrom(heap, heap_base, n)
<1> DEFINE G(f) == [b \in 0 .. HeapEnd |->
                      IF b >= HeapEnd \/ b \notin Blocks(heap) THEN Null
                      ELSE IF heap.blk[b].is_free = 1 /\ heap.blk[b].size >= n THEN b
                      ELSE f[EndOf(heap, b)]]
           ans == [b \in 0 .. HeapEnd |-> FoundFrom(heap, b, n)]
           walk == CHOOSE f : f = G(f)
<1>1. ans = G(ans)
  <2> SUFFICES ASSUME NEW b \in 0 .. HeapEnd PROVE ans[b] = G(ans)[b]
    OBVIOUS
  <2>1. b \in Blocks(heap) => EndOf(heap, b) \in 0 .. HeapEnd
    BY NextUp
  <2>2. b \in Blocks(heap) => ans[EndOf(heap, b)] = FoundFrom(heap, EndOf(heap, b), n)
    BY <2>1
  <2> QED BY <2>2, FoundStep
<1>2. walk = G(walk)
  <2> HIDE DEF G, ans
  <2> QED BY <1>1
<1> HIDE DEF walk
<1>3. \A b \in 0 .. HeapEnd : walk[b] = FoundFrom(heap, b, n)
  <2> DEFINE S == {m \in Nat : \E b \in 0 .. HeapEnd : m = HeapEnd - b /\ walk[b] # FoundFrom(heap, b, n)}
  <2> SUFFICES ASSUME NEW a \in 0 .. HeapEnd, walk[a] # FoundFrom(heap, a, n) PROVE FALSE
    OBVIOUS
  <2>0. HeapEnd \in Nat
    BY HeapAssumption
  <2>1. HeapEnd - a \in S
    BY <2>0
  <2>2. PICK m \in S : \A k \in S : m <= k
    BY <2>1, Smallest
  <2>3. PICK b \in 0 .. HeapEnd : m = HeapEnd - b /\ walk[b] # FoundFrom(heap, b, n)
    BY <2>2
  <2>4. walk[b] = IF b >= HeapEnd \/ b \notin Blocks(heap) THEN Null
                  ELSE IF heap.blk[b].is_free = 1 /\ heap.blk[b].size >= n THEN b
                  ELSE walk[EndOf(heap, b)]
    BY <1>2
  <2>5. b \in Blocks(heap) /\ walk[EndOf(heap, b)] # FoundFrom(heap, EndOf(heap, b), n)
    BY <2>3, <2>4, FoundStep
  <2>6. EndOf(heap, b) \in Nat /\ b < EndOf(heap, b) /\ EndOf(heap, b) <= HeapEnd
    BY <2>5, NextUp
  <2>7. HeapEnd - EndOf(heap, b) \in S
    BY <2>0, <2>5, <2>6
  <2> QED BY <2>0, <2>2, <2>3, <2>6, <2>7
<1>4. FindWalk(n) = walk[heap_base]
  BY Zenon DEF FindWalk, walk
<1>5. heap_base \in 0 .. HeapEnd
  BY HeapAssumption DEF heap_base
<1> QED BY <1>3, <1>4, <1>5

\* What the walk of prev_block(target) finds from b on, with p before it.
LastEnd(h) == EndOf(h, h.heap_ptr)
PrevFrom(h, b, p, target) ==
    IF b >= HeapEnd \/ b = target THEN p
    ELSE IF b \notin Blocks(h) THEN Null
    ELSE IF target \in Blocks(h) /\ b < target THEN CHOOSE c \in Blocks(h) : EndOf(h, c) = target
    ELSE IF LastEnd(h) >= HeapEnd \/ LastEnd(h) = target THEN h.heap_ptr
    ELSE Null

LEMMA PrevStep ==
    ASSUME NEW h, GoodHeap(h), NEW b \in Blocks(h), NEW p, NEW target \in Nat, b # target
    PROVE  PrevFrom(h, b, p, target) = PrevFrom(h, EndOf(h, b), b, target)
<1> DEFINE e == EndOf(h, b)
<1>1. /\ b \in Nat /\ b < HeapEnd /\ e \in Nat /\ b < e /\ e <= HeapEnd /\ HeapEnd \in Nat
      /\ e \notin Blocks(h) => b = h.heap_ptr
  BY NextUp, HeapAssumption
<1>2. target \in Blocks(h) => (b < target => e <= target /\ e \in Blocks(h)) /\ target < HeapEnd
  BY NextUp
<1>3. \A c \in Blocks(h) : EndOf(h, c) = e => c = b
  BY EndUnique
<1>4. b = h.heap_ptr => LastEnd(h) = e
  BY DEF LastEnd
<1>5. ~(b >= HeapEnd)
  BY <1>1
<1> HIDE DEF e
<1>6. CASE e = target
  <2>1. PrevFrom(h, e, b, target) = b
    BY <1>6 DEF PrevFrom
  <2>2. ASSUME target \in Blocks(h) PROVE PrevFrom(h, b, p, target) = b
    <3>1. (CHOOSE c \in Blocks(h) : EndOf(h, c) = target) = b
      BY <1>3, <1>6 DEF e
    <3> QED BY <3>1, <2>2, <1>1, <1>5, <1>6 DEF PrevFrom
  <2>3. ASSUME target \notin Blocks(h) PROVE PrevFrom(h, b, p, target) = b
    BY <2>3, <1>1, <1>4, <1>5, <1>6 DEF PrevFrom
  <2> QED BY <2>2, <2>3, <2>1 DEF e
<1>7. CASE e # target /\ e >= HeapEnd
  <2>1. PrevFrom(h, e, b, target) = b
    BY <1>7 DEF PrevFrom
  <2>2. e \notin Blocks(h)
    BY <1>1, <1>7, NextUp
  <2>3. ~(target \in Blocks(h) /\ b < target)
    BY <2>2, <1>2
  <2>4. PrevFrom(h, b, p, target) = b
    BY <2>2, <2>3, <1>1, <1>4, <1>5, <1>7 DEF PrevFrom
  <2> QED BY <2>1, <2>4 DEF e
<1>8. CASE e # target /\ ~(e >= HeapEnd) /\ e \notin Blocks(h)
  <2>1. PrevFrom(h, e, b, target) = Null
    BY <1>8 DEF PrevFrom
  <2>2. ~(target \in Blocks(h) /\ b < target)
    BY <1>2, <1>8
  <2>3. PrevFrom(h, b, p, target) = Null
    BY <2>2, <1>1, <1>4, <1>5, <1>8 DEF PrevFrom
  <2> QED BY <2>1, <2>3 DEF e
<1>9. CASE e # target /\ ~(e >= HeapEnd) /\ e \in Blocks(h)
  <2>1. target \in Blocks(h) /\ b < target <=> target \in Blocks(h) /\ e < target
    BY <1>1, <1>2, <1>9
  <2>2. PrevFrom(h, b, p, target) = PrevFrom(h, e, b, target)
    BY <2>1, <1>5, <1>9 DEF PrevFrom
  <2> QED BY <2>2 DEF e
<1> QED BY <1>6, <1>7, <1>8, <1>9

\* The loop of prev_block finds the block that ends where block t begins.
LEMMA PrevWalkFinds ==
    ASSUME GoodHeap(heap), NEW t \in Nat
    PROVE  PrevWalk(t) = PrevFrom(heap, heap_base, Null, t)
<1> DEFINE G(f) == [b \in 0 .. HeapEnd |-> [prev \in -1 .. HeapEnd |->
                      IF b >= HeapEnd \/ b = t THEN prev
                      ELSE IF b \notin Blocks(heap) THEN Null
                      ELSE f[EndOf(heap, b)][b]]]
           ans == [b \in 0 .. HeapEnd |-> [prev \in -1 .. HeapEnd |-> PrevFrom(heap, b, prev, t)]]
           walk == CHOOSE f : f = G(f)
<1>0. HeapEnd \in Nat /\ \A b \in 0 .. HeapEnd : b \in -1 .. HeapEnd
  BY HeapAssumption
<1>1. ans = G(ans)
  <2>1. ASSUME NEW b \in 0 .. HeapEnd, NEW prev \in -1 .. HeapEnd
        PROVE  PrevFrom(heap, b, prev, t) =
                 IF b >= HeapEnd \/ b = t THEN prev
                 ELSE IF b \notin Blocks(heap) THEN Null
                 ELSE ans[EndOf(heap, b)][b]
    <3>1. CASE b >= HeapEnd \/ b = t \/ b \notin Blocks(heap)
      BY <3>1 DEF PrevFrom
    <3>2. CASE ~(b >= HeapEnd) /\ b # t /\ b \in Blocks(heap)
      <4>1. EndOf(heap, b) \in 0 .. HeapEnd /\ b \in -1 .. HeapEnd
        BY <3>2, <1>0, NextUp
      <4>2. ans[EndOf(heap, b)][b] = PrevFrom(heap, EndOf(heap, b), b, t)
        BY <4>1
      <4> HIDE DEF ans
      <4>3. PrevFrom(heap, b, prev, t) = PrevFrom(heap, EndOf(heap, b), b, t)
        BY <3>2, PrevStep
      <4> QED BY <3>2, <4>2, <4>3
    <3> QED BY <3>1, <3>2
  <2> QED BY <2>1
<1>2. walk = G(walk)
  <2> HIDE DEF G, ans
  <2> QED BY <1>1
<1> HIDE DEF walk
<1>3. \A b \in 0 .. HeapEnd, prev \in -1 .. HeapEnd : walk[b][prev] = PrevFrom(heap, b, prev, t)
  <2> DEFINE S == {m \in Nat : \E b \in 0 .. HeapEnd, prev \in -1 .. HeapEnd :
                                  m = HeapEnd - b /\ walk[b][prev] # PrevFrom(heap, b, prev, t)}
  <2> SUFFICES ASSUME NEW a \in 0 .. HeapEnd, NEW q \in -1 .. HeapEnd,
                      walk[a][q] # PrevFrom(heap, a, q, t)
               PROVE  FALSE
    OBVIOUS
  <2>1. HeapEnd - a \in S
    BY <1>0
  <2>2. PICK m \in S : \A k \in S : m <= k
    BY <2>1, Smallest
  <2>3. PICK b \in 0 .. HeapEnd, prev \in -1 .. HeapEnd :
          m = HeapEnd - b /\ walk[b][prev] # PrevFrom(heap, b, prev, t)
    BY <2>2
  <2>4. walk[b][prev] = IF b >= HeapEnd \/ b = t THEN prev
                        ELSE IF b \notin Blocks(heap) THEN Null
                        ELSE walk[EndOf(heap, b)][b]
    BY <1>2
  <2>5. ~(b >= HeapEnd) /\ b # t /\ b \in Blocks(heap)
    BY <2>3, <2>4 DEF PrevFrom
  <2>6. walk[EndOf(heap, b)][b] # PrevFrom(heap, EndOf(heap, b), b, t)
    BY <2>3, <2>4, <2>5, PrevStep
  <2>7. EndOf(heap, b) \in Nat /\ b < EndOf(heap, b) /\ EndOf(heap, b) <= HeapEnd
    BY <2>5, NextUp
  <2>8. HeapEnd - EndOf(heap, b) \in S
    BY <1>0, <2>6, <2>7
  <2>9. m = HeapEnd - b /\ m <= HeapEnd - EndOf(heap, b)
    BY <2>2, <2>3, <2>8
  <2> HIDE DEF S
  <2> QED BY <1>0, <2>7, <2>9
<1>4. PrevWalk(t) = walk[heap_base][Null]
  BY Zenon DEF PrevWalk, walk
<1>5. heap_base \in 0 .. HeapEnd /\ Null \in -1 .. HeapEnd
  BY HeapAssumption DEF heap_base, Null
<1> QED BY <1>3, <1>4, <1>5

\* The walks over the headers agree with the sets of blocks of Kmalloc, for
\* every heap that tiles.
THEOREM WalksAgreeHolds == Spec => []WalksAgree
<1>1. IInv => WalksAgree
  <2> SUFFICES ASSUME IInv PROVE WalksAgree
    OBVIOUS
  <2>1. GoodHeap(heap)
    BY DEF IInv, GoodHeap, HeapType, TypeOK, ChainTiles
  <2>2. ASSUME NEW n \in Sizes
        PROVE  IF FindFreeBlock(heap, n) = {} THEN FindWalk(n) = Null
               ELSE FindFreeBlock(heap, n) = {FindWalk(n)}
    <3>1. n \in Nat
      BY SizesAssumption
    <3>2. heap_base \in Blocks(heap) /\ \A c \in Blocks(heap) : heap_base <= c
      BY <2>1 DEF GoodHeap, Tiled
    <3>3. Above(heap, heap_base, n) = Fitting(heap, n)
      BY <3>2 DEF Above, Fitting
    <3>4. Lowest(heap, heap_base, n) = FindFreeBlock(heap, n)
      BY <3>3 DEF Lowest, FindFreeBlock
    <3>5. FindWalk(n) = FoundFrom(heap, heap_base, n)
      BY <2>1, <3>1, FindWalkFinds
    <3>6. CASE Fitting(heap, n) = {}
      <4>1. FindFreeBlock(heap, n) = {}
        BY <3>6 DEF FindFreeBlock
      <4> QED BY <4>1, <3>3, <3>5, <3>6 DEF FoundFrom
    <3>7. CASE Fitting(heap, n) # {}
      <4>0. \E c : Lowest(heap, heap_base, n) = {c}
        BY <3>3, <3>7, <2>1, LowestOne
      <4>1. PICK c : FindFreeBlock(heap, n) = {c}
        BY <3>4, <4>0
      <4>2. (CHOOSE d : d \in Lowest(heap, heap_base, n)) = c
        BY <4>1, <3>4
      <4> QED BY <4>1, <4>2, <3>2, <3>3, <3>5, <3>7 DEF FoundFrom
    <3> QED BY <3>6, <3>7
  <2>3. ASSUME NEW b \in Blocks(heap) \ {heap_base}
        PROVE  PrevBlock(heap, b) = {PrevWalk(b)}
    <3>1. PICK p \in Blocks(heap) : EndOf(heap, p) = b
      BY <2>1, PrevExists
    <3>2. \A c \in Blocks(heap) : EndOf(heap, c) = b => c = p
      BY <2>1, <3>1, EndUnique
    <3>3. PrevBlock(heap, b) = {p}
      BY <3>1, <3>2 DEF PrevBlock
    <3>4. b \in Nat /\ heap_base < b /\ heap_base \in Blocks(heap) /\ heap_base < HeapEnd
      <4>1. b \in Nat /\ heap_base \in Blocks(heap)
        BY <2>1 DEF GoodHeap, Tiled
      <4>2. heap_base < HeapEnd
        BY <2>1, <4>1, NextUp
      <4> QED BY <4>1, <4>2 DEF heap_base
    <3>5. PrevWalk(b) = PrevFrom(heap, heap_base, Null, b)
      BY <2>1, <3>4, PrevWalkFinds
    <3>6. (CHOOSE c \in Blocks(heap) : EndOf(heap, c) = b) = p
      BY <3>1, <3>2
    <3>7. ~(heap_base >= HeapEnd)
      BY <3>4, HeapAssumption DEF heap_base
    <3>8. PrevWalk(b) = p
      BY <3>4, <3>5, <3>6, <3>7 DEF PrevFrom
    <3> QED BY <3>3, <3>8
  <2> QED BY <2>2, <2>3 DEF WalksAgree
<1> QED BY <1>1, Invariance, PTL

-----------------------------------------------------------------------------
(* The scheduler on the heap (module TaskHeap).                              *)

\* Heap h is good, and its blocks in use are the first one and, for each task
\* t of M, the two of m[t]: large enough, and shared with nobody.
Two(m, t) == {m[t].task, m[t].stack}
Owns(h, M, m) ==
    /\ GoodHeap(h) /\ Merged(h) /\ IsUsed(h, heap_base)
    /\ \A t \in M :
          /\ IsUsed(h, m[t].task) /\ IsUsed(h, m[t].stack)
          /\ m[t].task # heap_base /\ m[t].stack # heap_base /\ m[t].task # m[t].stack
          /\ TaskSize <= h.blk[m[t].task].size /\ StackSize <= h.blk[m[t].stack].size
    /\ \A s, t \in M : s # t => Two(m, s) \cap Two(m, t) = {}
    /\ \A c : IsUsed(h, c) => c = heap_base \/ \E t \in M : c \in Two(m, t)

\* Freeing the two blocks of one task leaves those of the others.
LEMMA FreeTwo ==
    ASSUME NEW h, NEW M, NEW m, Owns(h, M, m), NEW t \in M
    PROVE  Owns(Free(Free(h, m[t].stack), m[t].task), M \ {t}, m)
<1> DEFINE a == m[t].task
           b == m[t].stack
<1>1. /\ GoodHeap(h) /\ Merged(h) /\ IsUsed(h, heap_base) /\ IsUsed(h, a) /\ IsUsed(h, b)
      /\ a # heap_base /\ b # heap_base /\ a # b
  BY DEF Owns
<1>2. \A s \in M \ {t} : m[s].task \notin {a, b} /\ m[s].stack \notin {a, b}
  BY DEF Owns, Two
<1>3. PICK k : k = Free(h, b)
  OBVIOUS
<1>30. PICK g : g = Free(k, a)
  OBVIOUS
<1>31. Two(m, t) = {a, b}
  BY DEF Two
<1> HIDE DEF a, b
<1>4. /\ GoodHeap(k) /\ Merged(k)
      /\ \A c : IsUsed(k, c) <=> (IsUsed(h, c) /\ c # b)
      /\ \A c : IsUsed(k, c) => k.blk[c] = h.blk[c]
  BY <1>1, <1>3, FreeProps
<1>5. IsUsed(k, heap_base) /\ IsUsed(k, a)
  BY <1>1, <1>4
<1>6. /\ GoodHeap(g) /\ Merged(g)
      /\ \A c : IsUsed(g, c) <=> (IsUsed(k, c) /\ c # a)
      /\ \A c : IsUsed(g, c) => g.blk[c] = k.blk[c]
  BY <1>1, <1>4, <1>5, <1>30, FreeProps
<1>7. \A c : IsUsed(g, c) <=> (IsUsed(h, c) /\ c # a /\ c # b)
  BY <1>4, <1>6
<1>8. \A c : IsUsed(g, c) => g.blk[c] = h.blk[c]
  BY <1>4, <1>6
<1>9. ASSUME NEW s \in M \ {t}
      PROVE  /\ IsUsed(g, m[s].task) /\ IsUsed(g, m[s].stack)
             /\ m[s].task # heap_base /\ m[s].stack # heap_base /\ m[s].task # m[s].stack
             /\ TaskSize <= g.blk[m[s].task].size /\ StackSize <= g.blk[m[s].stack].size
  BY <1>2, <1>7, <1>8 DEF Owns
<1>10. \A c : IsUsed(g, c) => c = heap_base \/ \E s \in M \ {t} : c \in Two(m, s)
  <2> SUFFICES ASSUME NEW c, IsUsed(g, c), c # heap_base
               PROVE  \E s \in M \ {t} : c \in Two(m, s)
    OBVIOUS
  <2>1. IsUsed(h, c) /\ c \notin {a, b}
    BY <1>7
  <2>2. PICK s \in M : c \in Two(m, s)
    BY <2>1 DEF Owns
  <2> QED BY <2>1, <2>2, <1>31
<1>11. \A s, u \in M \ {t} : s # u => Two(m, s) \cap Two(m, u) = {}
  BY DEF Owns
<1>12. IsUsed(g, heap_base)
  BY <1>1, <1>7
<1>13. Owns(g, M \ {t}, m)
  BY <1>6, <1>9, <1>10, <1>11, <1>12 DEF Owns
<1> QED BY <1>13, <1>3, <1>30 DEF a, b

\* One block of kmalloc over tasks that own theirs.
LEMMA MallocOne ==
    ASSUME NEW h, NEW M, NEW m, Owns(h, M, m), NEW n \in Nat,
           NEW b, b = MallocBlock(h, n), b # Null,
           NEW k, k = MallocHeap(h, n)
    PROVE  /\ GoodHeap(k) /\ Merged(k) /\ IsUsed(k, heap_base)
           /\ b # heap_base /\ ~IsUsed(h, b) /\ n <= k.blk[b].size
           /\ \A c : IsUsed(k, c) <=> (IsUsed(h, c) \/ c = b)
           /\ \A c : IsUsed(h, c) => k.blk[c] = h.blk[c]
<1>1. GoodHeap(h) /\ Merged(h) /\ IsUsed(h, heap_base)
  BY DEF Owns
<1>2. /\ GoodHeap(k) /\ Merged(k) /\ Blocks(k) = Blocks(h) \cup {b}
      /\ b # heap_base /\ ~IsUsed(h, b)
      /\ IsUsed(k, b) /\ n <= k.blk[b].size
      /\ \A c \in Blocks(h) \ {b} : k.blk[c] = h.blk[c]
  BY <1>1, MallocProps
<1>3. \A c : IsUsed(k, c) <=> (IsUsed(h, c) \/ c = b)
  BY <1>2 DEF IsUsed
<1>4. \A c : IsUsed(h, c) => k.blk[c] = h.blk[c]
  BY <1>2 DEF IsUsed
<1> QED BY <1>1, <1>2, <1>3, <1>4

\* What sched_task_new takes becomes the new task's own.
LEMMA OwnsNew ==
    ASSUME NEW h, NEW M, NEW m, Owns(h, M, m), NEW p, p \notin M,
           NEW a, a = MallocBlock(h, TaskSize), a # Null,
           NEW k, k = MallocHeap(h, TaskSize),
           NEW b, b = MallocBlock(k, StackSize), b # Null,
           NEW g, g = MallocHeap(k, StackSize),
           NEW w, \A t \in M : w[t] = m[t], w[p].task = a, w[p].stack = b
    PROVE  Owns(g, M \cup {p}, w)
<1>0. TaskSize \in Nat /\ StackSize \in Nat
  BY TaskAssumption
<1>1. /\ GoodHeap(k) /\ Merged(k) /\ IsUsed(k, heap_base)
      /\ a # heap_base /\ ~IsUsed(h, a) /\ TaskSize <= k.blk[a].size
      /\ \A c : IsUsed(k, c) <=> (IsUsed(h, c) \/ c = a)
      /\ \A c : IsUsed(h, c) => k.blk[c] = h.blk[c]
  BY <1>0, MallocOne
<1>2. /\ GoodHeap(g) /\ Merged(g) /\ Blocks(g) = Blocks(k) \cup {b}
      /\ b # heap_base /\ ~IsUsed(k, b)
      /\ IsUsed(g, b) /\ StackSize <= g.blk[b].size
      /\ \A c \in Blocks(k) \ {b} : g.blk[c] = k.blk[c]
  BY <1>0, <1>1, MallocProps
<1>3. \A c : IsUsed(g, c) <=> (IsUsed(h, c) \/ c = a \/ c = b)
  BY <1>1, <1>2 DEF IsUsed
<1>4. \A c : IsUsed(k, c) => g.blk[c] = k.blk[c]
  BY <1>2 DEF IsUsed
<1>5. \A c : IsUsed(h, c) => g.blk[c] = h.blk[c] /\ c # a /\ c # b
  BY <1>1, <1>2, <1>4
<1>6. g.blk[a] = k.blk[a] /\ a # b /\ IsUsed(g, a)
  BY <1>1, <1>2, <1>3, <1>4
<1>7. ASSUME NEW t \in M \cup {p}
      PROVE  /\ IsUsed(g, w[t].task) /\ IsUsed(g, w[t].stack)
             /\ w[t].task # heap_base /\ w[t].stack # heap_base /\ w[t].task # w[t].stack
             /\ TaskSize <= g.blk[w[t].task].size /\ StackSize <= g.blk[w[t].stack].size
  <2>1. CASE t = p
    BY <2>1, <1>1, <1>2, <1>6
  <2>2. CASE t \in M
    <3>1. /\ IsUsed(h, m[t].task) /\ IsUsed(h, m[t].stack)
          /\ m[t].task # heap_base /\ m[t].stack # heap_base /\ m[t].task # m[t].stack
          /\ TaskSize <= h.blk[m[t].task].size /\ StackSize <= h.blk[m[t].stack].size
      BY <2>2 DEF Owns
    <3> QED BY <3>1, <2>2, <1>3, <1>5
  <2> QED BY <2>1, <2>2
<1>8. \A t \in M : Two(w, t) = Two(m, t) /\ a \notin Two(m, t) /\ b \notin Two(m, t)
  BY <1>5 DEF Owns, Two
<1>9. Two(w, p) = {a, b}
  BY DEF Two
<1>10. \A s, t \in M \cup {p} : s # t => Two(w, s) \cap Two(w, t) = {}
  BY <1>8, <1>9 DEF Owns
<1>11. \A c : IsUsed(g, c) => c = heap_base \/ \E t \in M \cup {p} : c \in Two(w, t)
  <2> SUFFICES ASSUME NEW c, IsUsed(g, c), c # heap_base
               PROVE  \E t \in M \cup {p} : c \in Two(w, t)
    OBVIOUS
  <2>1. CASE c = a \/ c = b
    BY <2>1, <1>9
  <2>2. CASE IsUsed(h, c)
    BY <2>2, <1>8 DEF Owns
  <2> QED BY <2>1, <2>2, <1>3
<1>12. IsUsed(g, heap_base)
  BY <1>1, <1>3
<1> QED BY <1>2, <1>7, <1>10, <1>11, <1>12 DEF Owns

\* When there is no stack the task_t goes back, and nobody lost anything.
LEMMA OwnsOld ==
    ASSUME NEW h, NEW M, NEW m, Owns(h, M, m),
           NEW a, a = MallocBlock(h, TaskSize),
           NEW k, k = MallocHeap(h, TaskSize)
    PROVE  Owns(GiveBack(k, a), M, m)
<1>0. TaskSize \in Nat
  BY TaskAssumption
<1>1. CASE a = Null
  <2>1. k = h /\ GiveBack(k, a) = k
    BY <1>1 DEF MallocHeap, GiveBack
  <2> QED BY <2>1
<1>2. CASE a # Null
  <2>1. /\ GoodHeap(k) /\ Merged(k) /\ IsUsed(k, heap_base)
        /\ a # heap_base /\ ~IsUsed(h, a)
        /\ \A c : IsUsed(k, c) <=> (IsUsed(h, c) \/ c = a)
        /\ \A c : IsUsed(h, c) => k.blk[c] = h.blk[c]
    BY <1>0, <1>2, MallocOne
  <2>2. PICK g : g = Free(k, a)
    OBVIOUS
  <2>3. /\ GoodHeap(g) /\ Merged(g)
        /\ \A c : IsUsed(g, c) <=> (IsUsed(k, c) /\ c # a)
        /\ \A c : IsUsed(g, c) => g.blk[c] = k.blk[c]
    BY <2>1, <2>2, FreeProps
  <2>4. \A c : IsUsed(g, c) <=> IsUsed(h, c)
    BY <2>1, <2>3
  <2>5. \A c : IsUsed(h, c) => g.blk[c] = h.blk[c]
    BY <2>1, <2>3, <2>4
  <2>6. Owns(g, M, m)
    BY <2>3, <2>4, <2>5 DEF Owns
  <2> QED BY <2>6, <2>2, <1>2 DEF GiveBack
<1> QED BY <1>1, <1>2


-----------------------------------------------------------------------------
(* The loop of sched_reap.                                                    *)

OnRing(r, t) == \E i \in 1 .. Len(r) : r[i] = t
Distinct(r) == \A i, j \in 1 .. Len(r) : r[i] = r[j] => i = j

\* The loop is a function: its value after k turns comes from the one before.
LEMMA LoopDef ==
    ASSUME ring \in Seq(Nat)
    PROVE  ReapLoop = [k \in 0 .. Len(ring) - 1 |->
                         IF k = 0 THEN [heap |-> taskHeap, ring |-> <<current_task>>]
                         ELSE ReapOne(ReapLoop[k - 1], ring[k + 1])]
<1> DEFINE base == [heap |-> taskHeap, ring |-> <<current_task>>]
           G(f, n) == [k \in 0 .. n |-> IF k = 0 THEN base ELSE ReapOne(f[k - 1], ring[k + 1])]
           S == {n \in Nat : \E f : f = G(f, n)}
<1>1. 0 \in S
  <2>1. [k \in 0 .. 0 |-> base] = G([k \in 0 .. 0 |-> base], 0)
    OBVIOUS
  <2> QED BY <2>1
<1>2. ASSUME NEW n \in S PROVE n + 1 \in S
  <2>1. PICK f : f = G(f, n)
    OBVIOUS
  <2>2. n \in Nat
    OBVIOUS
  <2> DEFINE v == ReapOne(f[n], ring[n + 2])
             g == [k \in 0 .. n + 1 |-> IF k = n + 1 THEN v ELSE f[k]]
  <2> HIDE DEF v, base
  <2>3. \A k \in 0 .. n : f[k] = IF k = 0 THEN base ELSE ReapOne(f[k - 1], ring[k + 1])
    BY <2>1
  <2>4. ASSUME NEW k \in 0 .. n + 1
        PROVE  g[k] = IF k = 0 THEN base ELSE ReapOne(g[k - 1], ring[k + 1])
    <3>1. CASE k = n + 1
      <4>1. k - 1 = n /\ k + 1 = n + 2 /\ n \in 0 .. n + 1 /\ n # n + 1 /\ k # 0
        BY <3>1, <2>2
      <4>2. g[n] = f[n] /\ g[k] = v
        BY <4>1, <3>1
      <4> QED BY <4>1, <4>2 DEF v
    <3>2. CASE k # n + 1
      <4>1. k \in 0 .. n /\ (k # 0 => k - 1 \in 0 .. n + 1 /\ k - 1 # n + 1)
        BY <3>2, <2>2
      <4>2. g[k] = f[k] /\ (k # 0 => g[k - 1] = f[k - 1])
        BY <4>1, <3>2
      <4> QED BY <4>1, <4>2, <2>3
    <3> QED BY <3>1, <3>2
  <2>5. g = G(g, n + 1)
    <3> HIDE DEF g
    <3>1. g = [k \in 0 .. n + 1 |-> g[k]]
      BY DEF g
    <3> QED BY <3>1, <2>4
  <2>6. n + 1 \in Nat
    BY <2>2
  <2> QED BY <2>5, <2>6
<1>3. CASE ring # << >>
  <2>1. Len(ring) - 1 \in Nat
    BY <1>3
  <2>2. Len(ring) - 1 \in S
    <3> HIDE DEF S
    <3>1. S \in SUBSET Nat
      BY DEF S
    <3> QED BY <1>1, <1>2, <2>1, <3>1, SetInduction
  <2>3. PICK f : f = G(f, Len(ring) - 1)
    BY <2>2
  <2> QED BY <2>3, Zenon DEF ReapLoop
<1>4. CASE ring = << >>
  <2>1. 0 .. Len(ring) - 1 = {}
    BY <1>4
  <2>2. [k \in {} |-> base] = [k \in {} |-> IF k = 0 THEN base ELSE ReapOne([j \in {} |-> base][k - 1], ring[k + 1])]
    OBVIOUS
  <2> QED BY <2>1, <2>2, Zenon DEF ReapLoop
<1> QED BY <1>3, <1>4


-----------------------------------------------------------------------------
(* The inductive invariant.                                                   *)

\* The ring is a circle of different tasks: task0 and those with memory.
RingInv ==
    /\ ring \in Seq(Nat) /\ Distinct(ring) /\ OnRing(ring, task0)
    /\ \A t : t \in DOMAIN mem <=> (t # task0 /\ OnRing(ring, t))
    /\ next_pid \in Nat /\ \A i \in 1 .. Len(ring) : ring[i] < next_pid

\* The live tasks are different tasks of the ring; the last of them runs.
ChainInv ==
    /\ chain \in Seq(Nat) /\ Distinct(chain)
    /\ \A i \in 1 .. Len(chain) : OnRing(ring, chain[i])
    /\ Len(chain) # 0 => ring[1] = chain[Len(chain)]

TaskInv == RingInv /\ ChainInv /\ Owns(taskHeap, DOMAIN mem, mem)

\* The tasks with memory that k turns of the loop leave.
Left(k) == {t \in DOMAIN mem : ~(Reaped(t) /\ \E j \in 1 .. k : ring[j + 1] = t)}

\* After k turns: those of the first k tasks that stay are linked, in a circle
\* of different tasks, and the others have given back their memory.
LoopInv(k, s) ==
    /\ Owns(s.heap, Left(k), mem)
    /\ s.ring \in Seq(Nat) /\ Len(s.ring) # 0 /\ s.ring[1] = ring[1] /\ Distinct(s.ring)
    /\ \A t : OnRing(s.ring, t) <=> (~Reaped(t) /\ \E j \in 1 .. k + 1 : ring[j] = t)

LEMMA AppendProps ==
    ASSUME NEW r \in Seq(Nat), Distinct(r), NEW t \in Nat, ~OnRing(r, t), Len(r) # 0
    PROVE  /\ Append(r, t) \in Seq(Nat) /\ Len(Append(r, t)) # 0
           /\ Append(r, t)[1] = r[1] /\ Distinct(Append(r, t))
           /\ \A u : OnRing(Append(r, t), u) <=> (OnRing(r, u) \/ u = t)
<1> DEFINE q == Append(r, t)
<1>1. /\ q \in Seq(Nat) /\ Len(q) = Len(r) + 1 /\ Len(r) \in Nat
      /\ \A i \in 1 .. Len(r) : q[i] = r[i]
      /\ q[Len(r) + 1] = t
  OBVIOUS
<1> HIDE DEF q
<1>2. Distinct(q)
  <2> SUFFICES ASSUME NEW i \in 1 .. Len(q), NEW j \in 1 .. Len(q), q[i] = q[j] PROVE i = j
    BY DEF Distinct
  <2>1. CASE i \in 1 .. Len(r) /\ j \in 1 .. Len(r)
    BY <2>1, <1>1 DEF Distinct
  <2>2. CASE i \in 1 .. Len(r) /\ j = Len(r) + 1
    BY <2>2, <1>1 DEF OnRing
  <2>3. CASE i = Len(r) + 1 /\ j \in 1 .. Len(r)
    BY <2>3, <1>1 DEF OnRing
  <2>4. CASE i = Len(r) + 1 /\ j = Len(r) + 1
    BY <2>4
  <2> QED BY <2>1, <2>2, <2>3, <2>4, <1>1
<1>3. ASSUME NEW u PROVE OnRing(q, u) <=> (OnRing(r, u) \/ u = t)
  <2>1. ASSUME OnRing(q, u) PROVE OnRing(r, u) \/ u = t
    <3>1. PICK i \in 1 .. Len(q) : q[i] = u
      BY <2>1 DEF OnRing
    <3>2. CASE i \in 1 .. Len(r)
      BY <3>1, <3>2, <1>1 DEF OnRing
    <3>3. CASE i = Len(r) + 1
      BY <3>1, <3>3, <1>1
    <3> QED BY <3>2, <3>3, <1>1
  <2>2. ASSUME OnRing(r, u) PROVE OnRing(q, u)
    BY <2>2, <1>1 DEF OnRing
  <2>3. Len(r) + 1 \in 1 .. Len(q)
    BY <1>1
  <2>4. OnRing(q, t)
    BY <2>3, <1>1 DEF OnRing
  <2> QED BY <2>1, <2>2, <2>4
<1>4. Len(q) # 0 /\ q[1] = r[1]
  BY <1>1
<1> QED BY <1>1, <1>2, <1>3, <1>4 DEF q

LEMMA LoopStart ==
    ASSUME TaskInv, Len(chain) # 0
    PROVE  LoopInv(0, [heap |-> taskHeap, ring |-> <<current_task>>])
<1> DEFINE s == [heap |-> taskHeap, ring |-> <<current_task>>]
<1>1. /\ ring \in Seq(Nat) /\ chain \in Seq(Nat) /\ ring[1] = chain[Len(chain)]
      /\ OnRing(ring, chain[Len(chain)])
  <2>1. Len(chain) \in 1 .. Len(chain)
    BY DEF TaskInv, ChainInv
  <2> QED BY <2>1 DEF TaskInv, RingInv, ChainInv
<1>2. Len(ring) \in Nat /\ Len(ring) # 0 /\ current_task = ring[1] /\ ring[1] \in Nat
  BY <1>1 DEF OnRing, current_task
<1>3. ~Reaped(ring[1])
  <2>1. chain[Len(chain)] \in ToSet(chain)
    BY <1>1 DEF ToSet
  <2> QED BY <2>1, <1>1 DEF Reaped, Live
<1>4. Left(0) = DOMAIN mem
  <2>1. 1 .. 0 = {}
    OBVIOUS
  <2> QED BY <2>1 DEF Left
<1>5. Owns(s.heap, Left(0), mem)
  BY <1>4 DEF TaskInv
<1>6. s.ring \in Seq(Nat) /\ Len(s.ring) = 1 /\ s.ring[1] = ring[1]
  BY <1>2
<1> HIDE DEF s
<1>7. Distinct(s.ring)
  BY <1>6 DEF Distinct
<1>8. ASSUME NEW t PROVE OnRing(s.ring, t) <=> (~Reaped(t) /\ \E j \in 1 .. 0 + 1 : ring[j] = t)
  <2>1. OnRing(s.ring, t) <=> ring[1] = t
    BY <1>6 DEF OnRing
  <2>2. (\E j \in 1 .. 0 + 1 : ring[j] = t) <=> ring[1] = t
    OBVIOUS
  <2> QED BY <2>1, <2>2, <1>3
<1>9. Len(s.ring) # 0
  BY <1>6
<1>10. LoopInv(0, s)
  BY <1>5, <1>6, <1>7, <1>8, <1>9 DEF LoopInv
<1> QED BY <1>10 DEF s

LEMMA LoopTurn ==
    ASSUME TaskInv, NEW k \in Nat, k + 2 <= Len(ring), NEW s, LoopInv(k, s)
    PROVE  LoopInv(k + 1, ReapOne(s, ring[k + 2]))
<1> DEFINE t == ring[k + 2]
<1>0. ring \in Seq(Nat) /\ Len(ring) \in Nat /\ k + 2 \in 1 .. Len(ring)
  BY DEF TaskInv, RingInv
<1>1. t \in Nat /\ OnRing(ring, t)
  BY <1>0 DEF OnRing
<1>2. \A j \in 1 .. k + 1 : ring[j] # t
  <2>1. \A j \in 1 .. k + 1 : j \in 1 .. Len(ring) /\ j # k + 2
    BY <1>0
  <2> QED BY <2>1, <1>0 DEF TaskInv, RingInv, Distinct
<1>3. \A u : (\E j \in 1 .. (k + 1) + 1 : ring[j] = u) <=> ((\E j \in 1 .. k + 1 : ring[j] = u) \/ u = t)
  <2>1. 1 .. (k + 1) + 1 = (1 .. k + 1) \cup {k + 2}
    OBVIOUS
  <2> QED BY <2>1
<1>4. \A u : (\E j \in 1 .. k + 1 : ring[j + 1] = u) <=> ((\E j \in 1 .. k : ring[j + 1] = u) \/ u = t)
  <2>1. 1 .. k + 1 = (1 .. k) \cup {k + 1} /\ (k + 1) + 1 = k + 2
    OBVIOUS
  <2> QED BY <2>1
<1>5. \A j \in 1 .. k : ring[j + 1] # t
  <2>1. \A j \in 1 .. k : j + 1 \in 1 .. k + 1
    OBVIOUS
  <2> QED BY <2>1, <1>2
<1> HIDE DEF t
<1>6. CASE Reaped(t)
  <2>1. t \in DOMAIN mem
    <3>1. t # task0
      BY <1>6 DEF Reaped
    <3> QED BY <3>1, <1>1 DEF TaskInv, RingInv
  <2>2. Left(k + 1) = Left(k) \ {t} /\ t \in Left(k)
    BY <2>1, <1>4, <1>5, <1>6 DEF Left
  <2>3. ReapOne(s, t).heap = Free(Free(s.heap, mem[t].stack), mem[t].task) /\ ReapOne(s, t).ring = s.ring
    BY <1>6 DEF ReapOne, FreeTask, LinkTask
  <2>4. Owns(s.heap, Left(k), mem)
    BY DEF LoopInv
  <2>40. PICK h : h = s.heap
    OBVIOUS
  <2>41. PICK M : M = Left(k)
    OBVIOUS
  <2>42. PICK m : m = mem
    OBVIOUS
  <2>43. Owns(h, M, m) /\ t \in M
    BY <2>2, <2>4, <2>40, <2>41, <2>42
  <2>44. Owns(Free(Free(h, m[t].stack), m[t].task), M \ {t}, m)
    BY <2>43, FreeTwo
  <2>5. Owns(ReapOne(s, t).heap, Left(k + 1), mem)
    BY <2>2, <2>3, <2>40, <2>41, <2>42, <2>44
  <2>6. \A u : OnRing(s.ring, u) <=> (~Reaped(u) /\ \E j \in 1 .. (k + 1) + 1 : ring[j] = u)
    BY <1>3, <1>6 DEF LoopInv
  <2> QED BY <2>3, <2>5, <2>6 DEF LoopInv, t
<1>7. CASE ~Reaped(t)
  <2>1. Left(k + 1) = Left(k)
    BY <1>4, <1>7 DEF Left
  <2>2. ReapOne(s, t).heap = s.heap /\ ReapOne(s, t).ring = Append(s.ring, t)
    BY <1>7 DEF ReapOne, FreeTask, LinkTask
  <2>3. ~OnRing(s.ring, t)
    BY <1>2 DEF LoopInv
  <2>4. /\ Append(s.ring, t) \in Seq(Nat) /\ Len(Append(s.ring, t)) # 0
        /\ Append(s.ring, t)[1] = s.ring[1] /\ Distinct(Append(s.ring, t))
        /\ \A u : OnRing(Append(s.ring, t), u) <=> (OnRing(s.ring, u) \/ u = t)
    <3>1. s.ring \in Seq(Nat) /\ Distinct(s.ring) /\ Len(s.ring) # 0
      BY DEF LoopInv
    <3> HIDE DEF OnRing, Distinct
    <3> QED BY <3>1, <2>3, <1>1, AppendProps
  <2>5. \A u : OnRing(Append(s.ring, t), u) <=> (~Reaped(u) /\ \E j \in 1 .. (k + 1) + 1 : ring[j] = u)
    BY <2>4, <1>3, <1>7 DEF LoopInv
  <2> QED BY <2>1, <2>2, <2>4, <2>5 DEF LoopInv, t
<1> QED BY <1>6, <1>7

\* What sched_reap leaves: the tasks that are not dead, and their memory.
LEMMA ReapProps ==
    ASSUME TaskInv, Len(chain) # 0
    PROVE  /\ Owns(ReapHeap, DOMAIN ReapMem, mem)
           /\ \A t : t \in DOMAIN ReapMem <=> (t # task0 /\ OnRing(ReapRing, t))
           /\ ReapRing \in Seq(Nat) /\ Len(ReapRing) # 0 /\ ReapRing[1] = ring[1] /\ Distinct(ReapRing)
           /\ \A t : OnRing(ReapRing, t) <=> (~Reaped(t) /\ OnRing(ring, t))
<1>0. ring \in Seq(Nat) /\ OnRing(ring, task0)
  BY DEF TaskInv, RingInv
<1>1. Len(ring) - 1 \in Nat
  BY <1>0 DEF OnRing
<1> DEFINE n == Len(ring) - 1
           S == {k \in Nat : k <= n => LoopInv(k, ReapLoop[k])}
<1>2. \A k \in 0 .. n : ReapLoop[k] = IF k = 0 THEN [heap |-> taskHeap, ring |-> <<current_task>>]
                                    ELSE ReapOne(ReapLoop[k - 1], ring[k + 1])
  BY <1>0, LoopDef, Zenon
<1>3. 0 \in S
  <2>1. 0 \in 0 .. n
    BY <1>1
  <2>2. ReapLoop[0] = [heap |-> taskHeap, ring |-> <<current_task>>]
    BY <2>1, <1>2
  <2> QED BY <2>2, LoopStart
<1>4. ASSUME NEW k \in S PROVE k + 1 \in S
  <2>1. k \in Nat
    OBVIOUS
  <2> SUFFICES ASSUME k + 1 <= n PROVE LoopInv(k + 1, ReapLoop[k + 1])
    BY <2>1
  <2>2. k <= n /\ k + 1 \in 0 .. n /\ k + 2 <= Len(ring) /\ k + 1 # 0 /\ (k + 1) - 1 = k /\ (k + 1) + 1 = k + 2
    BY <2>1, <1>1
  <2>3. LoopInv(k, ReapLoop[k])
    BY <2>2
  <2>4. ReapLoop[k + 1] = ReapOne(ReapLoop[k], ring[k + 2])
    BY <2>2, <1>2
  <2> HIDE DEF n, S
  <2>5. LoopInv(k + 1, ReapOne(ReapLoop[k], ring[k + 2]))
    BY <2>1, <2>2, <2>3, LoopTurn
  <2> QED BY <2>4, <2>5
<1>5. LoopInv(n, ReapLoop[n])
  <2> HIDE DEF S, n
  <2>1. S \in SUBSET Nat
    BY DEF S
  <2>2. n \in S
    BY <1>1, <1>3, <1>4, <2>1, SetInduction DEF n
  <2>3. n <= n
    BY <1>1 DEF n
  <2> QED BY <2>2, <2>3 DEF S
<1> HIDE DEF n
<1>6. ReapHeap = ReapLoop[n].heap /\ ReapRing = ReapLoop[n].ring
  BY DEF n, ReapHeap, ReapRing
<1>7. n + 1 = Len(ring)
  BY <1>1 DEF n
<1>8. \A t : OnRing(ReapRing, t) <=> (~Reaped(t) /\ OnRing(ring, t))
  BY <1>5, <1>6, <1>7 DEF LoopInv, OnRing
<1>9. DOMAIN ReapMem = {t \in DOMAIN mem : ~Reaped(t)}
  BY DEF ReapMem
<1>10. Left(n) = DOMAIN ReapMem
  <2>1. ASSUME NEW t \in DOMAIN mem, Reaped(t) PROVE \E j \in 1 .. n : ring[j + 1] = t
    <3>1. PICK i \in 1 .. Len(ring) : ring[i] = t
      BY <2>1 DEF TaskInv, RingInv, OnRing
    <3>2. i # 1
      <4>1. ~Reaped(ring[1])
        <5>1. ~Reaped(ReapLoop[n].ring[1])
          <6>1. 1 \in 1 .. Len(ReapLoop[n].ring)
            BY <1>5 DEF LoopInv
          <6> QED BY <6>1, <1>5 DEF LoopInv, OnRing
        <5> QED BY <5>1, <1>5 DEF LoopInv
      <4> QED BY <4>1, <3>1, <2>1
    <3>3. i - 1 \in 1 .. n /\ (i - 1) + 1 = i
      BY <3>1, <3>2, <1>0, <1>1 DEF n
    <3> QED BY <3>1, <3>3
  <2> QED BY <2>1, <1>9 DEF Left
<1>11. \A t : t \in DOMAIN ReapMem <=> (t # task0 /\ OnRing(ReapRing, t))
  BY <1>8, <1>9 DEF TaskInv, RingInv
<1> QED BY <1>5, <1>6, <1>8, <1>10, <1>11 DEF LoopInv


\* A new task before the others, and the one that was first after them.
Linked(r, p) == <<p>> \o Tail(r) \o <<r[1]>>
LEMMA LinkProps ==
    ASSUME NEW r \in Seq(Nat), Distinct(r), Len(r) # 0, NEW p \in Nat, ~OnRing(r, p),
           NEW q, q = Linked(r, p)
    PROVE  /\ q \in Seq(Nat) /\ Len(q) # 0 /\ q[1] = p /\ Distinct(q)
           /\ \A u : OnRing(q, u) <=> (OnRing(r, u) \/ u = p)
<1>0. Len(r) \in Nat \ {0} /\ r[1] \in Nat /\ r # << >>
  OBVIOUS
<1>1. PICK s : s = Tail(r)
  OBVIOUS
<1>2. s \in Seq(Nat) /\ Len(s) = Len(r) - 1 /\ \A i \in 1 .. Len(s) : s[i] = r[i + 1]
  BY <1>0, <1>1
<1>3. PICK v : v = <<p>> \o s
  OBVIOUS
<1>4. v \in Seq(Nat) /\ Len(v) = Len(r) /\ v[1] = p /\ \A i \in 2 .. Len(r) : v[i] = s[i - 1]
  BY <1>0, <1>2, <1>3
<1>5. q = v \o <<r[1]>>
  BY <1>1, <1>3 DEF Linked
<1>6. q \in Seq(Nat) /\ Len(q) = Len(r) + 1 /\ q[1] = p /\ q[Len(r) + 1] = r[1]
  <2>1. q \in Seq(Nat) /\ Len(q) = Len(r) + 1
    BY <1>0, <1>4, <1>5
  <2>2. q[1] = p
    BY <1>0, <1>4, <1>5
  <2>3. q[Len(r) + 1] = r[1]
    BY <1>0, <1>4, <1>5
  <2> QED BY <2>1, <2>2, <2>3
<1>7. ASSUME NEW i \in 2 .. Len(r) PROVE q[i] = r[i]
  <2>1. q[i] = v[i]
    BY <1>0, <1>4, <1>5
  <2>2. i - 1 \in 1 .. Len(s) /\ (i - 1) + 1 = i
    BY <1>0, <1>2
  <2> QED BY <2>1, <2>2, <1>2, <1>4
<1>8. \A i \in 1 .. Len(q) : i = 1 \/ i = Len(r) + 1 \/ i \in 2 .. Len(r)
  BY <1>0, <1>6
<1>9. Distinct(q)
  <2> SUFFICES ASSUME NEW i \in 1 .. Len(q), NEW j \in 1 .. Len(q), q[i] = q[j], i < j PROVE FALSE
    BY DEF Distinct
  <2>1. 1 \in 1 .. Len(r) /\ \A k \in 2 .. Len(r) : k \in 1 .. Len(r) /\ k # 1
    BY <1>0
  <2>2. \A k \in 1 .. Len(r) : r[k] # p
    BY DEF OnRing
  <2>3. CASE i = 1
    <3>1. j = Len(r) + 1 \/ j \in 2 .. Len(r)
      BY <2>3, <1>8
    <3> QED BY <3>1, <2>1, <2>2, <2>3, <1>6, <1>7
  <2>4. CASE i \in 2 .. Len(r)
    <3>1. j = Len(r) + 1 \/ j \in 2 .. Len(r)
      BY <2>4, <1>0, <1>8
    <3>2. CASE j = Len(r) + 1
      <4>1. r[i] = r[1]
        BY <3>2, <2>4, <1>6, <1>7
      <4> QED BY <4>1, <2>1, <2>4 DEF Distinct
    <3>3. CASE j \in 2 .. Len(r)
      <4>1. r[i] = r[j] /\ i # j
        BY <3>3, <2>4, <1>7
      <4> QED BY <4>1, <3>3, <2>1, <2>4 DEF Distinct
    <3> QED BY <3>1, <3>2, <3>3
  <2>5. CASE i = Len(r) + 1
    BY <2>5, <1>0, <1>6
  <2> QED BY <2>3, <2>4, <2>5, <1>8
<1>10. ASSUME NEW u PROVE OnRing(q, u) <=> (OnRing(r, u) \/ u = p)
  <2>1. ASSUME NEW i \in 1 .. Len(q), q[i] = u PROVE OnRing(r, u) \/ u = p
    <3>1. CASE i = 1
      BY <3>1, <2>1, <1>6
    <3>2. CASE i = Len(r) + 1
      <4>1. r[1] = u /\ 1 \in 1 .. Len(r)
        BY <3>2, <2>1, <1>0, <1>6
      <4> QED BY <4>1 DEF OnRing
    <3>3. CASE i \in 2 .. Len(r)
      <4>1. r[i] = u /\ i \in 1 .. Len(r)
        BY <3>3, <2>1, <1>0, <1>7
      <4> QED BY <4>1 DEF OnRing
    <3> QED BY <3>1, <3>2, <3>3, <1>8
  <2>2. ASSUME NEW i \in 1 .. Len(r), r[i] = u PROVE OnRing(q, u)
    <3>1. CASE i = 1
      <4>1. q[Len(r) + 1] = u /\ Len(r) + 1 \in 1 .. Len(q)
        BY <3>1, <2>2, <1>0, <1>6
      <4> QED BY <4>1 DEF OnRing
    <3>2. CASE i # 1
      <4>1. i \in 2 .. Len(r) /\ i \in 1 .. Len(q)
        BY <3>2, <1>0, <1>6
      <4> QED BY <4>1, <2>2, <1>7 DEF OnRing
    <3> QED BY <3>1, <3>2
  <2>3. OnRing(q, p)
    <3>1. 1 \in 1 .. Len(q)
      BY <1>0, <1>6
    <3> QED BY <3>1, <1>6 DEF OnRing
  <2>4. OnRing(q, u) => OnRing(r, u) \/ u = p
    BY <2>1 DEF OnRing
  <2>5. OnRing(r, u) => OnRing(q, u)
    BY <2>2 DEF OnRing
  <2> QED BY <2>3, <2>4, <2>5
<1>11. Len(q) # 0
  BY <1>0, <1>6
<1> QED BY <1>6, <1>9, <1>10, <1>11

\* A switch turns the circle: the same tasks, beginning with another one.
LEMMA RotateProps ==
    ASSUME NEW r \in Seq(Nat), Distinct(r), NEW t, OnRing(r, t), NEW q, q = Rotate(r, t)
    PROVE  /\ q \in Seq(Nat) /\ q[1] = t /\ Distinct(q)
           /\ \A u : OnRing(q, u) <=> OnRing(r, u)
<1> DEFINE n == Len(r)
<1>0. n \in Nat /\ DOMAIN r = 1 .. n
  OBVIOUS
<1>1. PICK i \in 1 .. n : i = (CHOOSE j \in DOMAIN r : r[j] = t) /\ r[i] = t
  BY <1>0 DEF OnRing
<1>20. i \in 1 .. n
  BY <1>1
<1>2. q = SubSeq(r, i, n) \o SubSeq(r, 1, i - 1)
  BY <1>1 DEF Rotate
<1>3. PICK x : x = SubSeq(r, i, n)
  OBVIOUS
<1>4. PICK y : y = SubSeq(r, 1, i - 1)
  OBVIOUS
<1>21. Len(r) = n /\ n \in Nat
  OBVIOUS
<1> HIDE DEF n
<1>5. x \in Seq(Nat) /\ Len(x) = (n - i) + 1 /\ \A k \in 1 .. (n - i) + 1 : x[k] = r[(i + k) - 1]
  BY <1>0, <1>20, <1>3, <1>21
<1>6. y \in Seq(Nat) /\ Len(y) = i - 1 /\ \A k \in 1 .. i - 1 : y[k] = r[k]
  BY <1>0, <1>20, <1>4
<1>7. q \in Seq(Nat) /\ Len(q) = n
  BY <1>0, <1>20, <1>2, <1>3, <1>21, <1>4, <1>5, <1>6
<1>8. ASSUME NEW k \in 1 .. (n - i) + 1 PROVE q[k] = r[(i + k) - 1]
  BY <1>0, <1>20, <1>2, <1>3, <1>21, <1>4, <1>5, <1>6
<1>9. ASSUME NEW k \in (n - i) + 2 .. n PROVE q[k] = r[(k + i) - (n + 1)]
  <2>1. q[k] = y[k - ((n - i) + 1)]
    BY <1>0, <1>20, <1>2, <1>3, <1>21, <1>4, <1>5, <1>6
  <2>2. k - ((n - i) + 1) \in 1 .. i - 1 /\ k - ((n - i) + 1) = (k + i) - (n + 1)
    BY <1>0, <1>20
  <2> QED BY <2>1, <2>2, <1>6
<1> DEFINE at(k) == IF k <= (n - i) + 1 THEN (i + k) - 1 ELSE (k + i) - (n + 1)
<1>10. \A k \in 1 .. n : at(k) \in 1 .. n /\ q[k] = r[at(k)]
  <2> SUFFICES ASSUME NEW k \in 1 .. n PROVE at(k) \in 1 .. n /\ q[k] = r[at(k)]
    OBVIOUS
  <2>1. CASE k <= (n - i) + 1
    <3>1. k \in 1 .. (n - i) + 1 /\ (i + k) - 1 \in 1 .. n
      BY <2>1, <1>0, <1>20
    <3> QED BY <3>1, <2>1, <1>8
  <2>2. CASE ~(k <= (n - i) + 1)
    <3>1. k \in (n - i) + 2 .. n /\ (k + i) - (n + 1) \in 1 .. n
      BY <2>2, <1>0, <1>20
    <3> QED BY <3>1, <2>2, <1>9
  <2> QED BY <2>1, <2>2
<1>11. \A j, k \in 1 .. n : at(j) = at(k) => j = k
  BY <1>0, <1>20
<1>12. ASSUME NEW j \in 1 .. n PROVE \E k \in 1 .. n : at(k) = j
  <2>1. CASE j >= i
    <3>1. (j - i) + 1 \in 1 .. n /\ at((j - i) + 1) = j
      BY <2>1, <1>0, <1>20
    <3> QED BY <3>1
  <2>2. CASE j < i
    <3>1. (j - i) + (n + 1) \in 1 .. n /\ at((j - i) + (n + 1)) = j
      BY <2>2, <1>0, <1>20
    <3> QED BY <3>1
  <2> QED BY <2>1, <2>2, <1>0, <1>20
<1>13. 1 \in 1 .. n /\ at(1) = i
  BY <1>0, <1>20
<1> HIDE DEF at
<1>14. q[1] = t
  BY <1>1, <1>10, <1>13
<1>15. Len(r) = n
  BY <1>21
<1>16. Distinct(q)
  BY <1>7, <1>10, <1>11, <1>15 DEF Distinct
<1>17. ASSUME NEW u PROVE OnRing(q, u) <=> OnRing(r, u)
  <2>1. ASSUME NEW k \in 1 .. n, q[k] = u PROVE \E j \in 1 .. n : r[j] = u
    BY <2>1, <1>10
  <2>2. ASSUME NEW j \in 1 .. n, r[j] = u PROVE \E k \in 1 .. n : q[k] = u
    <3>1. PICK k \in 1 .. n : at(k) = j
      BY <1>12
    <3> QED BY <3>1, <2>2, <1>10
  <2>3. (\E k \in 1 .. n : q[k] = u) <=> (\E j \in 1 .. n : r[j] = u)
    BY <2>1, <2>2
  <2> QED BY <2>3, <1>7, <1>15 DEF OnRing
<1> QED BY <1>7, <1>14, <1>16, <1>17

LEMMA TaskInitInv == TaskInit => TaskInv
<1> SUFFICES ASSUME TaskInit PROVE TaskInv
  OBVIOUS
<1>1. /\ taskHeap = EmptyHeap /\ ring = <<task0>> /\ chain = <<task0>> /\ next_pid = 2
      /\ DOMAIN mem = {}
  BY DEF TaskInit
<1>2. ring \in Seq(Nat) /\ Len(ring) = 1 /\ ring[1] = 1
  BY <1>1 DEF task0
<1>3. RingInv
  BY <1>1, <1>2 DEF RingInv, Distinct, OnRing, task0
<1>4. ChainInv
  BY <1>1, <1>2 DEF ChainInv, Distinct, OnRing, task0
<1>5. /\ Blocks(taskHeap) = {heap_base} /\ taskHeap.blk[heap_base] = Used(0)
      /\ taskHeap.heap_ptr = heap_base /\ taskHeap \in [blk : [{heap_base} -> Header], heap_ptr : {heap_base}]
  BY <1>1 DEF EmptyHeap, Blocks, Header, Used
<1>6. EndOf(taskHeap, heap_base) = MetaSize /\ MetaSize <= HeapEnd
  BY <1>5, HeapAssumption DEF EndOf, Used, heap_base
<1>7. GoodHeap(taskHeap)
  BY <1>5, <1>6, HeapAssumption DEF GoodHeap, HeapType, Tiled, heap_base
<1>8. Merged(taskHeap)
  BY <1>5 DEF Merged, Used
<1>9. IsUsed(taskHeap, heap_base) /\ \A c : IsUsed(taskHeap, c) => c = heap_base
  BY <1>5 DEF IsUsed, Used
<1>10. Owns(taskHeap, DOMAIN mem, mem)
  BY <1>1, <1>7, <1>8, <1>9 DEF Owns
<1> QED BY <1>3, <1>4, <1>10 DEF TaskInv

\* A live task is not reaped.
LEMMA LiveStays ==
    ASSUME ChainInv, NEW i \in 1 .. Len(chain)
    PROVE  ~Reaped(chain[i])
  BY DEF ChainInv, Reaped, Live, ToSet

LEMMA NewTaskStep ==
    ASSUME TaskInv, sched_task_new
    PROVE  TaskInv'
<1> DEFINE task == MallocBlock(ReapHeap, TaskSize)
           h2 == MallocHeap(ReapHeap, TaskSize)
           stack == MallocBlock(h2, StackSize)
<1>0. /\ chain \in Seq(Nat) /\ Len(chain) # 0 /\ ring \in Seq(Nat) /\ next_pid \in Nat
      /\ \A i \in 1 .. Len(ring) : ring[i] < next_pid
  BY DEF sched_task_new, TaskInv, ChainInv, RingInv
<1>1. /\ Owns(ReapHeap, DOMAIN ReapMem, mem)
      /\ \A t : t \in DOMAIN ReapMem <=> (t # task0 /\ OnRing(ReapRing, t))
      /\ ReapRing \in Seq(Nat) /\ Len(ReapRing) # 0 /\ ReapRing[1] = ring[1] /\ Distinct(ReapRing)
      /\ \A t : OnRing(ReapRing, t) <=> (~Reaped(t) /\ OnRing(ring, t))
  BY <1>0, ReapProps
<1>2. \A t \in DOMAIN ReapMem : ReapMem[t] = mem[t]
  BY DEF ReapMem
<1>3. \A t : OnRing(ring, t) => t \in Nat /\ t < next_pid
  BY <1>0 DEF OnRing
<1>4. OnRing(ReapRing, task0)
  BY <1>1 DEF TaskInv, RingInv, Reaped
<1>5. \A i \in 1 .. Len(chain) : OnRing(ReapRing, chain[i])
  BY <1>1, LiveStays DEF TaskInv, ChainInv
<1>6. current_task = ring[1]
  BY DEF current_task
<1>7. CASE task # Null /\ stack # Null
  <2> DEFINE w == [t \in DOMAIN ReapMem \cup {next_pid} |->
                     IF t = next_pid THEN [task |-> task, stack |-> stack] ELSE ReapMem[t]]
  <2>1. /\ taskHeap' = MallocHeap(h2, StackSize) /\ mem' = w
        /\ ring' = <<next_pid>> \o Tail(ReapRing) \o <<current_task>>
        /\ chain' = Append(chain, next_pid) /\ next_pid' = next_pid + 1
    BY <1>7 DEF sched_task_new
  <2>2. ~OnRing(ReapRing, next_pid)
    BY <1>0, <1>1, <1>3
  <2>3. next_pid \notin DOMAIN ReapMem /\ next_pid # task0
    BY <1>1, <1>4, <2>2
  <2>4. Owns(MallocHeap(h2, StackSize), DOMAIN ReapMem \cup {next_pid}, w)
    <3>1. /\ \A t \in DOMAIN ReapMem : w[t] = mem[t]
          /\ w[next_pid].task = task /\ w[next_pid].stack = stack
      BY <1>2, <2>3
    <3>2. PICK M : M = DOMAIN ReapMem
      OBVIOUS
    <3>3. PICK h : h = ReapHeap
      OBVIOUS
    <3>4. PICK m : m = mem
      OBVIOUS
    <3>5. PICK p : p = next_pid
      OBVIOUS
    <3>6. PICK v : v = w
      OBVIOUS
    <3>61. PICK a : a = task
      OBVIOUS
    <3>62. PICK b : b = stack
      OBVIOUS
    <3>63. PICK k : k = h2
      OBVIOUS
    <3>7. Owns(h, M, m) /\ p \notin M /\ (\A t \in M : v[t] = m[t]) /\ v[p].task = a /\ v[p].stack = b
          /\ a = MallocBlock(h, TaskSize) /\ a # Null /\ k = MallocHeap(h, TaskSize)
          /\ b = MallocBlock(k, StackSize) /\ b # Null
      <4> HIDE DEF w
      <4> QED BY <3>1, <3>2, <3>3, <3>4, <3>5, <3>6, <3>61, <3>62, <3>63, <1>1, <1>7, <2>3
    <3>8. Owns(MallocHeap(k, StackSize), M \cup {p}, v)
      BY ONLY <3>7, OwnsNew
    <3> HIDE DEF w, h2
    <3> QED BY <3>8, <3>2, <3>5, <3>6, <3>63
  <2>5. DOMAIN w = DOMAIN ReapMem \cup {next_pid}
    OBVIOUS
  <2> HIDE DEF w, h2, task, stack
  <2>6. Owns(taskHeap', DOMAIN mem', mem')
    BY <2>1, <2>4, <2>5
  <2>7. /\ ring' \in Seq(Nat) /\ Len(ring') # 0 /\ ring'[1] = next_pid /\ Distinct(ring')
        /\ \A u : OnRing(ring', u) <=> (OnRing(ReapRing, u) \/ u = next_pid)
    <3>1. PICK r : r = ReapRing
      OBVIOUS
    <3>2. r \in Seq(Nat) /\ Distinct(r) /\ Len(r) # 0 /\ ~OnRing(r, next_pid)
      BY <3>1, <1>1, <2>2
    <3>3. ring' = <<next_pid>> \o Tail(r) \o <<r[1]>>
      BY <3>1, <1>1, <1>6, <2>1
    <3>4. PICK p \in Nat : p = next_pid
      BY <1>0
    <3>5. PICK q : q = ring'
      OBVIOUS
    <3>6. /\ q \in Seq(Nat) /\ Len(q) # 0 /\ q[1] = p /\ Distinct(q)
          /\ \A u : OnRing(q, u) <=> (OnRing(r, u) \/ u = p)
      <4>1. q = Linked(r, p) /\ ~OnRing(r, p)
        BY <3>2, <3>3, <3>4, <3>5 DEF Linked
      <4>2. r \in Seq(Nat) /\ Distinct(r) /\ Len(r) # 0 /\ p \in Nat
        BY <3>2
      <4> QED BY ONLY <4>1, <4>2, LinkProps
    <3> QED BY <3>1, <3>4, <3>5, <3>6
  <2>8. RingInv'
    <3>1. \A t : t \in DOMAIN mem' <=> (t # task0 /\ OnRing(ring', t))
      BY <1>1, <2>1, <2>3, <2>5, <2>7
    <3>2. ASSUME NEW i \in 1 .. Len(ring') PROVE ring'[i] < next_pid'
      <4>1. OnRing(ring', ring'[i])
        BY DEF OnRing
      <4>2. CASE ring'[i] = next_pid
        BY <4>2, <2>1, <1>0
      <4>3. CASE OnRing(ReapRing, ring'[i])
        <5>1. ring'[i] \in Nat /\ ring'[i] < next_pid
          BY <4>3, <1>1, <1>3
        <5> QED BY <5>1, <2>1, <1>0
      <4> QED BY <4>1, <4>2, <4>3, <2>7
    <3>3. OnRing(ring', task0) /\ next_pid' \in Nat
      <4>1. OnRing(ring', task0)
        BY <1>4, <2>7
      <4>2. next_pid + 1 \in Nat
        BY <1>0
      <4> QED BY <4>1, <4>2, <2>1
    <3>4. task0' = task0
      BY DEF task0
    <3> QED BY <3>1, <3>2, <3>3, <3>4, <2>7 DEF RingInv
  <2>9. ChainInv'
    <3>1. ~OnRing(chain, next_pid)
      <4>1. \A i \in 1 .. Len(chain) : chain[i] # next_pid
        BY <1>5, <2>2
      <4> QED BY <4>1 DEF OnRing
    <3>2. /\ chain' \in Seq(Nat) /\ Distinct(chain')
          /\ \A u : OnRing(chain', u) <=> (OnRing(chain, u) \/ u = next_pid)
      <4>1. PICK c : c = chain
        OBVIOUS
      <4>2. PICK p \in Nat : p = next_pid
        BY <1>0
      <4>3. c \in Seq(Nat) /\ Distinct(c) /\ Len(c) # 0 /\ ~OnRing(c, p)
        BY <4>1, <4>2, <3>1, <1>0 DEF TaskInv, ChainInv
      <4>4. /\ Append(c, p) \in Seq(Nat) /\ Distinct(Append(c, p))
            /\ \A u : OnRing(Append(c, p), u) <=> (OnRing(c, u) \/ u = p)
        BY ONLY <4>3, p \in Nat, AppendProps
      <4> QED BY <4>1, <4>2, <4>4, <2>1
    <3>3. \A u : OnRing(chain, u) => OnRing(ring', u)
      BY <1>5, <2>7 DEF OnRing
    <3>4. \A i \in 1 .. Len(chain') : OnRing(chain', chain'[i])
      BY DEF OnRing
    <3>5. \A i \in 1 .. Len(chain') : OnRing(ring', chain'[i])
      BY <3>2, <3>3, <3>4, <2>7
    <3>6. chain'[Len(chain')] = next_pid
      BY <1>0, <2>1
    <3> QED BY <3>2, <3>5, <3>6, <2>7 DEF ChainInv
  <2> QED BY <2>6, <2>8, <2>9 DEF TaskInv
<1>8. CASE ~(task # Null /\ stack # Null)
  <2>1. /\ taskHeap' = GiveBack(h2, task) /\ mem' = ReapMem /\ ring' = ReapRing
        /\ chain' = chain /\ next_pid' = next_pid
    BY <1>8 DEF sched_task_new
  <2>2. Owns(GiveBack(h2, task), DOMAIN ReapMem, mem)
    BY <1>1, OwnsOld
  <2>3. Owns(GiveBack(h2, task), DOMAIN ReapMem, ReapMem)
    <3> HIDE DEF h2, task
    <3> QED BY <2>2, <1>2 DEF Owns, Two
  <2> HIDE DEF h2, task, stack
  <2>4. Owns(taskHeap', DOMAIN mem', mem')
    BY <2>1, <2>3
  <2>5. RingInv'
    <3>1. \A t : t \in DOMAIN mem' <=> (t # task0 /\ OnRing(ring', t))
      BY <1>1, <2>1
    <3>2. ASSUME NEW i \in 1 .. Len(ring') PROVE ring'[i] < next_pid'
      <4>1. OnRing(ring', ring'[i])
        BY DEF OnRing
      <4> QED BY <4>1, <1>1, <1>3, <2>1
    <3>3. task0' = task0
      BY DEF task0
    <3> QED BY <3>1, <3>2, <3>3, <1>0, <1>1, <1>4, <2>1 DEF RingInv
  <2>6. ChainInv'
    BY <1>0, <1>1, <1>5, <2>1 DEF TaskInv, ChainInv
  <2> QED BY <2>4, <2>5, <2>6 DEF TaskInv
<1> QED BY <1>7, <1>8

LEMMA EndTaskStep ==
    ASSUME TaskInv, NEW i \in DOMAIN chain, EndTask(i)
    PROVE  TaskInv'
<1>0. /\ chain \in Seq(Nat) /\ Distinct(chain) /\ i \in 1 .. Len(chain) /\ Len(chain) \in Nat
      /\ ring \in Seq(Nat) /\ Distinct(ring)
      /\ \A j \in 1 .. Len(chain) : OnRing(ring, chain[j])
  BY DEF TaskInv, ChainInv, RingInv
<1>1. /\ chain' = SubSeq(chain, 1, i - 1) /\ taskHeap' = taskHeap /\ mem' = mem /\ next_pid' = next_pid
      /\ ring' = IF i = 1 THEN ring ELSE Rotate(ring, chain[i - 1])
  BY DEF EndTask
<1>2. /\ chain' \in Seq(Nat) /\ Len(chain') = i - 1
      /\ \A j \in 1 .. i - 1 : chain'[j] = chain[j] /\ j \in 1 .. Len(chain)
  BY <1>0, <1>1
<1>3. /\ ring' \in Seq(Nat) /\ Distinct(ring') /\ \A u : OnRing(ring', u) <=> OnRing(ring, u)
      /\ i # 1 => ring'[1] = chain[i - 1]
  <2>1. CASE i = 1
    BY <2>1, <1>0, <1>1
  <2>2. CASE i # 1
    <3>1. i - 1 \in 1 .. Len(chain)
      BY <2>2, <1>0
    <3>2. PICK t : t = chain[i - 1]
      OBVIOUS
    <3>3. PICK r : r = ring
      OBVIOUS
    <3>4. r \in Seq(Nat) /\ Distinct(r) /\ OnRing(r, t) /\ ring' = Rotate(r, t)
      BY <2>2, <3>1, <3>2, <3>3, <1>0, <1>1
    <3>5. PICK q : q = Rotate(r, t)
      OBVIOUS
    <3>6. q \in Seq(Nat) /\ q[1] = t /\ Distinct(q) /\ \A u : OnRing(q, u) <=> OnRing(r, u)
      BY ONLY <3>4, <3>5, RotateProps
    <3> QED BY <3>2, <3>3, <3>4, <3>5, <3>6
  <2> QED BY <2>1, <2>2
<1>4. RingInv'
  <2>1. ASSUME NEW j \in 1 .. Len(ring') PROVE ring'[j] < next_pid'
    <3>1. OnRing(ring', ring'[j])
      BY DEF OnRing
    <3>2. OnRing(ring, ring'[j])
      BY <3>1, <1>3
    <3>3. \A u : OnRing(ring, u) => u < next_pid
      BY DEF TaskInv, RingInv, OnRing
    <3> QED BY <3>2, <3>3, <1>1
  <2>2. task0' = task0
    BY DEF task0
  <2>3. \A t : t \in DOMAIN mem' <=> (t # task0 /\ OnRing(ring', t))
    BY <1>1, <1>3 DEF TaskInv, RingInv
  <2>4. OnRing(ring', task0) /\ next_pid' \in Nat
    BY <1>1, <1>3 DEF TaskInv, RingInv
  <2> QED BY <2>1, <2>2, <2>3, <2>4, <1>3 DEF RingInv
<1>5. ChainInv'
  <2>1. Distinct(chain')
    BY <1>0, <1>2 DEF Distinct
  <2>2. \A j \in 1 .. Len(chain') : OnRing(ring', chain'[j])
    BY <1>0, <1>2, <1>3
  <2>3. Len(chain') # 0 => ring'[1] = chain'[Len(chain')]
    <3> SUFFICES ASSUME Len(chain') # 0 PROVE ring'[1] = chain'[Len(chain')]
      OBVIOUS
    <3>1. Len(chain') = i - 1 /\ i # 1 /\ i - 1 \in 1 .. i - 1
      BY <1>0, <1>2
    <3>2. chain'[i - 1] = chain[i - 1]
      BY <3>1, <1>2
    <3> QED BY <3>1, <3>2, <1>3
  <2> QED BY <2>1, <2>2, <2>3, <1>2 DEF ChainInv
<1> QED BY <1>1, <1>4, <1>5 DEF TaskInv

LEMMA TaskNextInv == TaskInv /\ [TaskNext]_taskVars => TaskInv'
<1> SUFFICES ASSUME TaskInv, [TaskNext]_taskVars PROVE TaskInv'
  OBVIOUS
<1>1. CASE UNCHANGED taskVars
  <2>1. RingInv'
    BY <1>1 DEF taskVars, TaskInv, RingInv, task0
  <2>2. ChainInv'
    BY <1>1 DEF taskVars, TaskInv, ChainInv
  <2> QED BY <1>1, <2>1, <2>2 DEF taskVars, TaskInv
<1>2. CASE sched_task_new
  BY <1>2, NewTaskStep
<1>3. CASE \E i \in DOMAIN chain : EndTask(i)
  BY <1>3, EndTaskStep
<1>4. CASE Halted
  BY <1>4, <1>1 DEF Halted
<1> QED BY <1>1, <1>2, <1>3, <1>4 DEF TaskNext

\* The inductive invariant holds, for a heap, a header, a task_t and a stack of
\* any size.
THEOREM TaskInvariance == TaskSpec => []TaskInv
<1>1. TaskInv /\ [TaskNext]_taskVars => TaskInv'
  BY TaskNextInv
<1> QED BY <1>1, TaskInitInv, PTL DEF TaskSpec

\* No use after free: sched_reap and the failure path of sched_task_new never
\* take the blocks of a task that is still on the ring, nor give them twice.
THEOREM StacksAreLiveHolds == TaskSpec => []StacksAreLive
<1>1. TaskInv => StacksAreLive
  <2> SUFFICES ASSUME TaskInv PROVE StacksAreLive
    OBVIOUS
  <2>1. ASSUME NEW t \in DOMAIN mem
        PROVE  /\ IsUsed(taskHeap, mem[t].task) /\ IsUsed(taskHeap, mem[t].stack)
               /\ mem[t].task # heap_base /\ mem[t].stack # heap_base
               /\ mem[t].task # mem[t].stack
               /\ TaskSize <= taskHeap.blk[mem[t].task].size
               /\ StackSize <= taskHeap.blk[mem[t].stack].size
    BY DEF TaskInv, Owns
  <2>2. ASSUME NEW t \in DOMAIN mem
        PROVE  /\ taskHeap.blk[mem[t].task].size \in Nat /\ taskHeap.blk[mem[t].stack].size \in Nat
    BY <2>1, EndProps DEF TaskInv, Owns, IsUsed
  <2>3. TaskSize \in Nat /\ StackSize \in Nat
    BY TaskAssumption
  <2>4. ASSUME NEW t \in DOMAIN mem
        PROVE  taskHeap.blk[mem[t].task].size >= TaskSize /\ taskHeap.blk[mem[t].stack].size >= StackSize
    BY <2>1, <2>2, <2>3
  <2>5. \A s, t \in DOMAIN mem : s # t => BlocksOf(s) \cap BlocksOf(t) = {}
    BY DEF TaskInv, Owns, Two, BlocksOf
  <2> QED BY <2>1, <2>4, <2>5 DEF StacksAreLive, BlocksOf, IsUsed
<1> QED BY <1>1, TaskInvariance, PTL

\* No leak: a block in use is the first one or belongs to a task on the ring,
\* after every reap, exit and failure.
THEOREM TasksLeakNothingHolds == TaskSpec => []TasksLeakNothing
<1>1. TaskInv => TasksLeakNothing
  <2> SUFFICES ASSUME TaskInv, NEW b \in Blocks(taskHeap), taskHeap.blk[b].is_free # 1, b # heap_base
               PROVE  \E t \in DOMAIN mem : b \in BlocksOf(t)
    BY DEF TasksLeakNothing
  <2>1. taskHeap.blk[b].is_free \in {0, 1}
    BY EndProps DEF TaskInv, Owns
  <2> QED BY <2>1 DEF TaskInv, Owns, IsUsed, Two, BlocksOf
<1> QED BY <1>1, TaskInvariance, PTL
=============================================================================
