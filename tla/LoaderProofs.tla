---------------------------- MODULE LoaderProofs ----------------------------
(***************************************************************************)
(* Proofs about the two ELF loaders.  ElfLoader, for every file and every     *)
(* memory layout: what elf_load writes lies in the range elf_extent computed,  *)
(* a refused file changes nothing, and a loaded one is in memory.  BootLoader, *)
(* for kernels, machines and buffers of any size and any number of read errors: *)
(* it starts the kernel only when its image and the memory map are in memory.   *)
(***************************************************************************)
EXTENDS ElfLoader, BootLoader, FiniteSetTheorems, TLAPS

-----------------------------------------------------------------------------
(* ElfLoader.                                                               *)

\* Byte a of segment s in memory.
ByteOf(s, a) ==
    IF a - file.phdrs[s].p_vaddr < file.phdrs[s].p_filesz
    THEN file.phdrs[s].p_offset + a - file.phdrs[s].p_vaddr ELSE Zero

\* The loop of elf_extent has looked at segment s: it is in the range.
InExtent(s) == lo <= file.phdrs[s].p_vaddr /\ SegEnd(file.phdrs[s]) <= hi

Untouched == (\A a \in Addr : mem[a] = Old) /\ user = BootPages

\* The segments before n that cover a, and what address a holds by them.
By(a, n) == {s \in LoadSegs : s < n /\ Covers(s, a)}
Placed(a, n) ==
    IF By(a, n) = {} THEN mem[a] = Old
    ELSE \E s \in By(a, n) : /\ \A l \in By(a, n) : l <= s
                             /\ mem[a] = ByteOf(s, a)
                             /\ a \div PageSize \in user

\* The inductive invariant: how far each of the three loops has come.
IInv ==
    /\ TypeOK
    /\ pc = "extent" => \A s \in LoadSegs : s < i => InExtent(s)
    /\ pc \in {"check", "load", "done"} => \A s \in LoadSegs : InExtent(s)
    /\ pc = "check" => \A s \in LoadSegs : s < i => SegmentOk(file.phdrs[s])
    /\ pc \in {"load", "done"} => \A s \in LoadSegs : SegmentOk(file.phdrs[s])
    /\ pc \in {"extent", "check", "failed"} => Untouched
    /\ pc \in {"load", "done"} => \A a \in Addr : Placed(a, i)
    /\ pc = "done" => i > Len(file.phdrs)

-----------------------------------------------------------------------------
\* The fields of a program header of the file are natural numbers.
LEMMA PhdrFields ==
    ASSUME file \in Files, NEW s \in 1 .. Len(file.phdrs)
    PROVE  /\ file.phdrs[s].p_vaddr \in Nat /\ file.phdrs[s].p_memsz \in Nat
           /\ file.phdrs[s].p_filesz \in Nat /\ file.phdrs[s].p_offset \in Nat
           /\ SegEnd(file.phdrs[s]) \in Nat
           /\ Len(file.phdrs) \in Nat
PROOF
  <1>1. file \in FileType BY FilesAssumption
  <1>2. file.phdrs \in Seq(Phdr) BY <1>1 DEF FileType
  <1>3. file.phdrs[s] \in Phdr BY <1>2
  <1>4. /\ file.phdrs[s].p_vaddr \in Nat /\ file.phdrs[s].p_memsz \in Nat
        /\ file.phdrs[s].p_filesz \in Nat /\ file.phdrs[s].p_offset \in Nat
    BY <1>3, Zenon DEF Phdr
  <1>5. Len(file.phdrs) \in Nat BY <1>2
  <1> QED BY <1>4, <1>5 DEF SegEnd

\* The number of program headers is a natural number.
LEMMA PhdrCount == ASSUME file \in Files PROVE Len(file.phdrs) \in Nat /\ file.size \in Nat
PROOF
  <1>1. file \in FileType BY FilesAssumption
  <1> QED BY <1>1 DEF FileType

\* Division by a positive number is monotone.
LEMMA DivMonotone ==
    ASSUME NEW d \in Nat \ {0}, NEW m \in Nat, NEW n \in Nat, m <= n
    PROVE  m \div d <= n \div d
PROOF
  <1> DEFINE p == m \div d
             q == n \div d
  <1>1. p \in Int /\ q \in Int /\ d * p <= m /\ n < d * q + d
    BY SMT
  <1>2. SUFFICES ASSUME p > q PROVE FALSE BY <1>1
  <1>3. d * p >= d * q + d
    <2> HIDE DEF p, q
    <2>1. PICK c \in Nat : p = q + 1 + c BY <1>1, <1>2
    <2>2. d * p = d * q + d + d * c BY <1>1, <2>1
    <2>3. d * c >= 0 BY <2>1
    <2> QED BY <1>1, <2>2, <2>3
  <1> QED BY <1>1, <1>3

\* The pages of a range are natural numbers.
LEMMA PagesNat ==
    ASSUME NEW start \in Nat, NEW end \in Nat
    PROVE  Pages(start, end) \subseteq Nat
PROOF
  <1>1. PageSize \in Nat \ {0} BY LayoutAssumption
  <1>2. start \div PageSize \in Int /\ 0 <= start \div PageSize BY <1>1
  <1> QED BY <1>1, <1>2 DEF Pages

\* What the copy of one segment leaves at one address.
LEMMA CopiedAt ==
    ASSUME NEW p, p.p_vaddr \in Nat, p.p_memsz \in Nat, p.p_filesz \in Nat, p.p_offset \in Nat,
           p.p_filesz <= p.p_memsz, NEW a \in Addr
    PROVE  Copied(p)[a] = IF p.p_vaddr <= a /\ a < SegEnd(p)
                          THEN IF a - p.p_vaddr < p.p_filesz THEN p.p_offset + a - p.p_vaddr
                               ELSE Zero
                          ELSE mem[a]
PROOF
  <1>1. a \in Nat BY LayoutAssumption DEF Addr
  <1> QED BY <1>1 DEF Copied, SegEnd

\* The page of an address of a range is among the pages of the range.
LEMMA PageOf ==
    ASSUME NEW a \in Nat, NEW start \in Nat, NEW end \in Nat, start <= a, a < end
    PROVE  a \div PageSize \in Pages(start, end)
PROOF
  <1>1. PageSize \in Nat \ {0} BY LayoutAssumption
  <1>2. start \div PageSize <= a \div PageSize BY <1>1, DivMonotone
  <1>3. a \div PageSize <= (end - 1) \div PageSize BY <1>1, DivMonotone
  <1> QED BY <1>1, <1>2, <1>3 DEF Pages

\* The first state has looked at no segment and touched nothing.
LEMMA InitInv == Init => IInv
PROOF
  <1> SUFFICES ASSUME Init PROVE IInv OBVIOUS
  <1>1. TypeOK BY LayoutAssumption DEF Init, TypeOK, Old
  <1>2. \A s \in LoadSegs : ~(s < i) BY PhdrCount DEF Init, LoadSegs
  <1>3. Untouched BY DEF Init, Untouched
  <1> QED BY <1>1, <1>2, <1>3 DEF Init, IInv

\* A refusal is harmless as long as nothing was copied.
LEMMA FailInv == ASSUME TypeOK, Untouched, Fail PROVE IInv'
PROOF
  <1>1. TypeOK' BY DEF TypeOK, Fail
  <1>2. Untouched' BY DEF Untouched, Fail
  <1>3. pc' = "failed" BY DEF Fail
  <1> QED BY <1>1, <1>2, <1>3 DEF IInv

\* elf_extent: the range grows with each segment and covers those before.
LEMMA ExtentInv == ASSUME IInv, ExtentSegment PROVE IInv'
PROOF
  <1> USE DEF IInv
  <1>1. CASE IsLoad(Ph) /\ SegEnd(Ph) > LoadLimit
    <2>1. Fail BY <1>1 DEF ExtentSegment
    <2>2. Untouched BY DEF ExtentSegment
    <2> QED BY <2>1, <2>2, FailInv
  <1>2. CASE ~(IsLoad(Ph) /\ SegEnd(Ph) > LoadLimit)
    <2>1. /\ pc = "extent" /\ pc' = "extent" /\ i' = i + 1 /\ file' = file /\ mem' = mem
          /\ user' = user
          /\ lo' = IF IsLoad(Ph) /\ Ph.p_vaddr < lo THEN Ph.p_vaddr ELSE lo
          /\ hi' = IF IsLoad(Ph) /\ SegEnd(Ph) > hi THEN SegEnd(Ph) ELSE hi
      BY <1>2 DEF ExtentSegment, NextSegment
    <2>2. i \in 1 .. Len(file.phdrs) BY PhdrCount DEF ExtentSegment, InLoop, TypeOK
    <2>3. Ph.p_vaddr \in Nat /\ SegEnd(Ph) \in Nat BY <2>2, PhdrFields DEF Ph, TypeOK
    <2>4. TypeOK' BY <2>1, <2>3 DEF TypeOK
    <2>5. ASSUME NEW s \in LoadSegs, s < i + 1
          PROVE  lo' <= file.phdrs[s].p_vaddr /\ SegEnd(file.phdrs[s]) <= hi'
      <3>1. s \in 1 .. Len(file.phdrs) /\ IsLoad(file.phdrs[s]) BY DEF LoadSegs
      <3>2. file.phdrs[s].p_vaddr \in Nat /\ SegEnd(file.phdrs[s]) \in Nat
        BY <3>1, PhdrFields DEF TypeOK
      <3>3. CASE s = i BY <3>3, <3>1, <3>2, <2>1, <2>3 DEF Ph, TypeOK
      <3>4. CASE s # i
        <4>1. s < i BY <3>4, <2>5, <3>1, PhdrCount DEF TypeOK
        <4>2. InExtent(s) BY <4>1, <2>1
        <4> QED BY <4>2, <2>1, <2>3, <3>2 DEF InExtent, TypeOK
      <3> QED BY <3>3, <3>4
    <2>6. LoadSegs' = LoadSegs BY <2>1 DEF LoadSegs
    <2>7. \A s \in LoadSegs' : s < i' => InExtent(s)' BY <2>5, <2>6, <2>1 DEF InExtent, SegEnd
    <2>8. Untouched' BY <2>1 DEF Untouched
    <2> QED BY <2>1, <2>4, <2>7, <2>8
  <1> QED BY <1>1, <1>2

\* The end of elf_extent: all segments are in the range.
LEMMA ExtentEndInv == ASSUME IInv, ExtentEnd PROVE IInv'
PROOF
  <1> USE DEF IInv
  <1>0. Untouched BY DEF ExtentEnd
  <1>1. CASE hi = 0 BY <1>0, <1>1, FailInv DEF ExtentEnd
  <1>2. CASE hi # 0
    <2>1. /\ pc = "extent" /\ pc' = "check" /\ i' = 1
          /\ UNCHANGED <<file, lo, hi, mem, user>>
      BY <1>2 DEF ExtentEnd
    <2>2. TypeOK' BY <2>1 DEF TypeOK
    <2>3. LoadSegs' = LoadSegs BY <2>1 DEF LoadSegs
    <2>4. \A s \in LoadSegs : InExtent(s)
      BY <2>1, PhdrCount DEF LoadSegs, ExtentEnd, InLoop, TypeOK
    <2>5. \A s \in LoadSegs' : InExtent(s)' BY <2>1, <2>3, <2>4 DEF InExtent, SegEnd
    <2>6. \A s \in LoadSegs' : ~(s < i') BY <2>1, <2>3, PhdrCount DEF LoadSegs, TypeOK
    <2>7. Untouched' BY <1>0, <2>1 DEF Untouched
    <2> QED BY <2>1, <2>2, <2>5, <2>6, <2>7
  <1> QED BY <1>1, <1>2

\* The first pass of elf_load.
LEMMA CheckInv == ASSUME IInv, CheckSegment PROVE IInv'
PROOF
  <1> USE DEF IInv
  <1>0. Untouched BY DEF CheckSegment
  <1>1. CASE IsLoad(Ph) /\ ~SegmentOk(Ph) BY <1>0, <1>1, FailInv DEF CheckSegment
  <1>2. CASE ~(IsLoad(Ph) /\ ~SegmentOk(Ph))
    <2>1. /\ pc = "check" /\ pc' = "check" /\ i' = i + 1
          /\ UNCHANGED <<file, lo, hi, mem, user>>
      BY <1>2 DEF CheckSegment, NextSegment
    <2>2. TypeOK' BY <2>1 DEF TypeOK
    <2>3. LoadSegs' = LoadSegs BY <2>1 DEF LoadSegs
    <2>4. \A s \in LoadSegs' : InExtent(s)' BY <2>1, <2>3 DEF InExtent, SegEnd
    <2>5. ASSUME NEW s \in LoadSegs, s < i + 1 PROVE SegmentOk(file.phdrs[s])
      <3>1. s \in 1 .. Len(file.phdrs) /\ IsLoad(file.phdrs[s]) BY DEF LoadSegs
      <3>2. CASE s = i BY <3>2, <3>1, <1>2 DEF Ph
      <3>3. CASE s # i
        <4>1. s < i BY <3>3, <2>5, <3>1, PhdrCount DEF TypeOK
        <4> QED BY <4>1, <2>1
      <3> QED BY <3>2, <3>3
    <2>6. \A s \in LoadSegs' : s < i' => SegmentOk(file.phdrs[s])'
      BY <2>1, <2>3, <2>5 DEF SegmentOk, SegEnd
    <2>7. Untouched' BY <1>0, <2>1 DEF Untouched
    <2> QED BY <2>1, <2>2, <2>4, <2>6, <2>7
  <1> QED BY <1>1, <1>2

\* The entry is accepted and the second pass begins.
LEMMA EntryInv == ASSUME IInv, CheckEntry PROVE IInv'
PROOF
  <1> USE DEF IInv
  <1>0. Untouched BY DEF CheckEntry
  <1>1. CASE pc' = "failed"
    <2>1. Fail BY <1>1 DEF CheckEntry, Fail
    <2> QED BY <2>1, <1>0, FailInv
  <1>2. CASE pc' # "failed"
    <2>1. /\ pc = "check" /\ pc' = "load" /\ i' = 1
          /\ UNCHANGED <<file, lo, hi, mem, user>>
      BY <1>2 DEF CheckEntry, Fail
    <2>2. TypeOK' BY <2>1 DEF TypeOK
    <2>3. LoadSegs' = LoadSegs BY <2>1 DEF LoadSegs
    <2>4. \A s \in LoadSegs' : InExtent(s)' BY <2>1, <2>3 DEF InExtent, SegEnd
    <2>5. \A s \in LoadSegs : s < i
      BY PhdrCount DEF LoadSegs, CheckEntry, InLoop, TypeOK
    <2>6. \A s \in LoadSegs' : SegmentOk(file.phdrs[s])'
      BY <2>1, <2>3, <2>5 DEF SegmentOk, SegEnd
    <2>7. \A a \in Addr : By(a, 1)' = {}
      BY <2>1, <2>3, PhdrCount DEF By, LoadSegs, TypeOK
    <2>8. \A a \in Addr : Placed(a, i)' BY <2>1, <2>7, <1>0 DEF Placed, Untouched
    <2> QED BY <2>1, <2>2, <2>4, <2>6, <2>8
  <1> QED BY <1>1, <1>2

\* The second pass: a segment is written over the ones before it.
LEMMA LoadInv == ASSUME IInv, LoadSegment PROVE IInv'
PROOF
  <1> USE DEF IInv
  <1>1. /\ pc = "load" /\ pc' = "load" /\ i' = i + 1 /\ UNCHANGED <<file, lo, hi>>
        /\ mem' = IF IsLoad(Ph) THEN Copied(Ph) ELSE mem
        /\ user' = IF IsLoad(Ph) THEN user \cup Pages(Ph.p_vaddr, SegEnd(Ph)) ELSE user
    BY DEF LoadSegment, NextSegment
  <1>2. i \in 1 .. Len(file.phdrs) BY PhdrCount DEF LoadSegment, InLoop, TypeOK
  <1>3. /\ Ph.p_vaddr \in Nat /\ Ph.p_memsz \in Nat /\ Ph.p_filesz \in Nat
        /\ Ph.p_offset \in Nat /\ SegEnd(Ph) \in Nat
    BY <1>2, PhdrFields DEF Ph, TypeOK
  <1>4. IsLoad(Ph) => Ph.p_filesz <= Ph.p_memsz
    <2>1. IsLoad(Ph) => i \in LoadSegs BY <1>2 DEF LoadSegs, Ph
    <2> QED BY <2>1, <1>1 DEF SegmentOk, Ph
  <1>5. TypeOK'
    <2>1. Pages(Ph.p_vaddr, SegEnd(Ph)) \subseteq Nat
      BY <1>3, PagesNat
    <2>2. user' \in SUBSET Nat BY <1>1, <2>1 DEF TypeOK
    <2>3. Copied(Ph) \in [Addr -> Int] BY <1>3 DEF Copied, TypeOK, Addr, Zero
    <2>4. mem' \in [Addr -> Int] BY <1>1, <2>3 DEF TypeOK
    <2> QED BY <1>1, <2>2, <2>4 DEF TypeOK
  <1>6. LoadSegs' = LoadSegs BY <1>1 DEF LoadSegs
  <1>7. \A s \in LoadSegs' : InExtent(s)' BY <1>1, <1>6 DEF InExtent, SegEnd
  <1>8. \A s \in LoadSegs' : SegmentOk(file.phdrs[s])'
    BY <1>1, <1>6 DEF SegmentOk, SegEnd
  <1>9. ASSUME NEW a \in Addr PROVE Placed(a, i)'
    <2> DEFINE Now == By(a, i)
               Then == By(a, i + 1)
    <2>1. Then = IF IsLoad(Ph) /\ Covers(i, a) THEN Now \cup {i} ELSE Now
      BY <1>2, PhdrCount DEF By, LoadSegs, Ph, TypeOK
    <2>2. By(a, i)' = Then BY <1>1, <1>6 DEF By, Covers, SegEnd
    <2>3. \A s \in Then : s \in 1 .. Len(file.phdrs) /\ s <= i
      BY <1>2, PhdrCount DEF By, LoadSegs, TypeOK
    <2>4. \A s \in Then : ByteOf(s, a)' = ByteOf(s, a) BY <1>1 DEF ByteOf
    <2>5. user \subseteq user' BY <1>1
    <2>6. Placed(a, i) BY <1>1
    <2>7. CASE IsLoad(Ph) /\ Covers(i, a)
      <3>1. Ph.p_vaddr <= a /\ a < SegEnd(Ph) BY <2>7 DEF Covers, Ph
      <3>2. mem'[a] = ByteOf(i, a)
        BY <2>7, <1>1, <1>3, <1>4, <3>1, CopiedAt DEF ByteOf, Ph
      <3>3. a \div PageSize \in Pages(Ph.p_vaddr, SegEnd(Ph))
        BY <3>1, <1>3, PageOf DEF Addr
      <3>4. a \div PageSize \in user' BY <3>3, <1>1, <2>7
      <3>5. i \in Then BY <2>1, <2>7
      <3> HIDE DEF Then
      <3> QED BY <3>2, <3>4, <3>5, <2>2, <2>3, <2>4 DEF Placed
    <2>8. CASE ~(IsLoad(Ph) /\ Covers(i, a))
      <3>1. Then = Now BY <2>1, <2>8
      <3>2. mem'[a] = mem[a]
        BY <2>8, <1>1, <1>3, <1>4, CopiedAt DEF Covers, Ph
      <3> HIDE DEF Then
      <3>3. CASE Now = {} BY <3>1, <3>2, <3>3, <2>2, <2>6 DEF Placed
      <3>4. CASE Now # {}
        <4>1. PICK s \in Now : /\ \A l \in Now : l <= s
                               /\ mem[a] = ByteOf(s, a) /\ a \div PageSize \in user
          BY <2>6, <3>4 DEF Placed
        <4> QED BY <4>1, <3>1, <3>2, <2>2, <2>4, <2>5 DEF Placed
      <3> QED BY <3>3, <3>4
    <2> QED BY <2>7, <2>8
  <1> QED BY <1>1, <1>5, <1>7, <1>8, <1>9

\* elf_load returns.
LEMMA LoadEndInv == ASSUME IInv, LoadEnd PROVE IInv'
PROOF
  <1> USE DEF IInv
  <1>1. pc = "load" /\ pc' = "done" /\ UNCHANGED <<file, i, lo, hi, mem, user>> BY DEF LoadEnd
  <1>2. TypeOK' BY <1>1 DEF TypeOK
  <1>3. LoadSegs' = LoadSegs BY <1>1 DEF LoadSegs
  <1>4. \A s \in LoadSegs' : InExtent(s)' /\ SegmentOk(file.phdrs[s])'
    BY <1>1, <1>3 DEF InExtent, SegmentOk, SegEnd
  <1>5. \A a \in Addr : Placed(a, i)'
    BY <1>1, <1>3 DEF Placed, By, Covers, ByteOf, SegEnd
  <1>6. i' > Len(file'.phdrs) BY <1>1, PhdrCount DEF LoadEnd, InLoop, TypeOK
  <1> QED BY <1>1, <1>2, <1>4, <1>5, <1>6

\* IInv holds in every state of the loader, for every file.
THEOREM Invariance == Spec => []IInv
PROOF
  <1>1. ASSUME IInv, [Next]_vars PROVE IInv'
    <2>1. CASE ExtentInvalid
      <3>1. TypeOK /\ Untouched BY <1>1, <2>1 DEF IInv, ExtentInvalid
      <3> QED BY <3>1, <2>1, FailInv DEF ExtentInvalid
    <2>2. CASE ExtentSegment BY <1>1, <2>2, ExtentInv
    <2>3. CASE ExtentEnd BY <1>1, <2>3, ExtentEndInv
    <2>4. CASE CheckSegment BY <1>1, <2>4, CheckInv
    <2>5. CASE CheckEntry BY <1>1, <2>5, EntryInv
    <2>6. CASE LoadSegment BY <1>1, <2>6, LoadInv
    <2>7. CASE LoadEnd BY <1>1, <2>7, LoadEndInv
    <2>8. CASE UNCHANGED vars
      BY <1>1, <2>8 DEF vars, IInv, TypeOK, LoadSegs, InExtent, SegmentOk, SegEnd, Untouched, Placed,
                        By, Covers, ByteOf
    <2> QED BY <1>1, <2>1, <2>2, <2>3, <2>4, <2>5, <2>6, <2>7, <2>8 DEF Next
  <1> QED BY <1>1, InitInv, PTL DEF Spec

\* The loader's variables keep their types.
THEOREM TypeCorrect == Spec => []TypeOK
PROOF
  <1>1. IInv => TypeOK BY DEF IInv
  <1> QED BY <1>1, Invariance, PTL

\* For every file and layout, elf_load writes only what elf_extent announced,
\* nothing of the kernel's image, and only bytes of the file.
THEOREM WritesHold == Spec => []WritesInExtent
PROOF
  <1>1. ASSUME IInv, NEW a \in Addr, mem[a] # Old
        PROVE  /\ lo <= a /\ a < hi
               /\ ~(KernelStart <= a /\ a < KernelEnd)
               /\ mem[a] \in -1 .. file.size - 1
    <2> USE DEF IInv
    <2>1. pc \in {"load", "done"} BY <1>1 DEF TypeOK, Untouched
    <2>2. PICK s \in By(a, i) : mem[a] = ByteOf(s, a) BY <1>1, <2>1 DEF Placed
    <2>3. s \in LoadSegs /\ Covers(s, a) BY <2>2 DEF By
    <2>4. s \in 1 .. Len(file.phdrs) BY <2>3 DEF LoadSegs
    <2>5. InExtent(s) /\ SegmentOk(file.phdrs[s]) BY <1>1, <2>1, <2>3
    <2>6. /\ file.phdrs[s].p_vaddr \in Nat /\ file.phdrs[s].p_memsz \in Nat
          /\ file.phdrs[s].p_filesz \in Nat /\ file.phdrs[s].p_offset \in Nat
          /\ SegEnd(file.phdrs[s]) \in Nat /\ file.size \in Nat
      BY <1>1, <2>4, PhdrFields, PhdrCount DEF TypeOK
    <2>7. a \in Nat /\ lo \in Nat /\ hi \in Nat BY <1>1, LayoutAssumption DEF Addr, TypeOK
    <2>8. lo <= a /\ a < hi BY <2>3, <2>5, <2>6, <2>7 DEF Covers, InExtent
    <2>9. ~(KernelStart <= a /\ a < KernelEnd)
      BY <2>3, <2>5, <2>6, <2>7, LayoutAssumption DEF Covers, SegmentOk
    <2>10. mem[a] \in -1 .. file.size - 1
      BY <2>2, <2>3, <2>5, <2>6, <2>7 DEF ByteOf, Covers, SegmentOk, Zero
    <2> QED BY <2>8, <2>9, <2>10
  <1>2. IInv => WritesInExtent BY <1>1 DEF WritesInExtent
  <1> QED BY <1>2, Invariance, PTL

\* For every file, a refusal leaves memory and page table as they were.
THEOREM RefusedHolds == Spec => []RefusedUntouched
PROOF
  <1>1. IInv => RefusedUntouched BY DEF IInv, RefusedUntouched, Untouched
  <1> QED BY <1>1, Invariance, PTL

\* For every file that is loaded, memory holds its segments.
THEOREM ImageHolds == Spec => []ImageLoaded
PROOF
  <1>1. ASSUME IInv, pc = "done", NEW a \in Addr
        PROVE  LET by == {s \in LoadSegs : Covers(s, a)}
                   s == CHOOSE s \in by : \A l \in by : l <= s
                   p == file.phdrs[s]
               IN  IF by = {} THEN mem[a] = Old
                   ELSE /\ mem[a] = IF a - p.p_vaddr < p.p_filesz
                                    THEN p.p_offset + a - p.p_vaddr ELSE Zero
                        /\ a \div PageSize \in user
    <2> DEFINE by == {s \in LoadSegs : Covers(s, a)}
               s == CHOOSE s \in by : \A l \in by : l <= s
    <2>1. by = By(a, i) BY <1>1, PhdrCount DEF IInv, By, LoadSegs, TypeOK
    <2>2. Placed(a, i) BY <1>1 DEF IInv
    <2>3. CASE by = {} BY <2>1, <2>2, <2>3 DEF Placed
    <2>4. CASE by # {}
      <3>1. PICK m \in by : /\ \A l \in by : l <= m
                            /\ mem[a] = ByteOf(m, a) /\ a \div PageSize \in user
        BY <2>1, <2>2, <2>4 DEF Placed
      <3>2. by \subseteq Int BY DEF LoadSegs
      <3>3. s \in by /\ \A l \in by : l <= s BY <3>1
      <3>4. s = m
        <4> HIDE DEF by, s
        <4> QED BY <3>1, <3>2, <3>3
      <3>5. mem[a] = ByteOf(s, a) BY <3>1, <3>4
      <3>6. mem[a] = IF a - file.phdrs[s].p_vaddr < file.phdrs[s].p_filesz
                     THEN file.phdrs[s].p_offset + a - file.phdrs[s].p_vaddr ELSE Zero
        <4> HIDE DEF s
        <4> QED BY <3>5 DEF ByteOf
      <3> QED BY ONLY <2>4, <3>1, <3>6
    <2> QED BY <2>3, <2>4
  <1>2. IInv => ImageLoaded BY <1>1 DEF ImageLoaded
  <1> QED BY <1>2, Invariance, PTL

-----------------------------------------------------------------------------
(* BootLoader: the inductive invariant.                                     *)

\* The header is being read, or a piece of a segment.
Starting ==
    stage \in {"e820", "a20", "kbc", "header"} \/ (stage \in {"read", "one"} /\ back = "header")
Reading == stage \in {"read", "one"} /\ back = "copy"
Loading == stage \in {"chunk", "copy"} \/ Reading

BootType ==
    /\ kernel \in Kernels /\ machine \in Machines
    /\ stage \in {"e820", "a20", "kbc", "read", "one", "header", "segment", "chunk", "copy",
                  "kernel", "hang", "fault"}
    /\ stage \in {"read", "one"} => back \in {"header", "copy"}
    /\ bounce = [b \in 0 .. BounceBytes - 1 |-> bounce[b]]
    /\ ram = [a \in 0 .. AddressEnd - 1 |-> ram[a]]
    /\ k \in Nat \ {0}

\* The memory map has what the first n calls told.
Told(n) ==
    /\ n \in 0 .. Len(machine.smap) /\ mmap \in Seq(MapEntry)
    /\ Len(mmap) = Cardinality(RealEntries(n))
    /\ \A m \in RealEntries(n) : mmap[Cardinality(RealEntries(m))] = machine.smap[m]

MapInv ==
    /\ stage = "e820" => Told(asked) /\ Len(mmap) < MmapMax
    /\ stage \notin {"e820", "hang"} => MapTold
    /\ stage \notin {"e820", "a20", "kbc", "hang"} => a20

\* Where in the file the sectors of the buffer begin.
SectorStart == (seg_off \div Unit) * Unit

\* The first n bytes of the buffer are those of the sectors asked for.
Filled(n) == \A b \in 0 .. n - 1 : bounce[b] = SectorStart + b

\* A read is under way, or what it got is about to be used; the sectors it is for.
Fetching == stage \in {"read", "one"}
Fetched == stage \in {"header", "copy"}
ForHeader == stage = "header" \/ (Fetching /\ back = "header")
Wanted == IF ForHeader THEN HeaderBytes \div Unit ELSE units

\* The sectors still to read are those behind the part that is filled.
ReadInv ==
    /\ Fetching \/ Fetched =>
          /\ Wanted \in Nat \ {0} /\ Wanted * Unit <= BounceBytes
          /\ ~ForHeader => seg_filesz > 0
    /\ Fetching =>
          /\ want_count \in Nat \ {0} /\ dap_lba \in Int /\ dap_off \in Nat
          /\ dap_off + want_count * Unit = Wanted * Unit
          /\ (dap_lba - KernelBase) * Unit = SectorStart + dap_off
          /\ stage = "read" => dap_off = 0
          /\ stage = "one" => Filled(dap_off)
    /\ Fetched => Filled(Wanted * Unit)

\* The bytes of the current segment that are in their place.
InPlace == Seg.p_filesz - seg_filesz

\* The headers before k are done, and of header k the first InPlace bytes.  They are
\* those of the file: the buffer that they were taken from was filled.
ImageInv ==
    /\ Starting => k = 1 /\ seg_off = 0
    /\ stage \in {"segment", "kernel"} \/ Loading => phbuf = kernel.phdrs
    /\ Starting \/ stage \in {"segment", "kernel"} =>
          \A a \in 0 .. AddressEnd - 1 : ram[a] = ImageByte(a, k - 1)
    /\ stage = "kernel" => k > Len(kernel.phdrs)
    /\ Loading =>
          /\ k <= Len(kernel.phdrs) /\ Seg.p_type = "PT_LOAD" /\ SegmentFits(Seg)
          /\ seg_filesz \in 0 .. Seg.p_filesz
          /\ seg_off = Seg.p_offset + InPlace /\ edi = Seg.p_paddr + InPlace
          /\ \A a \in 0 .. AddressEnd - 1 :
                ram[a] = IF a - Seg.p_paddr \in 0 .. Seg.p_memsz - 1
                         THEN IF a - Seg.p_paddr < InPlace THEN Seg.p_offset + a - Seg.p_paddr
                              ELSE Zeroed
                         ELSE ImageByte(a, k - 1)

BootInv == BootType /\ MapInv /\ ReadInv /\ ImageInv

BootVarsKept == kernel' = kernel /\ machine' = machine

-----------------------------------------------------------------------------
(* Kernels, machines and sizes.                                             *)

LEMMA Sizes ==
    /\ LowEnd \in Nat /\ AddressEnd \in Nat /\ KernelLba \in Nat /\ OffsetMod \in Nat
    /\ HeaderBytes \in Nat \ {0} /\ BounceBytes \in Nat \ {0} /\ MmapMax \in Nat \ {0}
    /\ HeaderBytes <= BounceBytes /\ BounceBytes <= OffsetMod
    /\ \A u \in {DiskUnit, CdUnit} :
          u \in Nat \ {0} /\ BounceBytes % u = 0 /\ HeaderBytes % u = 0 /\ 2 * u <= LowEnd
  BY BootAssumption, Zenon

LEMMA UnitIs ==
    ASSUME BootType
    PROVE  /\ Unit \in Nat \ {0} /\ BounceBytes % Unit = 0 /\ HeaderBytes % Unit = 0
           /\ 2 * Unit <= LowEnd /\ KernelBase \in Int
  <1>1. machine.file_lba \in Nat
    <2>1. machine \in Machine BY BootAssumption DEF BootType
    <2> QED BY <2>1 DEF Machine
  <1>2. Unit \in {DiskUnit, CdUnit} BY DEF Unit
  <1>3. (KernelLba * DiskUnit) \div CdUnit \in Int
    <2> DEFINE x == KernelLba * DiskUnit
    <2>0. KernelLba \in Nat /\ DiskUnit \in Nat \ {0} /\ CdUnit \in Nat \ {0} BY Sizes
    <2>1. x \in Int /\ CdUnit \in Nat \ {0} BY <2>0
    <2> HIDE DEF x
    <2>2. x \div CdUnit \in Int BY <2>1
    <2> QED BY <2>2 DEF x
  <1>4. KernelBase \in Int BY <1>1, <1>3, Sizes DEF KernelBase
  <1> QED BY <1>2, <1>4, Sizes

LEMMA SmapIs ==
    ASSUME BootType
    PROVE  machine.smap \in Seq(MapEntry) /\ Len(machine.smap) \in Nat
  <1>1. machine \in Machine BY BootAssumption DEF BootType
  <1>2. machine.smap \in Seq(MapEntry) BY <1>1 DEF Machine
  <1> QED BY <1>2

LEMMA PhdrsAre ==
    ASSUME BootType
    PROVE  /\ Len(kernel.phdrs) \in Nat
           /\ \A m \in 1 .. Len(kernel.phdrs) :
                 /\ kernel.phdrs[m].p_offset \in Nat /\ kernel.phdrs[m].p_paddr \in Nat
                 /\ kernel.phdrs[m].p_filesz \in Nat /\ kernel.phdrs[m].p_memsz \in Nat
                 /\ kernel.phdrs[m].p_filesz <= kernel.phdrs[m].p_memsz
  <1>1. kernel \in KernelFile BY BootAssumption DEF BootType
  <1>2. kernel.phdrs \in Seq(Segment) BY <1>1 DEF KernelFile
  <1>3. Len(kernel.phdrs) \in Nat /\ DOMAIN kernel.phdrs = 1 .. Len(kernel.phdrs) BY <1>2
  <1>4. ASSUME NEW m \in 1 .. Len(kernel.phdrs)
        PROVE  /\ kernel.phdrs[m].p_offset \in Nat /\ kernel.phdrs[m].p_paddr \in Nat
               /\ kernel.phdrs[m].p_filesz \in Nat /\ kernel.phdrs[m].p_memsz \in Nat
    <2>1. kernel.phdrs[m] \in Segment BY <1>2
    <2> QED BY <2>1 DEF Segment
  <1>5. \A m \in DOMAIN kernel.phdrs : kernel.phdrs[m].p_filesz <= kernel.phdrs[m].p_memsz
    BY BootAssumption DEF BootType
  <1> QED BY <1>3, <1>4, <1>5

\* Multiples of a sector.
LEMMA Times ==
    ASSUME NEW x \in Int, NEW u \in Nat \ {0}
    PROVE  /\ x * u \in Int /\ (x + 1) * u = x * u + u /\ (x - 1) * u = x * u - u
           /\ x > 0 => x * u >= u
           /\ x > 1 => x * u >= 2 * u
  <1>1. x * u \in Int OBVIOUS
  <1>2. (x + 1) * u = x * u + u OBVIOUS
  <1>3. (x - 1) * u = x * u - u OBVIOUS
  <1>4. ASSUME x > 0 PROVE x * u >= u BY <1>4
  <1>5. ASSUME x > 1 PROVE x * u >= 2 * u BY <1>5
  <1> QED BY <1>1, <1>2, <1>3, <1>4, <1>5

LEMMA DivMod ==
    ASSUME NEW x \in Int, NEW u \in Nat \ {0}
    PROVE  /\ x \div u \in Int /\ x % u \in 0 .. u - 1
           /\ (x \div u) * u = x - (x % u)
  <1> DEFINE q == x \div u
             r == x % u
  <1>1. q \in Int /\ r \in 0 .. u - 1 /\ x = u * q + r OBVIOUS
  <1> HIDE DEF q, r
  <1>2. q * u = x - r BY <1>1
  <1> QED BY <1>1, <1>2 DEF q, r

LEMMA SameUnit ==
    ASSUME BootVarsKept
    PROVE  Unit' = Unit /\ KernelBase' = KernelBase
  BY DEF BootVarsKept, Unit, KernelBase

-----------------------------------------------------------------------------
(* The image.                                                               *)

LEMMA SameImage ==
    ASSUME kernel' = kernel
    PROVE  \A a, n : ImageByte(a, n)' = ImageByte(a, n)
  BY DEF ImageByte, Covering, LoadSegments

LEMMA ImageStart ==
    ASSUME NEW a
    PROVE  ImageByte(a, 0) = Before
  <1>1. Covering(a, 0) = {} BY DEF Covering, LoadSegments
  <1> QED BY <1>1 DEF ImageByte

\* A header that loads nothing at a changes nothing there.
LEMMA ImageSkip ==
    ASSUME NEW a, NEW n \in Nat \ {0},
           n \notin LoadSegments \/ a - kernel.phdrs[n].p_paddr \notin 0 .. kernel.phdrs[n].p_memsz - 1
    PROVE  ImageByte(a, n) = ImageByte(a, n - 1)
  <1>1. Covering(a, n) = Covering(a, n - 1) BY DEF Covering, LoadSegments
  <1> QED BY <1>1 DEF ImageByte

\* One that does counts for more than those before it.
LEMMA ImageLast ==
    ASSUME NEW a, NEW n \in LoadSegments,
           a - kernel.phdrs[n].p_paddr \in 0 .. kernel.phdrs[n].p_memsz - 1
    PROVE  ImageByte(a, n) =
              IF a - kernel.phdrs[n].p_paddr < kernel.phdrs[n].p_filesz
              THEN kernel.phdrs[n].p_offset + a - kernel.phdrs[n].p_paddr ELSE Zeroed
  <1> DEFINE by == Covering(a, n)
             c == CHOOSE m \in by : \A l \in by : l <= m
  <1>1. n \in Int /\ n \in by BY DEF Covering, LoadSegments
  <1>2. \A l \in by : l \in Int /\ l <= n BY DEF Covering, LoadSegments
  <1>3. ImageByte(a, n) = IF by = {} THEN Before
                          ELSE IF a - kernel.phdrs[c].p_paddr < kernel.phdrs[c].p_filesz
                          THEN kernel.phdrs[c].p_offset + a - kernel.phdrs[c].p_paddr ELSE Zeroed
    BY DEF ImageByte
  <1> HIDE DEF by
  <1>4. c \in by /\ \A l \in by : l <= c BY <1>1, <1>2
  <1> HIDE DEF c
  <1>5. c = n BY <1>1, <1>2, <1>4
  <1> QED BY <1>1, <1>3, <1>5

LEMMA ImageAll ==
    ASSUME BootType, NEW a, NEW n \in Nat, n >= Len(kernel.phdrs)
    PROVE  ImageByte(a, n) = ImageByte(a, Len(kernel.phdrs))
  <1>1. Len(kernel.phdrs) \in Nat BY PhdrsAre
  <1>2. Covering(a, n) = Covering(a, Len(kernel.phdrs)) BY <1>1 DEF Covering, LoadSegments
  <1> QED BY <1>2 DEF ImageByte

-----------------------------------------------------------------------------
(* Types.                                                                   *)

LEMMA TransferredIs ==
    ASSUME BootType, NEW n, NEW junk
    PROVE  LET t == Transferred(n, junk)
           IN  /\ t = [b \in 0 .. BounceBytes - 1 |-> t[b]]
               /\ \A b \in 0 .. BounceBytes - 1 :
                     t[b] = IF b - dap_off \in 0 .. n * Unit - 1
                            THEN (dap_lba - KernelBase) * Unit + (b - dap_off)
                            ELSE IF junk /\ b - dap_off \in n * Unit .. (n + 1) * Unit - 1 THEN Junk
                            ELSE bounce[b]
  <1>1. DOMAIN bounce = 0 .. BounceBytes - 1
    <2>1. bounce = [b \in 0 .. BounceBytes - 1 |-> bounce[b]] BY DEF BootType
    <2>2. DOMAIN [b \in 0 .. BounceBytes - 1 |-> bounce[b]] = 0 .. BounceBytes - 1 OBVIOUS
    <2> QED BY <2>1, <2>2
  <1> DEFINE v(b) == IF b - dap_off \in 0 .. n * Unit - 1
                     THEN (dap_lba - KernelBase) * Unit + (b - dap_off)
                     ELSE IF junk /\ b - dap_off \in n * Unit .. (n + 1) * Unit - 1 THEN Junk
                     ELSE bounce[b]
  <1>2. Transferred(n, junk) = [b \in 0 .. BounceBytes - 1 |-> v(b)] BY <1>1 DEF Transferred
  <1>3. \A b \in 0 .. BounceBytes - 1 : Transferred(n, junk)[b] = v(b)
    <2> HIDE DEF v
    <2> QED BY <1>2
  <1>4. Transferred(n, junk) = [b \in 0 .. BounceBytes - 1 |-> Transferred(n, junk)[b]]
    <2> HIDE DEF v
    <2> QED BY <1>2
  <1> QED BY <1>3, <1>4

LEMMA TransferredAt ==
    ASSUME BootType, NEW n, NEW junk, NEW b \in 0 .. BounceBytes - 1, NEW j, j = b - dap_off,
           NEW len, len = n * Unit
    PROVE  /\ j \in 0 .. len - 1 => Transferred(n, junk)[b] = (dap_lba - KernelBase) * Unit + j
           /\ j \notin 0 .. len - 1 /\ ~(junk /\ j \in len .. (n + 1) * Unit - 1) =>
                 Transferred(n, junk)[b] = bounce[b]
  <1> DEFINE t == Transferred(n, junk)
  <1>1. t[b] = IF b - dap_off \in 0 .. n * Unit - 1
               THEN (dap_lba - KernelBase) * Unit + (b - dap_off)
               ELSE IF junk /\ b - dap_off \in n * Unit .. (n + 1) * Unit - 1 THEN Junk
               ELSE bounce[b]
    BY TransferredIs
  <1> HIDE DEF t
  <1>2. t[b] = IF j \in 0 .. len - 1 THEN (dap_lba - KernelBase) * Unit + j
               ELSE IF junk /\ j \in len .. (n + 1) * Unit - 1 THEN Junk
               ELSE bounce[b]
    BY <1>1
  <1>3. ASSUME j \in 0 .. len - 1 PROVE t[b] = (dap_lba - KernelBase) * Unit + j BY <1>2, <1>3
  <1>4. ASSUME j \notin 0 .. len - 1, ~(junk /\ j \in len .. (n + 1) * Unit - 1) PROVE t[b] = bounce[b]
    BY <1>2, <1>4
  <1> QED BY <1>3, <1>4 DEF t

\* No read changes the buffer in front of its offset.
LEMMA TransferredBelow ==
    ASSUME BootType, \E n \in Nat : \E junk : bounce' = Transferred(n, junk), dap_off \in Nat,
           NEW b \in 0 .. BounceBytes - 1, b < dap_off
    PROVE  bounce'[b] = bounce[b]
  <1> PICK n \in Nat : \E junk : bounce' = Transferred(n, junk) OBVIOUS
  <1> PICK junk : bounce' = Transferred(n, junk) OBVIOUS
  <1> PICK j : j = b - dap_off OBVIOUS
  <1> PICK len : len = n * Unit OBVIOUS
  <1>1. Unit \in Nat \ {0} BY UnitIs
  <1>2. j \in Int /\ j < 0 /\ len \in Nat
    <2>1. BounceBytes \in Nat BY Sizes
    <2>2. b \in Int BY <2>1
    <2>3. len \in Nat BY <1>1
    <2> QED BY <2>2, <2>3
  <1>3. j \notin 0 .. len - 1 /\ j \notin len .. (n + 1) * Unit - 1 BY <1>1, <1>2
  <1>4. ~(junk /\ j \in len .. (n + 1) * Unit - 1) BY <1>3
  <1> QED BY <1>3, <1>4, TransferredAt

LEMMA RamDomain ==
    ASSUME BootType
    PROVE  DOMAIN ram = 0 .. AddressEnd - 1
  <1>1. ram = [a \in 0 .. AddressEnd - 1 |-> ram[a]] BY DEF BootType
  <1>2. DOMAIN [a \in 0 .. AddressEnd - 1 |-> ram[a]] = 0 .. AddressEnd - 1 OBVIOUS
  <1> QED BY <1>1, <1>2

Stages ==
    {"e820", "a20", "kbc", "read", "one", "header", "segment", "chunk", "copy", "kernel", "hang", "fault"}

LEMMA TypeKept ==
    ASSUME BootType, BootVarsKept, k' = k \/ k' = k + 1, ram' = ram,
           bounce' = bounce \/ (\E n, junk : bounce' = Transferred(n, junk)),
           stage' \in Stages, stage' \in {"read", "one"} => back' \in {"header", "copy"}
    PROVE  BootType'
  <1>1. bounce' = [b \in 0 .. BounceBytes - 1 |-> bounce'[b]]
    <2>1. CASE bounce' = bounce BY <2>1 DEF BootType
    <2>2. ASSUME NEW n, NEW junk, bounce' = Transferred(n, junk)
          PROVE  bounce' = [b \in 0 .. BounceBytes - 1 |-> bounce'[b]]
      <3> DEFINE t == Transferred(n, junk)
      <3>1. t = [b \in 0 .. BounceBytes - 1 |-> t[b]] BY TransferredIs
      <3>2. bounce' = t BY <2>2
      <3> HIDE DEF t
      <3> QED BY <3>1, <3>2
    <2> QED BY <2>1, <2>2
  <1>2. k' \in Nat \ {0} BY DEF BootType
  <1> QED BY <1>1, <1>2 DEF BootType, BootVarsKept, Stages

LEMMA RamType ==
    ASSUME BootType, BootVarsKept, k' = k, bounce' = bounce, stage' \in Stages \ {"read", "one"},
           ram' = [a \in 0 .. AddressEnd - 1 |-> ram'[a]]
    PROVE  BootType'
  BY DEF BootType, BootVarsKept, Stages

\* Where the A20 steps of the loader lead, and what they leave alone.
LEMMA A20Stage ==
    ASSUME FastA20 \/ KbcA20
    PROVE  /\ stage \in {"a20", "kbc"}
           /\ \/ stage' \in {"hang", "kbc"}
              \/ stage' = "read" /\ back' = "header" /\ a20' /\ A20Done
           /\ UNCHANGED <<mmap, phbuf, k, seg_off, seg_filesz, edi, ram>>
  <1>1. CASE FastA20
    <2>1. (a20' /\ A20Done) \/ stage' = "kbc" BY <1>1 DEF FastA20
    <2> QED BY <1>1, <2>1 DEF FastA20, A20Done, CallRead, mapVars, segVars
  <1>2. CASE KbcA20
    <2>1. (a20 /\ A20Done) \/ stage' = "hang" BY <1>2 DEF KbcA20, Hang
    <2> QED BY <1>2, <2>1 DEF KbcA20, A20Done, CallRead, mapVars, segVars, a20Vars
  <1> QED BY <1>1, <1>2

LEMMA TypeStep ==
    ASSUME BootType, BootNext
    PROVE  BootType' /\ BootVarsKept
  <1>1. CASE DetectMemory
    <2>1. stage' \in {"e820", "a20", "hang"}
      BY <1>1 DEF DetectMemory, E820End, E820Entry, Hang
    <2> QED BY <1>1, <2>1, TypeKept DEF DetectMemory, diskVars, segVars, Stages, BootVarsKept
  <1>2. CASE FastA20 \/ KbcA20
    <2>1. stage' \in {"hang", "kbc"} \/ (stage' = "read" /\ back' = "header") BY <1>2, A20Stage
    <2> QED BY <1>2, <2>1, TypeKept DEF FastA20, KbcA20, segVars, Stages, BootVarsKept
  <1>14. CASE TalkToKbc \/ KbcTakes
    <2>1. UNCHANGED <<stage, back>> BY <1>14 DEF TalkToKbc, KbcTakes
    <2>2. stage' \in Stages /\ (stage' \in {"read", "one"} => back' \in {"header", "copy"})
      BY <2>1 DEF BootType, Stages
    <2> QED BY <1>14, <2>2, TypeKept DEF TalkToKbc, KbcTakes, segVars, BootVarsKept
  <1>3. CASE TryMany
    <2>1. stage' \in {"header", "copy"} BY <1>3 DEF TryMany, ReadOk, BootType
    <2> QED BY <1>3, <2>1, TypeKept DEF TryMany, segVars, Stages, BootVarsKept
  <1>4. CASE TryOne
    <2>1. stage' \in {"header", "copy"} \/ (stage' = stage /\ stage = "one" /\ back' = back)
      BY <1>4 DEF TryOne, ReadOk, BootType
    <2> QED BY <1>4, <2>1, TypeKept DEF TryOne, segVars, Stages, BootVarsKept, BootType
  <1>5. CASE TryOneFails
    <2>1. stage' = "hang" \/ (stage' = "one" /\ stage = "one" /\ back' = back)
      BY <1>5 DEF TryOneFails, Hang
    <2> QED
      BY <1>5, <2>1, TypeKept DEF TryOneFails, ReadFails, segVars, Stages, BootVarsKept, BootType
  <1>6. ASSUME NEW n, TryManyFails(n) PROVE BootType' /\ BootVarsKept
    <2>1. stage' \in {"read", "one"} /\ stage = "read" /\ back' = back
      BY <1>6 DEF TryManyFails
    <2> QED
      BY <1>6, <2>1, TypeKept DEF TryManyFails, ReadFails, segVars, Stages, BootVarsKept, BootType
  <1>7. CASE CheckHeader
    <2>1. stage' \in {"segment", "hang"} BY <1>7 DEF CheckHeader, Hang
    <2> QED BY <1>7, <2>1, TypeKept DEF CheckHeader, diskVars, segVars, Stages, BootVarsKept
  <1>8. CASE SkipSegment
    <2>1. stage' = "segment" BY <1>8 DEF SkipSegment
    <2> QED BY <1>8, <2>1, TypeKept DEF SkipSegment, diskVars, Stages, BootVarsKept
  <1>9. CASE ZeroSegment
    <2>1. stage' \in {"hang", "chunk", "fault"} BY <1>9 DEF ZeroSegment, Hang
    <2>2. ram' = [a \in 0 .. AddressEnd - 1 |-> ram'[a]]
      BY <1>9, RamDomain DEF ZeroSegment, BootType
    <2> QED BY <1>9, <2>1, <2>2, RamType DEF ZeroSegment, diskVars, Stages, BootVarsKept
  <1>10. CASE SegmentDone
    <2>1. stage' = "segment" BY <1>10 DEF SegmentDone
    <2> QED BY <1>10, <2>1, TypeKept DEF SegmentDone, diskVars, Stages, BootVarsKept
  <1>11. CASE ReadChunk
    <2>1. stage' = "read" /\ back' = "copy" BY <1>11 DEF ReadChunk, CallRead
    <2> QED BY <1>11, <2>1, TypeKept DEF ReadChunk, Stages, BootVarsKept
  <1>12. CASE CopyChunk
    <2>1. stage' \in {"chunk", "fault"} BY <1>12 DEF CopyChunk
    <2>2. ram' = [a \in 0 .. AddressEnd - 1 |-> ram'[a]]
      BY <1>12, RamDomain DEF CopyChunk
    <2> QED BY <1>12, <2>1, <2>2, RamType DEF CopyChunk, diskVars, Stages, BootVarsKept
  <1>13. CASE JumpToKernel
    <2>1. stage' \in {"kernel", "hang"} BY <1>13 DEF JumpToKernel, Hang
    <2> QED BY <1>13, <2>1, TypeKept DEF JumpToKernel, diskVars, segVars, Stages, BootVarsKept
  <1> QED
    BY <1>1, <1>2, <1>3, <1>4, <1>5, <1>6, <1>7, <1>8, <1>9, <1>10, <1>11, <1>12, <1>13,
       <1>14
       DEF BootNext, LoaderNext


-----------------------------------------------------------------------------
(* The memory map.                                                          *)

LEMMA RealFinite ==
    ASSUME NEW n \in Nat
    PROVE  IsFiniteSet(RealEntries(n)) /\ Cardinality(RealEntries(n)) \in Nat
  <1>1. RealEntries(n) \subseteq 1 .. n BY DEF RealEntries
  <1>2. IsFiniteSet(1 .. n) BY FS_Interval
  <1>3. IsFiniteSet(RealEntries(n)) BY <1>1, <1>2, FS_Subset
  <1> QED BY <1>3, FS_CardinalityType

LEMMA RealStart == RealEntries(0) = {} /\ Cardinality(RealEntries(0)) = 0
  <1>1. RealEntries(0) = {} BY DEF RealEntries
  <1> QED BY <1>1, FS_EmptySet

LEMMA RealNext ==
    ASSUME NEW n \in Nat
    PROVE  /\ machine.smap[n + 1].length > 0 =>
                 /\ RealEntries(n + 1) = RealEntries(n) \cup {n + 1}
                 /\ Cardinality(RealEntries(n + 1)) = Cardinality(RealEntries(n)) + 1
           /\ ~(machine.smap[n + 1].length > 0) => RealEntries(n + 1) = RealEntries(n)
  <1>1. ASSUME machine.smap[n + 1].length > 0
        PROVE  RealEntries(n + 1) = RealEntries(n) \cup {n + 1}
    BY <1>1 DEF RealEntries
  <1>2. n + 1 \notin RealEntries(n) BY DEF RealEntries
  <1>3. Cardinality(RealEntries(n) \cup {n + 1}) = Cardinality(RealEntries(n)) + 1
    BY <1>2, RealFinite, FS_AddElement
  <1>4. ASSUME ~(machine.smap[n + 1].length > 0)
        PROVE  RealEntries(n + 1) = RealEntries(n)
    BY <1>4 DEF RealEntries
  <1> QED BY <1>1, <1>3, <1>4

\* Later calls have higher ranks.
LEMMA RealOrder ==
    ASSUME NEW n \in Nat, NEW m \in Nat
    PROVE  /\ m <= n => Cardinality(RealEntries(m)) <= Cardinality(RealEntries(n))
           /\ m \in RealEntries(m) => Cardinality(RealEntries(m)) > 0
           /\ n < m /\ m \in RealEntries(m) =>
                 Cardinality(RealEntries(m)) > Cardinality(RealEntries(n))
  <1>1. ASSUME m <= n PROVE Cardinality(RealEntries(m)) <= Cardinality(RealEntries(n))
    <2>1. RealEntries(m) \subseteq RealEntries(n) BY <1>1 DEF RealEntries
    <2> QED BY <2>1, RealFinite, FS_Subset
  <1>2. ASSUME NEW l \in Nat, l < m, m \in RealEntries(m)
        PROVE  Cardinality(RealEntries(m)) > Cardinality(RealEntries(l))
    <2>1. m \notin RealEntries(l) BY <1>2 DEF RealEntries
    <2>2. RealEntries(l) \cup {m} \subseteq RealEntries(m) BY <1>2 DEF RealEntries
    <2>3. Cardinality(RealEntries(l) \cup {m}) = Cardinality(RealEntries(l)) + 1
      BY <2>1, RealFinite, FS_AddElement
    <2>4. Cardinality(RealEntries(l) \cup {m}) <= Cardinality(RealEntries(m))
      BY <2>2, RealFinite, FS_Subset
    <2>5. Cardinality(RealEntries(l)) \in Nat /\ Cardinality(RealEntries(m)) \in Nat BY RealFinite
    <2> QED BY <2>3, <2>4, <2>5
  <1>3. ASSUME m \in RealEntries(m) PROVE Cardinality(RealEntries(m)) > 0
    <2>1. 0 < m BY <1>3 DEF RealEntries
    <2> QED BY <1>2, <1>3, <2>1, RealStart
  <1> QED BY <1>1, <1>2, <1>3

\* The map is complete after the last call and when it is full.
LEMMA MapDone ==
    ASSUME BootType, NEW n, Told(n), Len(mmap) <= MmapMax, n = Len(machine.smap) \/ Len(mmap) = MmapMax
    PROVE  MapTold
  <1> DEFINE rank(m) == Cardinality(RealEntries(m))
             all == Len(machine.smap)
  <1>1. n \in Nat /\ all \in Nat /\ n <= all /\ MmapMax \in Nat BY SmapIs, Sizes DEF Told
  <1>2. rank(n) \in Nat /\ rank(all) \in Nat /\ rank(n) <= rank(all) BY <1>1, RealFinite, RealOrder
  <1>3. Len(mmap) = rank(n) BY DEF Told
  <1>4. ASSUME NEW m \in RealEntries(all), rank(m) <= MmapMax PROVE mmap[rank(m)] = machine.smap[m]
    <2>1. m \in Nat /\ m <= all /\ m \in RealEntries(m) BY <1>1 DEF RealEntries
    <2>2. m <= n
      <3>1. CASE n = all BY <2>1, <3>1
      <3>2. CASE Len(mmap) = MmapMax
        <4>1. ~(rank(m) > rank(n)) BY <1>2, <1>3, <1>4, <2>1, <3>2, RealFinite, <1>1
        <4> QED BY <4>1, <2>1, <1>1, RealOrder
      <3> QED BY <3>1, <3>2
    <2>3. m \in RealEntries(n) BY <1>1, <2>1, <2>2 DEF RealEntries
    <2> QED BY <2>3 DEF Told
  <1>5. Len(mmap) = IF rank(all) < MmapMax THEN rank(all) ELSE MmapMax BY <1>1, <1>2, <1>3
  <1> QED BY <1>4, <1>5 DEF MapTold

ToldAll ==
    /\ Told(asked) /\ Len(mmap) <= MmapMax
    /\ asked = Len(machine.smap) \/ Len(mmap) = MmapMax

LEMMA ToldAllDone == BootType /\ ToldAll => MapTold
  BY MapDone DEF ToldAll

LEMMA ToldNext ==
    ASSUME BootType, Told(asked), asked < Len(machine.smap), BootVarsKept, asked' = asked + 1,
           LET e == machine.smap[asked + 1]
           IN  mmap' = IF e.length = 0 THEN mmap ELSE Append(mmap, e)
    PROVE  Told(asked)' /\ Len(mmap') <= Len(mmap) + 1
  <1> DEFINE rank(m) == Cardinality(RealEntries(m))
  <1> PICK e : e = machine.smap[asked + 1] OBVIOUS
  <1>1. asked \in Nat /\ asked + 1 \in 0 .. Len(machine.smap) BY SmapIs DEF Told
  <1>2. e \in MapEntry BY <1>1, SmapIs
  <1>3. e.length \in Nat BY <1>2 DEF MapEntry
  <1>4. mmap \in Seq(MapEntry) /\ Len(mmap) = rank(asked) BY DEF Told
  <1>5. \A n : RealEntries(n)' = RealEntries(n) BY DEF RealEntries, BootVarsKept
  <1>6. machine' = machine BY DEF BootVarsKept
  <1>7. CASE e.length = 0
    <2>1. mmap' = mmap BY <1>7
    <2>2. ~(machine.smap[asked + 1].length > 0) BY <1>7
    <2>3. RealEntries(asked + 1) = RealEntries(asked) BY <1>1, <2>2, RealNext
    <2>4. RealEntries(asked)' = RealEntries(asked) BY <2>3, <1>6 DEF RealEntries
    <2>5. \A m \in RealEntries(asked) : mmap'[rank(m)'] = machine'.smap[m]
      BY <1>5, <1>6, <2>1 DEF Told
    <2> QED BY <1>1, <1>4, <1>6, <2>1, <2>4, <2>5 DEF Told
  <1>8. CASE e.length # 0
    <2>1. mmap' = Append(mmap, e) BY <1>8
    <2>2. machine.smap[asked + 1].length > 0 BY <1>3, <1>8
    <2>3. RealEntries(asked + 1) = RealEntries(asked) \cup {asked + 1} /\ rank(asked + 1) = rank(asked) + 1
      BY <1>1, <2>2, RealNext
    <2>4. RealEntries(asked)' = RealEntries(asked + 1) BY <1>6 DEF RealEntries
    <2>5. mmap' \in Seq(MapEntry) /\ Len(mmap') = Len(mmap) + 1 BY <1>2, <1>4, <2>1
    <2>6. ASSUME NEW m \in RealEntries(asked + 1) PROVE mmap'[rank(m)] = machine.smap[m]
      <3>1. CASE m = asked + 1
        <4>1. rank(m) = Len(mmap) + 1 BY <1>4, <2>3, <3>1
        <4>2. mmap'[Len(mmap) + 1] = e BY <1>2, <1>4, <2>1
        <4> QED BY <3>1, <4>1, <4>2
      <3>2. CASE m \in RealEntries(asked)
        <4>1. m \in Nat /\ m <= asked /\ m \in RealEntries(m) BY <1>1, <3>2 DEF RealEntries
        <4>2. rank(m) \in 1 .. Len(mmap) BY <1>1, <1>4, <4>1, RealOrder, RealFinite
        <4> HIDE DEF rank
        <4>3. mmap'[rank(m)] = mmap[rank(m)] BY <1>2, <1>4, <2>1, <4>2
        <4>4. mmap[rank(m)] = machine.smap[m] BY <3>2 DEF Told, rank
        <4> QED BY <4>3, <4>4
      <3> QED BY <2>3, <3>1, <3>2
    <2>7. \A m \in RealEntries(asked + 1) : mmap'[rank(m)'] = machine'.smap[m]
      BY <1>5, <1>6, <2>6
    <2>8. Len(mmap') = Cardinality(RealEntries(asked)') BY <1>4, <2>3, <2>4, <2>5
    <2>9. \A m \in RealEntries(asked)' : mmap'[rank(m)'] = machine'.smap[m] BY <2>4, <2>7
    <2>10. asked' \in 0 .. Len(machine'.smap) BY <1>1, <1>6
    <2>11. Told(asked)' BY <2>5, <2>8, <2>9, <2>10 DEF Told
    <2>12. Len(mmap) \in Nat BY <1>4
    <2> QED BY <2>5, <2>11, <2>12
  <1> QED BY <1>7, <1>8

LEMMA SameMap ==
    ASSUME BootVarsKept, mmap' = mmap
    PROVE  MapTold' = MapTold
  BY DEF BootVarsKept, MapTold, RealEntries

LEMMA MapKept ==
    ASSUME BootType, MapInv, BootVarsKept, mmap' = mmap, a20 => a20',
           stage \notin {"e820", "a20", "kbc", "hang"}, stage' # "e820"
    PROVE  MapInv'
  BY SameMap DEF MapInv


LEMMA DetectMap ==
    ASSUME BootType, BootType', BootVarsKept, MapInv, DetectMemory
    PROVE  MapInv'
  <1>1. stage = "e820" /\ asked' = asked + 1 BY DEF DetectMemory
  <1>2. Told(asked) /\ Len(mmap) < MmapMax BY <1>1 DEF MapInv
  <1>3. stage' \in {"e820", "a20", "hang"} BY DEF DetectMemory, E820End, E820Entry, Hang
  <1>4. asked \in Nat /\ asked <= Len(machine.smap) /\ Len(machine.smap) \in Nat /\ Len(mmap) \in Nat
        /\ MmapMax \in Nat
    BY <1>2, SmapIs, Sizes DEF Told
  <1>5. CASE asked = Len(machine.smap)
    <2>1. stage' # "e820" /\ mmap' = mmap BY <1>5 DEF DetectMemory, E820End, Hang
    <2>2. MapTold BY <1>2, <1>4, <1>5, MapDone
    <2> QED BY <1>3, <2>1, <2>2, SameMap DEF MapInv
  <1>6. CASE asked # Len(machine.smap) /\ ~machine.sign
    <2>1. stage' = "hang" BY <1>6 DEF DetectMemory, Hang
    <2> QED BY <2>1 DEF MapInv
  <1>7. CASE asked # Len(machine.smap) /\ machine.sign
    <2> PICK e : e = machine.smap[asked + 1] OBVIOUS
    <2>1. E820Entry(e) BY <1>7 DEF DetectMemory
    <2>2. mmap' = IF e.length = 0 THEN mmap ELSE Append(mmap, e) BY <2>1 DEF E820Entry
    <2>3. asked < Len(machine.smap) BY <1>4, <1>7
    <2>4. Told(asked)' /\ Len(mmap') <= Len(mmap) + 1
      BY <1>1, <1>2, <2>2, <2>3, ToldNext
    <2>5. Len(mmap') \in Nat BY <2>4 DEF Told
    <2>6. Len(mmap') <= MmapMax BY <1>2, <1>4, <2>4, <2>5
    <2>7. CASE stage' = "e820"
      <3>1. ~(e.length # 0 /\ Len(mmap') >= MmapMax) BY <2>1, <2>7 DEF E820Entry, E820End, Hang
      <3>2. Len(mmap') < MmapMax BY <1>2, <1>4, <2>2, <2>5, <3>1
      <3> QED BY <2>4, <2>7, <3>2 DEF MapInv
    <2>8. CASE stage' = "a20"
      <3>1. asked + 1 = Len(machine.smap) \/ Len(mmap') >= MmapMax
        BY <1>1, <2>1, <2>8 DEF E820Entry, E820End, Hang
      <3>2. (asked = Len(machine.smap))' \/ Len(mmap') = MmapMax
        BY <1>1, <1>4, <2>5, <2>6, <3>1 DEF BootVarsKept
      <3>3. ToldAll' BY <2>4, <2>6, <3>2 DEF ToldAll
      <3>4. MapTold' BY <3>3, ToldAllDone, PTL
      <3> QED BY <2>8, <3>4 DEF MapInv
    <2>9. CASE stage' = "hang" BY <2>9 DEF MapInv
    <2> QED BY <1>3, <2>7, <2>8, <2>9
  <1> QED BY <1>5, <1>6, <1>7

LEMMA MapStep ==
    ASSUME BootType, BootType', BootVarsKept, MapInv, BootNext
    PROVE  MapInv'
  <1>1. CASE DetectMemory BY <1>1, DetectMap
  <1>2. CASE FastA20 \/ KbcA20
    <2>1. /\ stage' \in {"hang", "kbc"} \/ (stage' = "read" /\ a20')
          /\ stage \in {"a20", "kbc"} /\ mmap' = mmap
      BY <1>2, A20Stage
    <2> QED BY <2>1, SameMap DEF MapInv
  <1>5. CASE TalkToKbc \/ KbcTakes
    <2>1. UNCHANGED <<stage, asked, mmap>> /\ (a20 => a20')
      <3>1. UNCHANGED <<stage, asked, mmap>> BY <1>5 DEF TalkToKbc, KbcTakes, mapVars
      <3>2. CASE TalkToKbc
        <4>1. a20' = a20 BY <3>2 DEF TalkToKbc
        <4> QED BY <3>1, <4>1
      <3>3. CASE KbcTakes
        <4>1. a20' = (a20 \/ (kbc_in = "data" /\ machine.a20 = "keyboard")) BY <3>3 DEF KbcTakes
        <4>2. a20 => a20' BY ONLY <4>1, Zenon
        <4> QED BY <3>1, <4>2
      <3> QED BY <1>5, <3>2, <3>3
    <2>2. CASE stage = "e820"
      <3>1. Told(asked)' BY <2>1, <2>2 DEF MapInv, Told, RealEntries, BootVarsKept
      <3> QED BY <2>1, <2>2, <3>1 DEF MapInv
    <2>3. CASE stage # "e820" BY <2>1, <2>3, SameMap DEF MapInv
    <2> QED BY <2>2, <2>3
  <1>3. CASE \/ TryMany \/ TryOne \/ TryOneFails \/ \E n \in 0 .. BounceUnits - 1 : TryManyFails(n)
    <2>1. stage \in {"read", "one"} /\ UNCHANGED <<mmap, a20>>
      BY <1>3 DEF TryMany, TryOne, TryOneFails, TryManyFails, mapVars, a20Vars
    <2>2. stage' # "e820"
      <3>1. back \in {"header", "copy"} BY <2>1 DEF BootType
      <3> QED
        BY <1>3, <3>1 DEF TryMany, TryOne, TryOneFails, TryManyFails, ReadOk, Hang
    <2> QED BY <2>1, <2>2, MapKept
  <1>4. CASE CheckHeader \/ SkipSegment \/ ZeroSegment \/ SegmentDone \/ ReadChunk \/ CopyChunk \/ JumpToKernel
    <2>1. stage \in {"header", "segment", "chunk", "copy"} /\ UNCHANGED <<mmap, a20>>
      BY <1>4 DEF CheckHeader, SkipSegment, ZeroSegment, SegmentDone, ReadChunk, CopyChunk,
                  JumpToKernel, mapVars, a20Vars
    <2>2. stage' # "e820"
      BY <1>4 DEF CheckHeader, SkipSegment, ZeroSegment, SegmentDone, ReadChunk, CopyChunk,
                  JumpToKernel, Hang, CallRead
    <2> QED BY <2>1, <2>2, MapKept
  <1> QED BY <1>1, <1>2, <1>3, <1>4, <1>5 DEF BootNext, LoaderNext


-----------------------------------------------------------------------------
(* Reading.                                                                 *)

LEMMA ModSmall ==
    ASSUME NEW m \in Nat \ {0}, NEW x \in 0 .. m - 1
    PROVE  x % m = x
  <1> DEFINE p == x \div m
             t == x % m
  <1>1. p \in Int /\ t \in 0 .. m - 1 /\ x = m * p + t OBVIOUS
  <1> HIDE DEF p, t
  <1>2. CASE p = 0 BY <1>1, <1>2 DEF t
  <1>3. CASE p > 0
    <2>1. m * p >= m BY <1>1, <1>3
    <2> QED BY <1>1, <2>1
  <1>4. CASE p < 0
    <2>1. m * (0 - p) >= m BY <1>1, <1>4
    <2>2. m * (0 - p) = 0 - m * p BY <1>1
    <2> QED BY <1>1, <2>1, <2>2
  <1> QED BY <1>1, <1>2, <1>3, <1>4

LEMMA ReadIdle ==
    ASSUME ~Fetched', ~Fetching'
    PROVE  ReadInv'
  BY DEF ReadInv

LEMMA SameSector ==
    ASSUME BootVarsKept, seg_off' = seg_off
    PROVE  SectorStart' = SectorStart /\ Unit' = Unit /\ KernelBase' = KernelBase
  BY SameUnit DEF SectorStart

\* The sectors of the header, which is at the start of the file.
LEMMA HeaderUnits ==
    ASSUME BootType
    PROVE  /\ HeaderBytes \div Unit \in Nat \ {0} /\ (HeaderBytes \div Unit) * Unit = HeaderBytes
           /\ HeaderBytes \in Nat \ {0} /\ HeaderBytes <= BounceBytes
  <1> DEFINE h == HeaderBytes \div Unit
  <1>1. Unit \in Nat \ {0} /\ HeaderBytes % Unit = 0 BY UnitIs
  <1>2. HeaderBytes \in Nat \ {0} /\ HeaderBytes <= BounceBytes BY Sizes
  <1>3. h \in Int /\ h * Unit = HeaderBytes BY <1>1, <1>2, DivMod
  <1> HIDE DEF h
  <1>4. h > 0 BY <1>1, <1>2, <1>3
  <1>5. h \in Nat \ {0} BY <1>3, <1>4
  <1> QED BY <1>2, <1>3, <1>5 DEF h

LEMMA StartSector ==
    ASSUME BootType, seg_off = 0
    PROVE  SectorStart = 0
  <1>1. Unit \in Nat \ {0} BY UnitIs
  <1>2. 0 % Unit = 0 BY <1>1, ModSmall
  <1>3. (0 \div Unit) * Unit = 0 BY <1>1, <1>2, DivMod
  <1> QED BY <1>3 DEF SectorStart

LEMMA SameWanted ==
    ASSUME BootVarsKept, units' = units, ForHeader' <=> ForHeader
    PROVE  Wanted' = Wanted
  <1>1. Unit' = Unit BY SameUnit
  <1>2. CASE ForHeader BY <1>1, <1>2 DEF Wanted
  <1>3. CASE ~ForHeader BY <1>3 DEF Wanted
  <1> QED BY <1>2, <1>3

\* Facts about a segment that is being loaded.
LEMMA LoadFacts ==
    ASSUME BootType, ImageInv, Loading
    PROVE  /\ Seg.p_offset \in Nat /\ Seg.p_paddr \in Nat /\ Seg.p_filesz \in Nat /\ Seg.p_memsz \in Nat
           /\ Seg.p_filesz <= Seg.p_memsz
           /\ Seg.p_paddr >= LowEnd /\ Seg.p_paddr + Seg.p_memsz < AddressEnd
           /\ seg_filesz \in Nat /\ seg_filesz <= Seg.p_filesz /\ seg_off \in Nat /\ edi \in Nat
           /\ InPlace \in Nat /\ k \in LoadSegments
  <1>1. k \in 1 .. Len(kernel.phdrs) /\ k \in LoadSegments
    <2>1. Len(kernel.phdrs) \in Nat BY PhdrsAre
    <2>2. phbuf = kernel.phdrs BY DEF ImageInv
    <2> QED BY <2>1, <2>2 DEF ImageInv, BootType, LoadSegments, Seg
  <1>2. /\ Seg.p_offset \in Nat /\ Seg.p_paddr \in Nat /\ Seg.p_filesz \in Nat /\ Seg.p_memsz \in Nat
        /\ Seg.p_filesz <= Seg.p_memsz
    <2>1. phbuf = kernel.phdrs BY DEF ImageInv
    <2> QED BY <1>1, <2>1, PhdrsAre DEF Seg
  <1>3. seg_filesz \in Nat /\ seg_filesz <= Seg.p_filesz BY <1>2 DEF ImageInv
  <1>4. InPlace \in Nat BY <1>2, <1>3 DEF InPlace
  <1>5. seg_off \in Nat /\ edi \in Nat BY <1>2, <1>4 DEF ImageInv
  <1>6. SegmentFits(Seg) BY DEF ImageInv
  <1> QED BY <1>1, <1>2, <1>3, <1>4, <1>5, <1>6 DEF SegmentFits

\* Facts about a piece that is being read.
LEMMA ReadFacts ==
    ASSUME BootType, ReadInv, ImageInv, Fetching
    PROVE  /\ Unit \in Nat \ {0} /\ KernelBase \in Int /\ (dap_lba - KernelBase) * Unit \in Int
           /\ SectorStart \in Int
           /\ Wanted \in Nat \ {0} /\ Wanted * Unit \in Nat /\ Wanted * Unit <= BounceBytes
           /\ want_count \in Nat \ {0} /\ want_count * Unit \in Nat
           /\ BounceBytes \in Nat \ {0} /\ BounceBytes <= OffsetMod /\ OffsetMod \in Nat
           /\ dap_lba \in Int /\ dap_off \in Nat
  <1>1. Unit \in Nat \ {0} /\ KernelBase \in Int BY UnitIs
  <1>2. Wanted \in Nat \ {0} /\ want_count \in Nat \ {0} /\ dap_lba \in Int /\ dap_off \in Nat
    BY DEF ReadInv
  <1>3. (dap_lba - KernelBase) * Unit \in Int BY <1>1, <1>2, Times
  <1>4. Wanted * Unit \in Nat /\ want_count * Unit \in Nat
    <2>1. Wanted * Unit \in Int /\ Wanted * Unit >= Unit BY <1>1, <1>2, Times
    <2>2. want_count * Unit \in Int /\ want_count * Unit >= Unit BY <1>1, <1>2, Times
    <2> QED BY <1>1, <2>1, <2>2
  <1>5. SectorStart \in Int
    <2>1. seg_off \in Nat
      <3>1. back \in {"header", "copy"} BY DEF BootType, Fetching
      <3>2. CASE back = "header" BY <3>2 DEF ImageInv, Starting, Fetching
      <3>3. CASE back = "copy" BY <3>3, LoadFacts DEF Loading, Reading, Fetching
      <3> QED BY <3>1, <3>2, <3>3
    <2>2. seg_off \div Unit \in Int BY <1>1, <2>1, DivMod
    <2> QED BY <1>1, <2>2, Times DEF SectorStart
  <1> QED BY <1>1, <1>2, <1>3, <1>4, <1>5, Sizes DEF ReadInv

\* ReadChunk asks for at least one sector and no more than the buffer takes: the
\* sum of sizes does not overflow.
LEMMA ChunkSize ==
    ASSUME BootType, ImageInv, ReadChunk
    PROVE  units' \in Nat \ {0} /\ units' * Unit <= BounceBytes
  <1> DEFINE x == seg_filesz + InSector + Unit - 1
             left == x \div Unit
  <1>1. Unit \in Nat \ {0} /\ BounceBytes % Unit = 0 /\ 2 * Unit <= LowEnd BY UnitIs
  <1>2. stage = "chunk" /\ seg_filesz > 0 BY DEF ReadChunk
  <1>3. /\ seg_filesz \in Nat /\ seg_off \in Nat
        /\ seg_filesz + LowEnd < AddressEnd
    BY <1>2, LoadFacts, Sizes DEF Loading
  <1>4. InSector \in 0 .. Unit - 1
    <2>1. seg_off \in Int BY <1>3
    <2>2. seg_off % Unit \in 0 .. Unit - 1 BY <1>1, <2>1, DivMod
    <2> QED BY <2>2 DEF InSector
  <1>5. x \in 0 .. AddressEnd - 1 /\ x >= Unit /\ AddressEnd \in Nat \ {0}
    BY <1>1, <1>2, <1>3, <1>4, Sizes
  <1> HIDE DEF x
  <1>6. x % AddressEnd = x BY <1>5, ModSmall
  <1>7. SectorsLeft = left BY <1>6 DEF SectorsLeft, x
  <1>8. left \in Int /\ x % Unit \in 0 .. Unit - 1 /\ left * Unit = x - (x % Unit)
    <2>1. x \in Int BY <1>5
    <2> QED BY <1>1, <2>1, DivMod
  <1>9. left * Unit > 0 BY <1>1, <1>5, <1>8
  <1> HIDE DEF left
  <1>10. left > 0 BY <1>1, <1>8, <1>9
  <1> DEFINE most == BounceBytes \div Unit
  <1>11. most \in Int /\ most * Unit = BounceBytes /\ BounceBytes \in Nat \ {0}
    <2>1. BounceBytes \in Nat \ {0} BY Sizes
    <2> QED BY <1>1, <2>1, DivMod
  <1> HIDE DEF most
  <1>12. most > 0 BY <1>1, <1>11
  <1>13. units' = IF left <= most THEN left ELSE most BY <1>7 DEF ReadChunk, BounceUnits, most
  <1>14. CASE left <= most
    <2>1. left * Unit <= most * Unit BY <1>1, <1>8, <1>11, <1>14
    <2> QED BY <1>8, <1>10, <1>11, <1>13, <1>14, <2>1
  <1>15. CASE ~(left <= most)
    <2>1. units' = most BY <1>13, <1>15
    <2>2. most \in Nat \ {0} BY <1>11, <1>12
    <2> QED BY <1>11, <2>1, <2>2
  <1> QED BY <1>14, <1>15

LEMMA ReadChunkReads ==
    ASSUME BootType, BootVarsKept, ImageInv, ReadChunk
    PROVE  ReadInv'
  <1>1. stage = "chunk" /\ seg_filesz > 0 BY DEF ReadChunk
  <1>2. stage' = "read" /\ back' = "copy" /\ dap_off' = 0 /\ want_count' = units'
    BY DEF ReadChunk, CallRead
  <1>3. seg_off' = seg_off /\ seg_filesz' = seg_filesz BY DEF ReadChunk
  <1>4. dap_lba' = (seg_off \div Unit) + KernelBase BY DEF ReadChunk, CallRead
  <1>5. SectorStart' = SectorStart /\ Unit' = Unit /\ KernelBase' = KernelBase BY <1>3, SameSector
  <1>6. Unit \in Nat \ {0} /\ KernelBase \in Int BY UnitIs
  <1>7. units' \in Nat \ {0} /\ units' * Unit <= BounceBytes BY ChunkSize
  <1>8. seg_off \in Nat BY <1>1, LoadFacts DEF Loading
  <1>9. seg_off \div Unit \in Int BY <1>6, <1>8, DivMod
  <1> DEFINE q == seg_off \div Unit
  <1>10. dap_lba' - KernelBase = q /\ dap_lba' \in Int
    <2>1. q \in Int /\ dap_lba' = q + KernelBase BY <1>4, <1>9
    <2> HIDE DEF q
    <2> QED BY <1>6, <2>1
  <1>11. SectorStart = q * Unit /\ q * Unit \in Int BY <1>6, <1>9, Times DEF SectorStart
  <1> HIDE DEF q
  <1>12. (dap_lba' - KernelBase') * Unit' = SectorStart' + dap_off'
    BY <1>2, <1>5, <1>10, <1>11
  <1>13. dap_off' + want_count' * Unit' = units' * Unit'
    <2>1. units' * Unit \in Int BY <1>6, <1>7, Times
    <2> QED BY <1>2, <1>5, <2>1
  <1>14. Fetching' /\ ~Fetched' /\ ~ForHeader' /\ Wanted' = units'
    BY <1>2 DEF Fetching, Fetched, ForHeader, Wanted
  <1> QED BY <1>1, <1>2, <1>3, <1>5, <1>7, <1>10, <1>12, <1>13, <1>14 DEF ReadInv


\* The read of the header.
LEMMA HeaderReads ==
    ASSUME BootType, BootVarsKept, ImageInv, Starting, A20Done, seg_off' = seg_off
    PROVE  ReadInv'
  <1>1. /\ stage' = "read" /\ back' = "header" /\ dap_off' = 0
        /\ dap_lba' = KernelBase /\ want_count' = HeaderBytes \div Unit
    BY DEF A20Done, CallRead
  <1>2. SectorStart' = 0 /\ Unit' = Unit /\ KernelBase' = KernelBase
    <2>1. seg_off = 0 BY DEF ImageInv
    <2>2. SectorStart = 0 BY <2>1, StartSector
    <2> QED BY <2>2, SameSector
  <1>3. Fetching' /\ ~Fetched' /\ ForHeader' /\ Wanted' = HeaderBytes \div Unit
    BY <1>1, <1>2 DEF Fetching, Fetched, ForHeader, Wanted
  <1>4. Unit \in Nat \ {0} /\ KernelBase \in Int BY UnitIs
  <1> PICK h : h = HeaderBytes \div Unit OBVIOUS
  <1>5. h \in Nat \ {0} /\ h * Unit = HeaderBytes /\ HeaderBytes \in Nat /\ HeaderBytes <= BounceBytes
    BY HeaderUnits
  <1>6. want_count' = h /\ Wanted' = h BY <1>1, <1>3
  <1>7. want_count' * Unit' = HeaderBytes /\ Wanted' * Unit' = HeaderBytes BY <1>2, <1>5, <1>6
  <1>8. (dap_lba' - KernelBase') * Unit' = 0
    <2>1. dap_lba' - KernelBase' = 0 BY <1>1, <1>2, <1>4
    <2> QED BY <1>2, <1>4, <2>1
  <1>9. /\ Wanted' \in Nat \ {0} /\ Wanted' * Unit' <= BounceBytes
        /\ want_count' \in Nat \ {0} /\ dap_lba' \in Int /\ dap_off' \in Nat
        /\ dap_off' + want_count' * Unit' = Wanted' * Unit'
        /\ (dap_lba' - KernelBase') * Unit' = SectorStart' + dap_off'
    BY <1>1, <1>2, <1>4, <1>5, <1>6, <1>7, <1>8
  <1>10. stage' # "one" BY <1>1
  <1> QED BY <1>1, <1>3, <1>9, <1>10 DEF ReadInv

\* What a read is for stays, also when it is done.
LEMMA ForSame ==
    ASSUME BootType, stage \in {"read", "one"}, back' = back, stage' \in {"read", "one", back}
    PROVE  Fetching /\ (ForHeader' <=> ForHeader)
  <1>1. back \in {"header", "copy"} BY DEF BootType
  <1> QED BY <1>1 DEF Fetching, ForHeader

LEMMA TryManyReads ==
    ASSUME BootType, BootVarsKept, ImageInv, ReadInv, TryMany
    PROVE  ReadInv'
  <1>0. stage = "read" /\ stage' = back /\ back' = back /\ back \in {"header", "copy"}
    BY DEF TryMany, ReadOk, BootType
  <1>1. Fetching /\ (ForHeader' <=> ForHeader) BY <1>0, ForSame
  <1>2. UNCHANGED <<seg_filesz, seg_off>> /\ Wanted' = Wanted
    <2>1. UNCHANGED <<units, seg_filesz, seg_off>> BY DEF TryMany, segVars
    <2> QED BY <1>1, <2>1, SameWanted
  <1>3. SectorStart' = SectorStart /\ Unit' = Unit BY <1>2, SameSector
  <1>4. dap_off = 0 /\ want_count * Unit = Wanted * Unit
        /\ (dap_lba - KernelBase) * Unit = SectorStart
    BY <1>0, <1>1, ReadFacts DEF ReadInv
  <1>5. ASSUME NEW b \in 0 .. Wanted * Unit - 1 PROVE bounce'[b] = SectorStart + b
    <2> PICK n : n = want_count OBVIOUS
    <2> PICK junk : junk = FALSE OBVIOUS
    <2> PICK j : j = b - dap_off OBVIOUS
    <2> PICK len : len = n * Unit OBVIOUS
    <2>1. bounce' = Transferred(n, junk) BY DEF TryMany, Count
    <2>2. b \in 0 .. BounceBytes - 1 /\ b \in Int BY <1>1, ReadFacts
    <2>3. j = b /\ j \in 0 .. len - 1 BY <1>4, <2>2
    <2>4. Transferred(n, junk)[b] = (dap_lba - KernelBase) * Unit + j BY <2>2, <2>3, TransferredAt
    <2> QED BY <1>4, <2>1, <2>3, <2>4
  <1>6. Filled(Wanted * Unit)' BY <1>2, <1>3, <1>5 DEF Filled
  <1>7. Fetched' /\ ~Fetching' BY <1>0 DEF Fetched, Fetching
  <1>8. Wanted' \in Nat \ {0} /\ Wanted' * Unit' <= BounceBytes /\ (~ForHeader' => seg_filesz' > 0)
    BY <1>1, <1>2, <1>3 DEF ReadInv
  <1> QED BY <1>6, <1>7, <1>8 DEF ReadInv

LEMMA TryManyFailsReads ==
    ASSUME BootType, BootVarsKept, ImageInv, ReadInv, NEW n, TryManyFails(n)
    PROVE  ReadInv'
  <1>0. stage = "read" /\ stage' \in {"read", "one"} /\ back' = back BY DEF TryManyFails
  <1>1. Fetching /\ Fetching' /\ (ForHeader' <=> ForHeader) BY <1>0, ForSame DEF Fetching
  <1>2. UNCHANGED <<seg_filesz, seg_off, dap_lba, want_count>> /\ Wanted' = Wanted
    <2>1. UNCHANGED <<units, seg_filesz, seg_off, dap_lba, want_count>> BY DEF TryManyFails, segVars
    <2> QED BY <1>1, <2>1, SameWanted
  <1>3. SectorStart' = SectorStart /\ Unit' = Unit /\ KernelBase' = KernelBase BY <1>2, SameSector
  <1>4. dap_off = 0 /\ dap_off' = 0 BY <1>0, <1>1 DEF ReadInv, TryManyFails
  <1>5. Filled(0)' BY DEF Filled
  <1>6. /\ Wanted' \in Nat \ {0} /\ Wanted' * Unit' <= BounceBytes
        /\ ~ForHeader' => seg_filesz' > 0
        /\ want_count' \in Nat \ {0} /\ dap_lba' \in Int /\ dap_off' \in Nat
        /\ dap_off' + want_count' * Unit' = Wanted' * Unit'
        /\ (dap_lba' - KernelBase') * Unit' = SectorStart' + dap_off'
    BY <1>1, <1>2, <1>3, <1>4 DEF ReadInv
  <1>7. ~Fetched' BY <1>0 DEF Fetched
  <1>8. Filled(dap_off)' BY <1>4 DEF Filled
  <1> QED BY <1>1, <1>4, <1>6, <1>7, <1>8 DEF ReadInv

LEMMA TryOneFailsReads ==
    ASSUME BootType, BootVarsKept, ImageInv, ReadInv, TryOneFails
    PROVE  ReadInv'
  <1>0. stage = "one" /\ stage' \in {"hang", "one"} /\ back' = back BY DEF TryOneFails, Hang
  <1>7. CASE stage' = "hang" BY <1>7, ReadIdle DEF Fetching, Fetched
  <1>8. SUFFICES ASSUME stage' = "one" PROVE ReadInv' BY <1>0, <1>7
  <1>1. Fetching /\ Fetching' /\ ~Fetched' /\ (ForHeader' <=> ForHeader)
    BY <1>0, <1>8, ForSame DEF Fetching, Fetched
  <1>2. UNCHANGED <<seg_filesz, seg_off, dap_lba, dap_off, want_count>> /\ Wanted' = Wanted
    <2>1. UNCHANGED <<units, seg_filesz, seg_off, dap_lba, dap_off, want_count>> BY DEF TryOneFails, segVars
    <2> QED BY <1>1, <2>1, SameWanted
  <1>3. SectorStart' = SectorStart /\ Unit' = Unit /\ KernelBase' = KernelBase BY <1>2, SameSector
  <1>4. ASSUME NEW b \in 0 .. dap_off - 1 PROVE bounce'[b] = SectorStart + b
    <2>2. dap_off <= Wanted * Unit /\ Wanted * Unit \in Nat /\ Wanted * Unit <= BounceBytes
          /\ dap_off \in Nat /\ BounceBytes \in Nat /\ Unit \in Nat
      BY <1>1, ReadFacts DEF ReadInv
    <2>3. b \in 0 .. BounceBytes - 1 /\ b < dap_off BY <2>2
    <2>4. \E n \in Nat : \E junk : bounce' = Transferred(n, junk)
      <3>1. bounce' = Transferred(0, TRUE) BY DEF TryOneFails, ReadFails
      <3>2. 0 \in Nat OBVIOUS
      <3> QED BY <3>1, <3>2, Zenon
    <2>5. bounce'[b] = bounce[b] BY <2>2, <2>3, <2>4, TransferredBelow
    <2>6. bounce[b] = SectorStart + b BY <1>0, <1>1 DEF ReadInv, Filled
    <2> QED BY <2>5, <2>6
  <1>5. Filled(dap_off)' BY <1>2, <1>3, <1>4 DEF Filled
  <1>6. /\ Wanted' \in Nat \ {0} /\ Wanted' * Unit' <= BounceBytes
        /\ ~ForHeader' => seg_filesz' > 0
        /\ want_count' \in Nat \ {0} /\ dap_lba' \in Int /\ dap_off' \in Nat
        /\ dap_off' + want_count' * Unit' = Wanted' * Unit'
        /\ (dap_lba' - KernelBase') * Unit' = SectorStart' + dap_off'
    BY <1>1, <1>2, <1>3 DEF ReadInv
  <1> QED BY <1>1, <1>5, <1>6, <1>8 DEF ReadInv

LEMMA TryOneReads ==
    ASSUME BootType, BootVarsKept, ImageInv, ReadInv, TryOne
    PROVE  ReadInv'
  <1>0. stage = "one" /\ stage' \in {back, "one"} /\ back' = back /\ back \in {"header", "copy"}
    BY DEF TryOne, ReadOk, BootType
  <1>1. Fetching /\ (ForHeader' <=> ForHeader) BY <1>0, ForSame
  <1>2. UNCHANGED <<seg_filesz, seg_off>> /\ Wanted' = Wanted
    <2>1. UNCHANGED <<units, seg_filesz, seg_off>> BY DEF TryOne, segVars
    <2> QED BY <1>1, <2>1, SameWanted
  <1>3. SectorStart' = SectorStart /\ Unit' = Unit /\ KernelBase' = KernelBase BY <1>2, SameSector
  <1>4. dap_lba' = dap_lba + 1 /\ want_count' = want_count - 1 BY DEF TryOne
  <1>5. /\ dap_off + want_count * Unit = Wanted * Unit
        /\ (dap_lba - KernelBase) * Unit = SectorStart + dap_off
        /\ Filled(dap_off)
    BY <1>0, <1>1 DEF ReadInv
  <1>6. want_count * Unit >= Unit /\ (want_count - 1) * Unit = want_count * Unit - Unit
        /\ (want_count > 1 => want_count * Unit >= 2 * Unit)
    <2>1. want_count \in Int /\ want_count > 0 /\ Unit \in Nat \ {0} BY <1>1, ReadFacts
    <2> QED BY <2>1, Times
  <1>7. dap_off + Unit <= BounceBytes BY <1>1, <1>5, <1>6, ReadFacts
  <1> PICK len : len = dap_off + Unit OBVIOUS
  <1>8. ASSUME NEW b \in 0 .. len - 1 PROVE bounce'[b] = SectorStart + b
    <2> PICK n : n = 1 OBVIOUS
    <2> PICK junk : junk = FALSE OBVIOUS
    <2>1. bounce' = Transferred(n, junk) BY DEF TryOne
    <2>2. dap_off \in Nat /\ Unit \in Nat \ {0} /\ SectorStart \in Int /\ BounceBytes \in Nat
      BY <1>1, ReadFacts
    <2>3. b \in 0 .. BounceBytes - 1 /\ b \in Int BY <1>7, <2>2
    <2> PICK j : j = b - dap_off OBVIOUS
    <2>4. Unit = n * Unit BY <2>2
    <2>5. CASE b < dap_off
      <3>1. b \in 0 .. dap_off - 1 BY <2>2, <2>3, <2>5
      <3>2. bounce[b] = SectorStart + b BY <1>5, <3>1 DEF Filled
      <3>3. j \notin 0 .. Unit - 1 BY <2>2, <2>3, <2>5
      <3>4. Transferred(n, junk)[b] = bounce[b] BY <2>3, <2>4, <3>3, TransferredAt
      <3> QED BY <2>1, <3>2, <3>4
    <2>6. CASE b >= dap_off
      <3>1. j \in 0 .. Unit - 1 BY <2>2, <2>3, <2>6
      <3>2. Transferred(n, junk)[b] = (dap_lba - KernelBase) * Unit + j BY <2>3, <2>4, <3>1, TransferredAt
      <3>3. bounce'[b] = (SectorStart + dap_off) + (b - dap_off) BY <1>5, <2>1, <3>2
      <3> QED BY <2>2, <2>3, <3>3
    <2> QED BY <2>2, <2>3, <2>5, <2>6
  <1>9. Wanted' \in Nat \ {0} /\ Wanted' * Unit' <= BounceBytes /\ (~ForHeader' => seg_filesz' > 0)
    BY <1>1, <1>2, <1>3 DEF ReadInv
  <1>10. CASE want_count = 1
    <2>1. Fetched' /\ ~Fetching' BY <1>0, <1>10 DEF TryOne, ReadOk, Fetched, Fetching
    <2>2. Wanted * Unit = len BY <1>1, <1>5, <1>10, ReadFacts
    <2>3. \A b \in 0 .. Wanted * Unit - 1 : bounce'[b] = SectorStart + b BY <1>8, <2>2
    <2>4. Filled(Wanted * Unit)' BY <1>2, <1>3, <2>3 DEF Filled
    <2> QED BY <1>9, <2>1, <2>4 DEF ReadInv
  <1>11. CASE want_count # 1
    <2>1. stage' = "one" /\ dap_off' = (dap_off + Unit) % OffsetMod
      BY <1>0, <1>11 DEF TryOne
    <2>2. want_count > 1 BY <1>1, <1>11, ReadFacts
    <2> DEFINE x == dap_off + Unit
    <2>3. x \in 0 .. OffsetMod - 1 /\ OffsetMod \in Nat \ {0}
      BY <1>1, <1>5, <1>6, <2>2, ReadFacts
    <2> HIDE DEF x
    <2>4. x % OffsetMod = x BY <2>3, ModSmall
    <2>5. dap_off' = len /\ len = dap_off + Unit BY <2>1, <2>4 DEF x
    <2>6. (dap_lba + 1 - KernelBase) * Unit = (dap_lba - KernelBase) * Unit + Unit
      <3> DEFINE d == dap_lba - KernelBase
      <3>1. d \in Int /\ dap_lba + 1 - KernelBase = d + 1 BY <1>1, ReadFacts
      <3> HIDE DEF d
      <3>2. (d + 1) * Unit = d * Unit + Unit BY <1>1, <3>1, ReadFacts, Times
      <3> QED BY <3>1, <3>2 DEF d
    <2>7. (dap_lba' - KernelBase') * Unit' = SectorStart' + dap_off'
      <3>1. (dap_lba' - KernelBase') * Unit' = (dap_lba - KernelBase) * Unit + Unit
        <4>1. dap_lba' - KernelBase' = dap_lba + 1 - KernelBase BY <1>1, <1>3, <1>4, ReadFacts
        <4>2. (dap_lba' - KernelBase') * Unit' = (dap_lba + 1 - KernelBase) * Unit BY <1>3, <4>1
        <4> QED BY <2>6, <4>2
      <3> QED BY <1>1, <1>3, <1>5, <2>5, <3>1, ReadFacts
    <2>8. dap_off' + want_count' * Unit' = Wanted' * Unit'
      <3>1. want_count' * Unit' = want_count * Unit - Unit BY <1>3, <1>4, <1>6
      <3> QED BY <1>1, <1>2, <1>3, <1>5, <2>5, <3>1, ReadFacts
    <2>9. want_count' \in Nat \ {0} /\ dap_lba' \in Int /\ dap_off' \in Nat
      BY <1>1, <1>4, <2>2, <2>5, ReadFacts
    <2>10. \A b \in 0 .. dap_off' - 1 : bounce'[b] = SectorStart + b BY <1>8, <2>5
    <2>11. Filled(dap_off)' BY <1>3, <2>10 DEF Filled
    <2>12. Fetching' /\ ~Fetched' BY <2>1 DEF Fetching, Fetched
    <2> QED BY <1>9, <2>1, <2>7, <2>8, <2>9, <2>11, <2>12 DEF ReadInv
  <1> QED BY <1>10, <1>11

LEMMA ReadSame ==
    ASSUME BootVarsKept, ReadInv,
           UNCHANGED <<stage, bounce, back, dap_lba, dap_off, want_count, seg_off, seg_filesz, units>>
    PROVE  ReadInv'
  <1>1. SectorStart' = SectorStart /\ Unit' = Unit /\ KernelBase' = KernelBase BY SameSector
  <1>2. (Fetching' <=> Fetching) /\ (Fetched' <=> Fetched) /\ (ForHeader' <=> ForHeader)
    BY DEF Fetching, Fetched, ForHeader
  <1>3. Wanted' = Wanted BY <1>2, SameWanted
  <1>4. (Filled(dap_off)' <=> Filled(dap_off)) /\ (Filled(Wanted * Unit)' <=> Filled(Wanted * Unit))
    BY <1>1, <1>3 DEF Filled
  <1> QED BY <1>1, <1>2, <1>3, <1>4 DEF ReadInv

LEMMA ReadStep ==
    ASSUME BootType, BootVarsKept, ImageInv, ReadInv, BootNext
    PROVE  ReadInv'
  <1>1. CASE TryMany BY <1>1, TryManyReads
  <1>2. CASE TryOne BY <1>2, TryOneReads
  <1>3. CASE TryOneFails BY <1>3, TryOneFailsReads
  <1>4. CASE \E n \in 0 .. BounceUnits - 1 : TryManyFails(n) BY <1>4, TryManyFailsReads
  <1>5. CASE ReadChunk BY <1>5, ReadChunkReads
  <1>6. CASE FastA20 \/ KbcA20
    <2>1. CASE stage' \in {"hang", "kbc"} BY <2>1, ReadIdle DEF Fetching, Fetched
    <2>2. CASE A20Done /\ seg_off' = seg_off /\ stage \in {"a20", "kbc"}
      <3>1. Starting BY <2>2 DEF Starting
      <3> QED BY <2>2, <3>1, HeaderReads
    <2> QED BY <1>6, <2>1, <2>2, A20Stage
  <1>8. CASE TalkToKbc \/ KbcTakes
    <2>1. UNCHANGED <<stage, bounce, back, dap_lba, dap_off, want_count, seg_off, seg_filesz, units>>
      BY <1>8 DEF TalkToKbc, KbcTakes, segVars
    <2> QED BY <2>1, ReadSame
  <1>7. CASE DetectMemory \/ CheckHeader \/ SkipSegment \/ ZeroSegment \/ SegmentDone \/ CopyChunk \/ JumpToKernel
    <2>1. stage' \in {"e820", "a20", "hang", "segment", "chunk", "fault", "kernel"}
      BY <1>7 DEF DetectMemory, E820End, E820Entry, CheckHeader, SkipSegment, ZeroSegment, SegmentDone,
                  CopyChunk, JumpToKernel, Hang
    <2> QED BY <2>1, ReadIdle DEF Fetching, Fetched
  <1> QED BY <1>1, <1>2, <1>3, <1>4, <1>5, <1>6, <1>7, <1>8 DEF BootNext, LoaderNext


-----------------------------------------------------------------------------
(* Loading.                                                                 *)

LEMMA ImageKept ==
    ASSUME BootType, BootVarsKept, ImageInv,
           UNCHANGED <<k, seg_off, seg_filesz, edi, ram>>, phbuf' = phbuf \/ phbuf' = kernel.phdrs,
           stage' \in {"segment", "kernel"} /\ Starting => phbuf' = kernel.phdrs,
           Starting' => Starting, Loading' => Loading,
           stage' \in {"segment", "kernel"} => Starting \/ stage \in {"segment", "kernel"},
           stage' = "kernel" => k > Len(kernel.phdrs)
    PROVE  ImageInv'
  <1>1. kernel' = kernel BY DEF BootVarsKept
  <1>2. Loading' => Seg' = Seg /\ InPlace' = InPlace /\ phbuf' = kernel'.phdrs
    BY <1>1 DEF Seg, InPlace, ImageInv
  <1>3. stage' \in {"segment", "kernel"} => phbuf' = kernel'.phdrs BY <1>1 DEF ImageInv
  <1>4. \A a : ImageByte(a, k - 1)' = ImageByte(a, k - 1) BY <1>1 DEF ImageByte, Covering, LoadSegments
  <1>5. Starting' => k' = 1 /\ seg_off' = 0 BY DEF ImageInv
  <1>6. ASSUME Starting' \/ stage' \in {"segment", "kernel"}
        PROVE  \A a \in 0 .. AddressEnd - 1 : ram'[a] = ImageByte(a, k - 1)'
    BY <1>4, <1>6 DEF ImageInv
  <1>7. ASSUME Loading'
        PROVE  /\ k' <= Len(kernel'.phdrs) /\ Seg'.p_type = "PT_LOAD" /\ SegmentFits(Seg)'
               /\ seg_filesz' \in 0 .. Seg'.p_filesz
               /\ seg_off' = Seg'.p_offset + InPlace' /\ edi' = Seg'.p_paddr + InPlace'
    <2>1. SegmentFits(Seg)' = SegmentFits(Seg) BY <1>2, <1>7 DEF SegmentFits
    <2> QED BY <1>1, <1>2, <1>7, <2>1 DEF ImageInv
  <1>8. ASSUME Loading', NEW a \in 0 .. AddressEnd - 1
        PROVE  ram'[a] = IF a - Seg'.p_paddr \in 0 .. Seg'.p_memsz - 1
                         THEN IF a - Seg'.p_paddr < InPlace' THEN Seg'.p_offset + a - Seg'.p_paddr
                              ELSE Zeroed
                         ELSE ImageByte(a, k - 1)'
    BY <1>2, <1>4, <1>8 DEF ImageInv
  <1>9. stage' = "kernel" => k' > Len(kernel'.phdrs) BY <1>1
  <1> QED BY <1>2, <1>3, <1>5, <1>6, <1>7, <1>8, <1>9 DEF ImageInv

LEMMA ImageIdle ==
    ASSUME stage' \in {"hang", "fault"}
    PROVE  ImageInv'
  BY DEF ImageInv, Starting, Loading, Reading

\* A segment is done or skipped: the image of one header more is in memory.
LEMMA ImageNext ==
    ASSUME BootType, BootVarsKept, stage' = "segment", k' = k + 1, ram' = ram, phbuf' = kernel.phdrs,
           \A a \in 0 .. AddressEnd - 1 : ram[a] = ImageByte(a, k)
    PROVE  ImageInv'
  <1>1. k \in Nat \ {0} /\ k' - 1 = k BY DEF BootType
  <1>2. \A a : ImageByte(a, k - 1)' = ImageByte(a, k)
    <2>1. kernel' = kernel BY DEF BootVarsKept
    <2>2. \A a, n : ImageByte(a, n)' = ImageByte(a, n) BY <2>1, SameImage
    <2> QED BY <1>1, <2>2
  <1>3. \A a \in 0 .. AddressEnd - 1 : ram'[a] = ImageByte(a, k - 1)' BY <1>2
  <1>4. ~Starting' /\ ~Loading' /\ stage' # "kernel" BY DEF Starting, Loading, Reading
  <1>5. phbuf' = kernel'.phdrs BY DEF BootVarsKept
  <1> QED BY <1>3, <1>4, <1>5 DEF ImageInv

LEMMA SkipImage ==
    ASSUME BootType, BootVarsKept, ImageInv, SkipSegment
    PROVE  ImageInv'
  <1>1. stage = "segment" /\ stage' = "segment" /\ k' = k + 1 /\ ram' = ram /\ phbuf' = phbuf
    BY DEF SkipSegment
  <1>4. phbuf = kernel.phdrs BY <1>1 DEF ImageInv
  <1>2. k \in Nat \ {0} /\ k \notin LoadSegments BY <1>4 DEF SkipSegment, LoadSegments, Seg, BootType
  <1>3. ASSUME NEW a \in 0 .. AddressEnd - 1 PROVE ram[a] = ImageByte(a, k)
    <2>1. ram[a] = ImageByte(a, k - 1) BY <1>1 DEF ImageInv
    <2>2. ImageByte(a, k) = ImageByte(a, k - 1) BY <1>2, ImageSkip
    <2> QED BY <2>1, <2>2
  <1> QED BY <1>1, <1>3, <1>4, ImageNext

LEMMA DoneImage ==
    ASSUME BootType, BootVarsKept, ImageInv, SegmentDone
    PROVE  ImageInv'
  <1>1. stage = "chunk" /\ seg_filesz = 0 /\ stage' = "segment" /\ k' = k + 1 /\ ram' = ram
        /\ phbuf' = phbuf
    BY DEF SegmentDone
  <1>2. Loading BY <1>1 DEF Loading
  <1>6. phbuf = kernel.phdrs BY <1>2 DEF ImageInv
  <1>3. k \in Nat \ {0} /\ k \in LoadSegments BY <1>2, LoadFacts DEF BootType
  <1>4. InPlace = Seg.p_filesz BY <1>1, <1>2, LoadFacts DEF InPlace
  <1>5. ASSUME NEW a \in 0 .. AddressEnd - 1 PROVE ram[a] = ImageByte(a, k)
    <2>1. ram[a] = IF a - Seg.p_paddr \in 0 .. Seg.p_memsz - 1
                   THEN IF a - Seg.p_paddr < InPlace THEN Seg.p_offset + a - Seg.p_paddr ELSE Zeroed
                   ELSE ImageByte(a, k - 1)
      BY <1>2 DEF ImageInv
    <2>2. CASE a - Seg.p_paddr \in 0 .. Seg.p_memsz - 1
      <3>1. ImageByte(a, k) = IF a - Seg.p_paddr < Seg.p_filesz
                              THEN Seg.p_offset + a - Seg.p_paddr ELSE Zeroed
        BY <1>3, <1>6, <2>2, ImageLast DEF Seg
      <3> QED BY <1>4, <2>1, <2>2, <3>1
    <2>3. CASE a - Seg.p_paddr \notin 0 .. Seg.p_memsz - 1
      <3>1. ImageByte(a, k) = ImageByte(a, k - 1) BY <1>3, <1>6, <2>3, ImageSkip DEF Seg
      <3> QED BY <2>1, <2>3, <3>1
    <2> QED BY <2>2, <2>3
  <1> QED BY <1>1, <1>5, <1>6, ImageNext

LEMMA ZeroImage ==
    ASSUME BootType, BootVarsKept, ImageInv, ZeroSegment
    PROVE  ImageInv'
  <1>0. stage = "segment" /\ phbuf = kernel.phdrs BY DEF ZeroSegment, ImageInv
  <1>1. /\ stage = "segment" /\ k <= Len(kernel.phdrs) /\ Seg.p_type = "PT_LOAD" /\ k' = k
        /\ phbuf' = phbuf
    BY <1>0 DEF ZeroSegment
  <1>2. CASE stage' \in {"hang", "fault"} BY <1>2, ImageIdle
  <1>3. CASE stage' \notin {"hang", "fault"}
    <2>1. /\ stage' = "chunk" /\ SegmentFits(Seg)
          /\ seg_off' = Seg.p_offset /\ seg_filesz' = Seg.p_filesz /\ edi' = Seg.p_paddr
          /\ ram' = [a \in DOMAIN ram |->
                       IF a \in Seg.p_paddr .. Seg.p_paddr + Seg.p_memsz - 1 THEN Zeroed ELSE ram[a]]
      BY <1>3 DEF ZeroSegment, Hang
    <2>2. kernel' = kernel /\ Seg' = Seg BY <1>1 DEF BootVarsKept, Seg
    <2>3. Seg.p_offset \in Nat /\ Seg.p_paddr \in Nat /\ Seg.p_filesz \in Nat /\ Seg.p_memsz \in Nat
      <3>1. k \in 1 .. Len(kernel.phdrs) BY <1>1, PhdrsAre DEF BootType
      <3> QED BY <1>0, <3>1, PhdrsAre DEF Seg
    <2>4. InPlace' = 0 BY <2>1, <2>2, <2>3 DEF InPlace
    <2>5. \A a : ImageByte(a, k - 1)' = ImageByte(a, k - 1)
      BY <1>1, <2>2 DEF ImageByte, Covering, LoadSegments
    <2>6. ASSUME NEW a \in 0 .. AddressEnd - 1
          PROVE  ram'[a] = IF a - Seg'.p_paddr \in 0 .. Seg'.p_memsz - 1
                           THEN IF a - Seg'.p_paddr < InPlace' THEN Seg'.p_offset + a - Seg'.p_paddr
                                ELSE Zeroed
                           ELSE ImageByte(a, k - 1)'
      <3>1. a \in DOMAIN ram /\ a \in Int BY RamDomain, Sizes
      <3>2. ram'[a] = IF a \in Seg.p_paddr .. Seg.p_paddr + Seg.p_memsz - 1 THEN Zeroed ELSE ram[a]
        BY <2>1, <3>1
      <3>3. ram[a] = ImageByte(a, k - 1) BY <1>1 DEF ImageInv
      <3>4. CASE a - Seg.p_paddr \in 0 .. Seg.p_memsz - 1
        <4>1. a \in Seg.p_paddr .. Seg.p_paddr + Seg.p_memsz - 1 /\ ~(a - Seg.p_paddr < 0)
          BY <2>3, <3>1, <3>4
        <4> QED BY <2>2, <2>4, <3>2, <3>4, <4>1
      <3>5. CASE a - Seg.p_paddr \notin 0 .. Seg.p_memsz - 1
        <4>1. a \notin Seg.p_paddr .. Seg.p_paddr + Seg.p_memsz - 1 BY <2>3, <3>1, <3>5
        <4> QED BY <2>2, <2>5, <3>2, <3>3, <3>5, <4>1
      <3> QED BY <3>4, <3>5
    <2>7. ~Starting' /\ stage' \notin {"segment", "kernel"} BY <2>1 DEF Starting
    <2>8. SegmentFits(Seg)' BY <2>1, <2>2 DEF SegmentFits
    <2>9. /\ k' <= Len(kernel'.phdrs) /\ Seg'.p_type = "PT_LOAD"
          /\ seg_filesz' \in 0 .. Seg'.p_filesz
          /\ seg_off' = Seg'.p_offset + InPlace' /\ edi' = Seg'.p_paddr + InPlace'
      BY <1>1, <2>1, <2>2, <2>3, <2>4
    <2>10. phbuf' = kernel'.phdrs BY <1>0, <1>1, <2>2
    <2> QED BY <2>6, <2>7, <2>8, <2>9, <2>10 DEF ImageInv
  <1> QED BY <1>2, <1>3


LEMMA CopyImage ==
    ASSUME BootType, BootVarsKept, ReadInv, ImageInv, CopyChunk
    PROVE  ImageInv'
  <1>1. stage = "copy" /\ k' = k /\ stage' \in {"chunk", "fault"} /\ phbuf' = phbuf BY DEF CopyChunk
  <1>2. Loading BY <1>1 DEF Loading
  <1> DEFINE len == units * Unit
             off == Seg.p_offset
             to == Seg.p_paddr
             filesz == Seg.p_filesz
             memsz == Seg.p_memsz
             done == InPlace
  <1>0. PICK n : n = IF seg_filesz <= Usable THEN seg_filesz ELSE Usable OBVIOUS
  <1>3. Unit \in Nat \ {0} BY UnitIs
  <1>4. /\ off \in Nat /\ to \in Nat /\ filesz \in Nat /\ memsz \in Nat /\ filesz <= memsz
        /\ seg_filesz \in Nat /\ seg_filesz <= filesz /\ done \in Nat
        /\ done = filesz - seg_filesz /\ edi = to + done /\ seg_off = off + done
    BY <1>2, LoadFacts DEF InPlace, ImageInv
  <1>5. InSector \in 0 .. Unit - 1 /\ SectorStart = seg_off - InSector
    <2>1. seg_off \in Int BY <1>4
    <2>2. seg_off % Unit \in 0 .. Unit - 1 /\ (seg_off \div Unit) * Unit = seg_off - (seg_off % Unit)
      BY <1>3, <2>1, DivMod
    <2> QED BY <2>2 DEF InSector, SectorStart
  <1>18. Fetched /\ Wanted = units BY <1>1 DEF Fetched, Fetching, ForHeader, Wanted
  <1>6. len \in Nat /\ len >= Unit /\ len <= BounceBytes /\ BounceBytes \in Nat
    <2>1. units \in Nat \ {0} /\ units * Unit <= BounceBytes BY <1>1, <1>18 DEF ReadInv
    <2>2. units * Unit \in Int /\ units * Unit >= Unit BY <1>3, <2>1, Times
    <2> QED BY <1>3, <2>1, <2>2, Sizes
  <1>7. Filled(len) BY <1>18 DEF ReadInv
  <1>8. Usable = len - InSector BY DEF Usable
  <1> HIDE DEF len
  <1>9. n \in Nat /\ n <= seg_filesz /\ n <= len - InSector BY <1>0, <1>3, <1>4, <1>5, <1>6, <1>8
  <1>10. ram' = [a \in DOMAIN ram |->
                   IF a \in edi .. edi + n - 1 THEN
                      IF InSector + a - edi \in DOMAIN bounce THEN bounce[InSector + a - edi] ELSE Junk
                   ELSE ram[a]]
         /\ seg_off' = seg_off + n /\ seg_filesz' = seg_filesz - n /\ edi' = edi + n
    BY <1>0 DEF CopyChunk
  <1>11. kernel' = kernel /\ Seg' = Seg BY <1>1 DEF BootVarsKept, Seg
  <1>12. InPlace' = done + n BY <1>4, <1>9, <1>10, <1>11 DEF InPlace
  <1>13. \A a : ImageByte(a, k - 1)' = ImageByte(a, k - 1)
    BY <1>1, <1>11 DEF ImageByte, Covering, LoadSegments
  <1>14. DOMAIN bounce = 0 .. BounceBytes - 1
    <2>1. bounce = [b \in 0 .. BounceBytes - 1 |-> bounce[b]] BY DEF BootType
    <2>2. DOMAIN [b \in 0 .. BounceBytes - 1 |-> bounce[b]] = 0 .. BounceBytes - 1 OBVIOUS
    <2> QED BY <2>1, <2>2
  <1>15. ASSUME NEW a \in 0 .. AddressEnd - 1
         PROVE  ram'[a] = IF a - to \in 0 .. memsz - 1
                          THEN IF a - to < done + n THEN off + a - to ELSE Zeroed
                          ELSE ImageByte(a, k - 1)
    <2>1. a \in DOMAIN ram /\ a \in Int BY RamDomain, Sizes
    <2>2. ram[a] = IF a - to \in 0 .. memsz - 1
                   THEN IF a - to < done THEN off + a - to ELSE Zeroed ELSE ImageByte(a, k - 1)
      BY <1>2 DEF ImageInv
    <2> HIDE DEF off, to, filesz, memsz, done
    <2>3. CASE a \in edi .. edi + n - 1
      <3> PICK b : b = InSector + a - edi OBVIOUS
      <3>1. b \in 0 .. len - 1 /\ b \in Int
        <4>1. edi \in Int /\ InSector \in Nat BY <1>3, <1>4, <1>5
        <4>2. a >= edi /\ a < edi + n BY <1>9, <2>1, <2>3, <4>1
        <4>3. len \in Nat /\ n \in Nat /\ n <= len - InSector BY <1>6, <1>9
        <4>4. b \in Int /\ b >= 0 BY <2>1, <4>1, <4>2
        <4>5. b < len
          <5>1. InSector + n <= len BY <4>1, <4>3
          <5>2. b < InSector + n BY <2>1, <4>1, <4>2, <4>3
          <5> QED BY <4>1, <4>3, <4>4, <5>1, <5>2
        <4> QED BY <4>3, <4>4, <4>5
      <3>2. b \in DOMAIN bounce BY <1>6, <1>14, <3>1
      <3>3. ram'[a] = bounce[b] BY <1>10, <2>1, <2>3, <3>2
      <3>4. bounce[b] = SectorStart + b BY <1>7, <3>1 DEF Filled
      <3>5. SectorStart + b = off + a - to
        <4>1. InSector \in Int BY <1>3, <1>5
        <4> QED BY <1>4, <1>5, <2>1, <3>1, <4>1
      <3>6. a - to \in 0 .. memsz - 1 /\ a - to < done + n BY <1>4, <1>9, <2>1, <2>3
      <3> QED BY <3>3, <3>4, <3>5, <3>6
    <2>4. CASE a \notin edi .. edi + n - 1
      <3>1. ram'[a] = ram[a] BY <1>10, <2>1, <2>4
      <3>2. a - to \in 0 .. memsz - 1 => (a - to < done + n <=> a - to < done)
        BY <1>4, <1>9, <2>1, <2>4
      <3>3. CASE a - to \in 0 .. memsz - 1 BY <2>2, <3>1, <3>2, <3>3
      <3>4. CASE a - to \notin 0 .. memsz - 1 BY <2>2, <3>1, <3>4
      <3> QED BY <3>3, <3>4
    <2> QED BY <2>3, <2>4
  <1>16. CASE stage' = "fault" BY <1>16, ImageIdle
  <1>17. CASE stage' = "chunk"
    <2>1. ASSUME NEW a \in 0 .. AddressEnd - 1
          PROVE  ram'[a] = IF a - Seg'.p_paddr \in 0 .. Seg'.p_memsz - 1
                           THEN IF a - Seg'.p_paddr < InPlace' THEN Seg'.p_offset + a - Seg'.p_paddr
                                ELSE Zeroed
                           ELSE ImageByte(a, k - 1)'
      BY <1>11, <1>12, <1>13, <1>15
    <2>2. ~Starting' /\ stage' \notin {"segment", "kernel"} BY <1>17 DEF Starting
    <2>3. SegmentFits(Seg)' BY <1>2, <1>11 DEF SegmentFits, ImageInv
    <2>4. k' <= Len(kernel'.phdrs) /\ Seg'.p_type = "PT_LOAD" BY <1>1, <1>2, <1>11 DEF ImageInv
    <2>5. seg_filesz' \in 0 .. Seg'.p_filesz BY <1>4, <1>9, <1>10, <1>11
    <2>6. seg_off' = Seg'.p_offset + InPlace' /\ edi' = Seg'.p_paddr + InPlace'
      <3> HIDE DEF off, to, filesz, memsz, done
      <3>1. seg_off' = off + (done + n) /\ edi' = to + (done + n) BY <1>4, <1>9, <1>10
      <3> QED BY <1>11, <1>12, <3>1 DEF off, to
    <2>7. phbuf' = kernel'.phdrs BY <1>1, <1>2, <1>11 DEF ImageInv
    <2> QED BY <2>1, <2>2, <2>3, <2>4, <2>5, <2>6, <2>7 DEF ImageInv
  <1> QED BY <1>1, <1>16, <1>17

LEMMA ImageSame ==
    ASSUME BootType, BootVarsKept, ImageInv,
           UNCHANGED <<stage, back, phbuf, k, seg_off, seg_filesz, edi, ram>>
    PROVE  ImageInv'
  <1>1. (Starting' <=> Starting) /\ (Loading' <=> Loading) BY DEF Starting, Loading, Reading
  <1>2. stage' = "kernel" => k > Len(kernel.phdrs) BY DEF ImageInv
  <1>3. stage' \in {"segment", "kernel"} => phbuf' = kernel.phdrs BY DEF ImageInv
  <1> QED BY <1>1, <1>2, <1>3, ImageKept

\* The header that is checked is that of the file.
LEMMA HeaderSeen ==
    ASSUME BootType, ReadInv, ImageInv, stage = "header"
    PROVE  FileSeen = kernel
  <1>1. Fetched /\ ForHeader /\ Starting BY DEF Fetched, ForHeader, Starting
  <1>2. Wanted * Unit = HeaderBytes BY <1>1, HeaderUnits DEF Wanted
  <1>3. SectorStart = 0 BY <1>1, StartSector DEF ImageInv
  <1>4. Filled(HeaderBytes) BY <1>1, <1>2 DEF ReadInv
  <1>5. HeaderBytes \in Nat BY Sizes
  <1>6. \A b \in 0 .. HeaderBytes - 1 : bounce[b] = b BY <1>3, <1>4, <1>5 DEF Filled
  <1> QED BY <1>6 DEF FileSeen

LEMMA ImageStep ==
    ASSUME BootType, BootVarsKept, ReadInv, ImageInv, BootNext
    PROVE  ImageInv'
  <1>1. CASE SkipSegment BY <1>1, SkipImage
  <1>2. CASE ZeroSegment BY <1>2, ZeroImage
  <1>3. CASE SegmentDone BY <1>3, DoneImage
  <1>4. CASE CopyChunk BY <1>4, CopyImage
  <1>5. CASE DetectMemory
    <2>1. stage = "e820" /\ stage' \in {"e820", "a20", "hang"}
      BY <1>5 DEF DetectMemory, E820End, E820Entry, Hang
    <2>2. UNCHANGED <<phbuf, k, seg_off, seg_filesz, edi, ram>> BY <1>5 DEF DetectMemory, segVars
    <2> QED BY <2>1, <2>2, ImageKept DEF Starting, Loading, Reading
  <1>6. CASE FastA20 \/ KbcA20
    <2>1. /\ stage \in {"a20", "kbc"}
          /\ stage' \in {"hang", "kbc"} \/ (stage' = "read" /\ back' = "header")
          /\ UNCHANGED <<phbuf, k, seg_off, seg_filesz, edi, ram>>
      BY <1>6, A20Stage
    <2> QED BY <2>1, ImageKept DEF Starting, Loading, Reading
  <1>11. CASE TalkToKbc \/ KbcTakes
    <2>1. UNCHANGED <<stage, back, phbuf, k, seg_off, seg_filesz, edi, ram>>
      BY <1>11 DEF TalkToKbc, KbcTakes, segVars
    <2> QED BY <2>1, ImageSame
  <1>7. CASE TryMany \/ TryOne \/ TryOneFails \/ \E n \in 0 .. BounceUnits - 1 : TryManyFails(n)
    <2>1. /\ stage \in {"read", "one"} /\ back' = back
          /\ UNCHANGED <<phbuf, k, seg_off, seg_filesz, edi, ram>>
      BY <1>7 DEF TryMany, TryOne, TryOneFails, TryManyFails, segVars
    <2>2. stage' \in {"read", "one", "hang", back}
      BY <1>7 DEF TryMany, TryOne, TryOneFails, TryManyFails, ReadOk, Hang
    <2>3. back \in {"header", "copy"} BY <2>1 DEF BootType
    <2> QED BY <2>1, <2>2, <2>3, ImageKept DEF Starting, Loading, Reading
  <1>8. CASE CheckHeader
    <2>1. stage = "header" /\ stage' \in {"segment", "hang"} BY <1>8 DEF CheckHeader, Hang
    <2>2. UNCHANGED <<k, seg_off, seg_filesz, edi, ram>> BY <1>8 DEF CheckHeader
    <2>3. phbuf' = kernel.phdrs BY <1>8, HeaderSeen DEF CheckHeader
    <2> QED BY <2>1, <2>2, <2>3, ImageKept DEF Starting, Loading, Reading
  <1>9. CASE ReadChunk
    <2>1. stage = "chunk" /\ stage' = "read" /\ back' = "copy" BY <1>9 DEF ReadChunk, CallRead
    <2>2. UNCHANGED <<phbuf, k, seg_off, seg_filesz, edi, ram>> BY <1>9 DEF ReadChunk
    <2> QED BY <2>1, <2>2, ImageKept DEF Starting, Loading, Reading
  <1>10. CASE JumpToKernel
    <2>1. stage = "segment" /\ k > Len(kernel.phdrs) /\ stage' \in {"kernel", "hang"}
      BY <1>10 DEF JumpToKernel, Hang, ImageInv
    <2>2. UNCHANGED <<phbuf, k, seg_off, seg_filesz, edi, ram>> BY <1>10 DEF JumpToKernel, segVars
    <2> QED BY <2>1, <2>2, ImageKept DEF Starting, Loading, Reading
  <1> QED BY <1>1, <1>2, <1>3, <1>4, <1>5, <1>6, <1>7, <1>8, <1>9, <1>10, <1>11
         DEF BootNext, LoaderNext

-----------------------------------------------------------------------------
(* Theorems.                                                                *)

LEMMA BootStart == BootInit => BootInv
  <1> SUFFICES ASSUME BootInit PROVE BootInv OBVIOUS
  <1>1. BootType BY DEF BootInit, BootType
  <1>2. MapInv
    <2>1. stage = "e820" /\ asked = 0 /\ mmap = << >> BY DEF BootInit
    <2>2. Len(mmap) = 0 /\ mmap \in Seq(MapEntry) BY <2>1
    <2>3. Told(asked) BY <1>1, <2>1, <2>2, RealStart, SmapIs DEF Told
    <2>4. Len(mmap) < MmapMax BY <2>2, Sizes
    <2> QED BY <2>1, <2>3, <2>4 DEF MapInv
  <1>3. ReadInv BY DEF BootInit, ReadInv, Fetching, Fetched
  <1>4. ImageInv
    <2>1. stage = "e820" /\ k = 1 /\ seg_off = 0 /\ \A a \in 0 .. AddressEnd - 1 : ram[a] = Before BY DEF BootInit
    <2>2. \A a : ImageByte(a, k - 1) = Before
      <3>1. k - 1 = 0 BY <2>1
      <3> QED BY <3>1, ImageStart
    <2> QED BY <2>1, <2>2 DEF ImageInv, Loading, Reading
  <1> QED BY <1>1, <1>2, <1>3, <1>4 DEF BootInv

LEMMA BootStep == BootInv /\ [BootNext]_bootVars => BootInv'
  <1> SUFFICES ASSUME BootInv, [BootNext]_bootVars PROVE BootInv' OBVIOUS
  <1>1. CASE BootNext
    <2>1. BootType /\ MapInv /\ ReadInv /\ ImageInv BY DEF BootInv
    <2>2. BootType' /\ BootVarsKept BY <1>1, <2>1, TypeStep
    <2>3. MapInv' BY <1>1, <2>1, <2>2, MapStep
    <2>4. ReadInv' BY <1>1, <2>1, <2>2, ReadStep
    <2>5. ImageInv' BY <1>1, <2>1, <2>2, ImageStep
    <2> QED BY <2>2, <2>3, <2>4, <2>5 DEF BootInv
  <1>2. CASE UNCHANGED bootVars
    <2>1. UNCHANGED <<stage, kernel, machine, asked, mmap, a20, bounce, back, dap_lba, dap_off,
                      want_count, phbuf, k, seg_off, seg_filesz, units, edi, ram>>
      BY <1>2 DEF bootVars
    <2>2. BootType' BY <2>1 DEF BootInv, BootType
    <2>3. MapInv' BY <2>1 DEF BootInv, MapInv, Told, MapTold, RealEntries
    <2>5. BootVarsKept BY <2>1 DEF BootVarsKept
    <2>4. ReadInv' BY <2>1, <2>5, ReadSame DEF BootInv
    <2>6. ImageInv' BY <2>1, <2>5, ImageSame DEF BootInv
    <2> QED BY <2>2, <2>3, <2>4, <2>6 DEF BootInv
  <1> QED BY <1>1, <1>2

LEMMA BootLoaded == BootInv => KernelLoaded
  <1> SUFFICES ASSUME BootInv, stage = "kernel" PROVE KernelLoaded BY DEF KernelLoaded
  <1>1. BootType /\ MapInv /\ ImageInv BY DEF BootInv
  <1>2. a20 /\ MapTold BY <1>1 DEF MapInv
  <1>3. ASSUME NEW a \in DOMAIN ram PROVE ram[a] = ImageByte(a, Len(kernel.phdrs))
    <2>1. a \in 0 .. AddressEnd - 1 BY <1>1, RamDomain
    <2>2. ram[a] = ImageByte(a, k - 1) /\ k > Len(kernel.phdrs) BY <1>1, <2>1 DEF ImageInv
    <2> PICK n : n = k - 1 OBVIOUS
    <2>3. n \in Nat /\ n >= Len(kernel.phdrs) BY <1>1, <2>2, PhdrsAre DEF BootType
    <2>4. ImageByte(a, n) = ImageByte(a, Len(kernel.phdrs)) BY <1>1, <2>3, ImageAll
    <2> QED BY <2>2, <2>4
  <1> QED BY <1>2, <1>3 DEF KernelLoaded

\* stage2.S enters the kernel only with the A20 line on, the memory map of the BIOS
\* stored, and every byte of memory as the program headers say: for kernel files
\* and maps of any size, sectors and buffers of any size, and any number of reads
\* that fail before they succeed.
THEOREM KernelHolds == BootSpec => []KernelLoaded
  <1>1. BootInit => BootInv BY BootStart
  <1>2. BootInv /\ [BootNext]_bootVars => BootInv' BY BootStep
  <1>3. BootInv => KernelLoaded BY BootLoaded
  <1> QED BY <1>1, <1>2, <1>3, PTL DEF BootSpec
=============================================================================
