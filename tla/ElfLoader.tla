------------------------------ MODULE ElfLoader ------------------------------
(***************************************************************************)
(* The ELF loader of kernel/arch/i386/elf.c as exec_run uses it: elf_extent   *)
(* computes the range of addresses that exec_run saves for the caller, then   *)
(* elf_load checks every segment in one pass and copies them in a second one. *)
(* One step per program header.                                             *)
(*                                                                         *)
(* A byte of memory is abstracted to where it came from: the offset in the    *)
(* file it was copied from, Zero or Old.  Sums of two 32-bit fields are       *)
(* computed in 64 bits by the code, so integers need no width here.           *)
(***************************************************************************)
EXTENDS Integers, Sequences

CONSTANTS
    Files,        \* contents of ram file system files, see FileType
    MaxUint32,    \* 0xFFFFFFFF
    LoadLimit,    \* ELF_LOAD_LIMIT
    KernelStart,  \* _kernel_start
    KernelEnd,    \* _kernel_end
    PageSize,     \* 4096
    EhdrSize,     \* sizeof(elf32_ehdr_t)
    PhdrSize,     \* sizeof(elf32_phdr_t)
    BootPages     \* pages that paging_initialize gives to user mode

Phdr == [p_type : {"PT_LOAD", "other"}, p_vaddr : Nat, p_memsz : Nat, p_filesz : Nat,
         p_offset : Nat]

\* ident: magic, class, byte order, type and machine are the expected ones.
FileType == [ident : BOOLEAN, size : Nat, e_phoff : Nat, e_phentsize : Nat, e_entry : Nat,
             phdrs : Seq(Phdr)]

ASSUME FilesAssumption == Files \subseteq FileType

ASSUME LayoutAssumption ==
    /\ MaxUint32 \in Nat /\ LoadLimit \in Nat /\ LoadLimit <= MaxUint32
    /\ KernelStart \in Nat /\ KernelEnd \in Nat
    /\ PageSize \in Nat \ {0} /\ EhdrSize \in Nat /\ PhdrSize \in Nat
    /\ BootPages \subseteq Nat

VARIABLES
    pc,      \* extent, check, load, done or failed
    file,    \* the image, a member of Files
    i,       \* loop counter, the number of the program header it looks at
    lo, hi,  \* results of elf_extent
    mem,     \* user memory
    user     \* pages with PTE_USER

vars == <<pc, file, i, lo, hi, mem, user>>

Addr == 0 .. LoadLimit - 1
Zero == -1
Old == -2

Init ==
    /\ pc = "extent" /\ file \in Files
    /\ i = 1 /\ lo = MaxUint32 /\ hi = 0
    /\ mem = [a \in Addr |-> Old]
    /\ user = BootPages

-----------------------------------------------------------------------------
\* elf_validate()
Valid ==
    /\ file.size >= EhdrSize
    /\ file.ident
    /\ file.e_phoff # 0 /\ Len(file.phdrs) # 0
    /\ file.e_phentsize >= PhdrSize
    /\ file.e_phoff + Len(file.phdrs) * file.e_phentsize <= file.size

Ph == file.phdrs[i]
IsLoad(p) == p.p_type = "PT_LOAD"
SegEnd(p) == p.p_vaddr + p.p_memsz
InLoop == i <= Len(file.phdrs)

Fail == pc' = "failed" /\ UNCHANGED <<file, i, lo, hi, mem, user>>

NextSegment == i' = i + 1 /\ UNCHANGED <<pc, file>>

\* elf_validate() at the start of elf_extent(); elf_load() repeats it on the same bytes.
ExtentInvalid == pc = "extent" /\ ~Valid /\ Fail

ExtentSegment ==
    /\ pc = "extent" /\ Valid /\ InLoop
    /\ IF IsLoad(Ph) /\ SegEnd(Ph) > LoadLimit THEN Fail
       ELSE /\ lo' = IF IsLoad(Ph) /\ Ph.p_vaddr < lo THEN Ph.p_vaddr ELSE lo
            /\ hi' = IF IsLoad(Ph) /\ SegEnd(Ph) > hi THEN SegEnd(Ph) ELSE hi
            /\ NextSegment
            /\ UNCHANGED <<mem, user>>

\* elf_extent() returns and exec_run comes to elf_load().
ExtentEnd ==
    /\ pc = "extent" /\ Valid /\ ~InLoop
    /\ IF hi = 0 THEN Fail
       ELSE pc' = "check" /\ i' = 1 /\ UNCHANGED <<file, lo, hi, mem, user>>

-----------------------------------------------------------------------------
\* Mutant: no test that the bytes are in the file.
MutantSegmentOk(p) ==
    /\ p.p_filesz <= p.p_memsz
    /\ SegEnd(p) <= LoadLimit
    /\ ~(p.p_vaddr < KernelEnd /\ SegEnd(p) > KernelStart)

\* First pass of elf_load().
SegmentOk(p) ==
    /\ p.p_filesz <= p.p_memsz
    /\ p.p_offset + p.p_filesz <= file.size
    /\ SegEnd(p) <= LoadLimit
    /\ ~(p.p_vaddr < KernelEnd /\ SegEnd(p) > KernelStart)

\* Mutant: the part beyond the file's bytes is not zeroed.
MutantCopied(p) ==
    [a \in Addr |-> IF a \in p.p_vaddr .. p.p_vaddr + p.p_filesz - 1 THEN p.p_offset + a - p.p_vaddr
                    ELSE mem[a]]

\* memcpy and memset of the second pass.
Copied(p) ==
    [a \in Addr |-> IF a \in p.p_vaddr .. p.p_vaddr + p.p_filesz - 1 THEN p.p_offset + a - p.p_vaddr
                    ELSE IF a \in p.p_vaddr + p.p_filesz .. SegEnd(p) - 1 THEN Zero
                    ELSE mem[a]]

\* Mutant: one pass that copies each segment it found good.
MutantCheckSegment ==
    /\ pc = "check" /\ InLoop
    /\ IF IsLoad(Ph) /\ ~SegmentOk(Ph) THEN Fail
       ELSE /\ mem' = IF IsLoad(Ph) THEN Copied(Ph) ELSE mem
            /\ NextSegment /\ UNCHANGED <<lo, hi, user>>

CheckSegment ==
    /\ pc = "check" /\ InLoop
    /\ IF IsLoad(Ph) /\ ~SegmentOk(Ph) THEN Fail
       ELSE NextSegment /\ UNCHANGED <<lo, hi, mem, user>>

CheckEntry ==
    /\ pc = "check" /\ ~InLoop
    /\ IF file.e_entry >= LoadLimit \/ (file.e_entry < KernelEnd /\ file.e_entry >= KernelStart)
       THEN Fail
       ELSE pc' = "load" /\ i' = 1 /\ UNCHANGED <<file, lo, hi, mem, user>>

\* paging_map_user_range()
Pages(start, end) ==
    IF end <= start THEN {} ELSE start \div PageSize .. (end - 1) \div PageSize

LoadSegment ==
    /\ pc = "load" /\ InLoop
    /\ mem' = IF IsLoad(Ph) THEN Copied(Ph) ELSE mem
    /\ user' = IF IsLoad(Ph) THEN user \cup Pages(Ph.p_vaddr, SegEnd(Ph)) ELSE user
    /\ NextSegment
    /\ UNCHANGED <<lo, hi>>

LoadEnd ==
    /\ pc = "load" /\ ~InLoop
    /\ pc' = "done"
    /\ UNCHANGED <<file, i, lo, hi, mem, user>>

Next ==
    \/ ExtentInvalid \/ ExtentSegment \/ ExtentEnd
    \/ CheckSegment \/ CheckEntry
    \/ LoadSegment \/ LoadEnd

Spec == Init /\ [][Next]_vars

-----------------------------------------------------------------------------
(* Properties.                                                              *)

\* Type correctness.
TypeOK ==
    /\ pc \in {"extent", "check", "load", "done", "failed"}
    /\ file \in Files
    /\ i \in Nat \ {0} /\ lo \in Nat /\ hi \in Nat
    /\ mem \in [Addr -> Int]
    /\ user \in SUBSET Nat

\* Written addresses are in the range that elf_extent() told exec_run, which
\* is all that is saved of the caller, and not in the kernel's image; the
\* bytes come from inside the file.
WritesInExtent ==
    \A a \in Addr :
       mem[a] # Old =>
          /\ lo <= a /\ a < hi
          /\ ~(KernelStart <= a /\ a < KernelEnd)
          /\ mem[a] \in -1 .. file.size - 1

\* elf.c: "validate every PT_LOAD segment before touching any memory".  A file that is
\* refused, by whatever segment, has changed no byte and no page.
RefusedUntouched == pc = "failed" => (\A a \in Addr : mem[a] = Old) /\ user = BootPages

\* The segments that are there, and the last one of them that covers an address.
LoadSegs == {k \in 1 .. Len(file.phdrs) : IsLoad(file.phdrs[k])}
Covers(k, a) == file.phdrs[k].p_vaddr <= a /\ a < SegEnd(file.phdrs[k])

\* After elf_load() memory is the image: an address has the file's byte or zero
\* from the last segment that covers it, the others are as they were, and all
\* that is covered can be reached from user mode.
ImageLoaded ==
    pc = "done" =>
       \A a \in Addr :
          LET by == {k \in LoadSegs : Covers(k, a)}
              k == CHOOSE k \in by : \A l \in by : l <= k
              p == file.phdrs[k]
          IN  IF by = {} THEN mem[a] = Old
              ELSE /\ mem[a] = IF a - p.p_vaddr < p.p_filesz THEN p.p_offset + a - p.p_vaddr
                               ELSE Zero
                   /\ a \div PageSize \in user
=============================================================================
