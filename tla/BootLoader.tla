------------------------------ MODULE BootLoader ------------------------------
(***************************************************************************)
(* bootloader/stage2.S, from its start to the kernel: the memory map of the   *)
(* BIOS, the A20 line, and the kernel's ELF file, which is read from the disk  *)
(* piece by piece through a bounce buffer below 1 MiB and copied to its place. *)
(* Then the first thing kernel_main does, its look at the memory map.         *)
(*                                                                         *)
(* The machine may fail: sectors that cannot be read, reads that fail now and  *)
(* then, a BIOS that refuses to read several sectors at once, or that leaves   *)
(* the segment limits of real mode behind, a keyboard controller that does not *)
(* answer.  A byte is the offset in the kernel file that it was read from,     *)
(* Zeroed, or Junk.                                                         *)
(***************************************************************************)
EXTENDS Integers, Sequences, SequencesExt

CONSTANTS
    Kernels,      \* kernel files, see KernelFile
    Machines,     \* what the BIOS and the disk are like, see Machine
    MaxFaults,    \* bound on reads that fail now and then
    LowEnd,       \* 1 MiB
    AddressEnd,   \* 2^32
    DiskUnit,     \* 512, bytes of a sector
    CdUnit,       \* 2048, those of a CD
    KernelLba,    \* KERNEL_LBA, in sectors of a disk
    HeaderBytes,  \* 4096, what is read of the file first
    BounceBytes,  \* size of the bounce buffer
    PhEntSize,    \* 32
    MaxPhdrs,     \* MAX_PHDRS
    MmapMax,      \* MMAP_MAX
    MinRam,       \* MIN_RAM_KIB
    KibBytes,     \* 1024
    KibMod,       \* 2^32, of the sum of the sizes in KiB
    OffsetMod     \* 2^16, of the offset in the disk address packet

\* ident: magic and class are the expected ones.
Segment == [p_type : {"PT_LOAD", "other"}, p_offset : Nat, p_paddr : Nat, p_filesz : Nat,
            p_memsz : Nat]
KernelFile == [ident : BOOLEAN, e_phentsize : Nat, e_phoff : Nat, phdrs : Seq(Segment)]

\* file_lba: where the boot image is on a CD, or 0 for a disk; bad: sectors that
\* cannot be read; multi: more than one sector can be read at once; drops: calls
\* drop the 4 GiB limits; a20: what switches the line on; kbc: whether the keyboard
\* controller works, takes bytes and never answers (or the BIOS, whose interrupts
\* are on, takes the answer), or takes none (as where there is no controller and
\* its port reads as 0xFF); smap: the memory map;
\* carry: whether its end is told by the carry flag of one more call or with the
\* last entry; sign: calls answer 'SMAP'.
MapEntry == [length : Nat, type : Nat]
Machine == [file_lba : Nat, bad : SUBSET Nat, multi : BOOLEAN, drops : BOOLEAN,
            a20 : {"on", "fast", "keyboard", "stuck"}, kbc : {"works", "silent", "full"},
            smap : Seq(MapEntry), carry : BOOLEAN, sign : BOOLEAN]

\* The buffer lies in one segment of real mode.  That a segment has no more bytes in
\* the file than in memory, and that the table of program headers does not wrap
\* around the address space, is not tested by the loader: the linker sees to it.
ASSUME BootAssumption ==
    /\ Kernels \subseteq KernelFile /\ Machines \subseteq Machine
    /\ \A f \in Kernels : \A n \in DOMAIN f.phdrs : f.phdrs[n].p_filesz <= f.phdrs[n].p_memsz
    /\ \A f \in Kernels : f.e_phoff + Len(f.phdrs) * PhEntSize < AddressEnd
    /\ {LowEnd, AddressEnd, KernelLba, OffsetMod, PhEntSize, MinRam} \subseteq Nat
    /\ {KibBytes, KibMod} \subseteq Nat \ {0}
    /\ {HeaderBytes, BounceBytes, MmapMax} \subseteq Nat \ {0}
    /\ HeaderBytes <= BounceBytes /\ BounceBytes <= OffsetMod
    /\ \A u \in {DiskUnit, CdUnit} :
          u \in Nat \ {0} /\ BounceBytes % u = 0 /\ HeaderBytes % u = 0 /\ 2 * u <= LowEnd

VARIABLES
    stage,       \* where the loader is
    kernel,      \* the kernel file
    machine,
    faults,      \* reads that failed now and then so far
    why,         \* the message before hang
    asked,       \* calls of E820 made
    mmap,        \* entries at MMAP_ADDR
    a20,         \* the line is on
    kbc,         \* number of the step of KbcScript
    kbc_in,      \* the byte in the input buffer of the controller, or "none"
    kbc_out,     \* its output buffer is full
    unreal,      \* data segments reach 4 GiB
    bounce,      \* the bounce buffer
    back,        \* stage that read_sectors returns to
    dap_lba, dap_off, dap_count, want_count, retries,
    phbuf,       \* the copy of the program headers
    k,           \* number of the program header
    seg_off, seg_filesz,
    units,       \* ebx of load_segment: sectors of this round
    edi,         \* where the next byte goes
    ram          \* memory

bootVars == <<stage, kernel, machine, faults, why, asked, mmap, a20, kbc, kbc_in, kbc_out, unreal,
              bounce, back, dap_lba, dap_off, dap_count, want_count, retries, phbuf, k, seg_off,
              seg_filesz, units, edi, ram>>
mapVars == <<asked, mmap>>
kbcVars == <<kbc, kbc_in, kbc_out>>
a20Vars == <<a20, kbcVars>>
diskVars == <<faults, bounce, dap_lba, dap_off, dap_count, want_count, retries>>
segVars == <<phbuf, k, seg_off, seg_filesz, units, edi, ram>>

\* The size of a sector, and the sector where the kernel file begins.
Unit == IF machine.file_lba = 0 THEN DiskUnit ELSE CdUnit
KernelBase ==
    IF machine.file_lba = 0 THEN KernelLba
    ELSE machine.file_lba + (KernelLba * DiskUnit) \div CdUnit

Zeroed == -1
Junk == -2
Before == -3

BootInit ==
    /\ stage = "e820" /\ kernel \in Kernels /\ machine \in Machines
    /\ faults = 0 /\ why = "none"
    /\ asked = 0 /\ mmap = << >> /\ a20 = (machine.a20 = "on") /\ unreal = FALSE
    /\ kbc = 1 /\ kbc_in = "none" /\ kbc_out = FALSE /\ phbuf = << >>
    /\ bounce = [n \in 0 .. BounceBytes - 1 |-> Before] /\ back = "none"
    /\ dap_lba = 0 /\ dap_off = 0 /\ dap_count = 0 /\ want_count = 0 /\ retries = 0
    /\ k = 1 /\ seg_off = 0 /\ seg_filesz = 0 /\ units = 0 /\ edi = 0
    /\ ram = [a \in 0 .. AddressEnd - 1 |-> Before]

\* A message, then hang.
Hang(message) == stage' = "hang" /\ why' = message

-----------------------------------------------------------------------------
(* detect_memory: one call of E820 per step.                                *)
E820End(entries) ==
    IF entries = << >> THEN Hang("mmap") ELSE stage' = "a20" /\ UNCHANGED why

\* The call gave entry e; ebx is 0 with the last one.
E820Entry(e) ==
    LET last == asked + 1 = Len(machine.smap) /\ ~machine.carry
    IN  IF e.length = 0
        THEN mmap' = mmap /\ IF last THEN E820End(mmap) ELSE UNCHANGED <<stage, why>>
        ELSE /\ mmap' = Append(mmap, e)
             /\ IF Len(mmap') >= MmapMax \/ last THEN E820End(mmap') ELSE UNCHANGED <<stage, why>>

DetectMemory ==
    /\ stage = "e820"
    /\ asked' = asked + 1
    /\ IF asked = Len(machine.smap) THEN E820End(mmap) /\ UNCHANGED mmap
       ELSE IF ~machine.sign THEN Hang("mmap") /\ UNCHANGED mmap
       ELSE E820Entry(machine.smap[asked + 1])
    /\ UNCHANGED <<kernel, machine, a20Vars, unreal, back, diskVars, segVars>>

\* read_sectors: its start, up to read_try.
CallRead(lba, count, ret) ==
    /\ stage' = "read" /\ back' = ret
    /\ dap_lba' = lba /\ want_count' = count /\ dap_off' = 0 /\ retries' = 3

\* check_a20 found the line on: enter_unreal, and the read of the header.
A20Done ==
    /\ unreal' = TRUE /\ UNCHANGED why
    /\ CallRead(KernelBase, HeaderBytes \div Unit, "header")

\* enable_a20 up to the second check: port 0x92 is tried where the line is off.
FastA20 ==
    /\ stage = "a20"
    /\ a20' = (a20 \/ machine.a20 = "fast")
    /\ IF a20' THEN A20Done
       ELSE stage' = "kbc" /\ UNCHANGED <<unreal, why, back, dap_lba, want_count, dap_off, retries>>
    /\ UNCHANGED <<kernel, machine, faults, mapVars, kbcVars, bounce, dap_count, segVars>>

\* The talk with the keyboard controller: it is waited for before each step, without
\* a limit.  "read" takes the byte of the output port, "data" sends it back with
\* the bit of the line set, the others are commands.
KbcScript == <<"0xAD", "0xD0", "read", "0xD1", "data", "0xAE", "check">>
KbcWants == KbcScript[kbc]

\* kbc_wait_in and kbc_wait_out: what the two bits of port 0x64 say.
InputFull == kbc_in # "none" \/ machine.kbc = "full"
KbcReady == IF KbcWants = "read" THEN kbc_out ELSE ~InputFull

TalkToKbc ==
    /\ stage = "kbc" /\ KbcReady /\ KbcWants # "check"
    /\ kbc' = kbc + 1
    /\ IF KbcWants = "read" THEN kbc_out' = FALSE /\ UNCHANGED kbc_in
       ELSE kbc_in' = KbcWants /\ UNCHANGED kbc_out
    /\ UNCHANGED <<stage, kernel, machine, faults, why, mapVars, a20, unreal, bounce, back, dap_lba,
                   dap_off, dap_count, want_count, retries, segVars>>

\* The last check, after which the loader gives up.
KbcA20 ==
    /\ stage = "kbc" /\ KbcReady /\ KbcWants = "check"
    /\ IF a20 THEN A20Done
       ELSE Hang("a20") /\ UNCHANGED <<unreal, back, dap_lba, want_count, dap_off, retries>>
    /\ UNCHANGED <<kernel, machine, faults, mapVars, a20Vars, bounce, dap_count, segVars>>

\* The keyboard controller takes a byte, in its own time.
KbcTakes ==
    /\ kbc_in # "none" /\ machine.kbc # "full"
    /\ kbc_in' = "none"
    /\ kbc_out' = (kbc_out \/ (kbc_in = "0xD0" /\ machine.kbc = "works"))
    /\ a20' = (a20 \/ (kbc_in = "data" /\ machine.a20 = "keyboard"))
    /\ UNCHANGED <<stage, kernel, machine, faults, why, mapVars, kbc, unreal, bounce, back, dap_lba,
                   dap_off, dap_count, want_count, retries, segVars>>

-----------------------------------------------------------------------------
(* read_sectors: INT 13h with the disk address packet.                      *)

\* The first n sectors at dap_lba are in the buffer at dap_off, the one after
\* them is Junk when the read stopped there.
Transferred(n, junk) ==
    [b \in DOMAIN bounce |->
       LET j == b - dap_off
       IN  IF j \in 0 .. n * Unit - 1 THEN (dap_lba - KernelBase) * Unit + j
           ELSE IF junk /\ j \in n * Unit .. (n + 1) * Unit - 1 THEN Junk
           ELSE bounce[b]]

Good(n) == \A s \in dap_lba .. dap_lba + n - 1 : s \notin machine.bad

\* The read of count sectors can succeed.
CanRead(count) == Good(count) /\ (count = 1 \/ machine.multi)

\* A read that fails, for its sectors or now and then, after n of them.  The
\* BIOS stores in the packet how many it read.
ReadFails(count, n) ==
    /\ Good(n) /\ n < count
    /\ IF CanRead(count) THEN faults < MaxFaults /\ faults' = faults + 1 ELSE UNCHANGED faults
    /\ bounce' = Transferred(n, TRUE)
    /\ dap_count' = n

\* What every call of the BIOS may do to the segments.
Limits == IF machine.drops THEN FALSE ELSE unreal

\* Mutant: the limits are not set again.
MutantReadOk == stage' = back /\ unreal' = Limits

\* read_ok
ReadOk == stage' = back /\ unreal' = TRUE

\* Mutant: the packet is not filled in again for a new try.
MutantCount == IF retries = 3 THEN want_count ELSE dap_count

\* dap_count of a try.
Count == want_count

TryMany ==
    /\ stage = "read" /\ CanRead(Count)
    /\ bounce' = Transferred(Count, FALSE) /\ dap_count' = Count
    /\ ReadOk
    /\ UNCHANGED <<kernel, machine, faults, why, mapVars, a20Vars, back, dap_lba, dap_off, want_count,
                   retries, segVars>>

TryManyFails(n) ==
    /\ stage = "read" /\ ReadFails(Count, n)
    /\ unreal' = Limits
    /\ IF retries > 1 THEN retries' = retries - 1 /\ UNCHANGED <<stage, dap_off>>
       ELSE stage' = "one" /\ retries' = 3 /\ dap_off' = 0
    /\ UNCHANGED <<kernel, machine, why, mapVars, a20Vars, back, dap_lba, want_count, segVars>>

\* One sector at a time, into consecutive parts of the buffer.
TryOne ==
    /\ stage = "one" /\ CanRead(1)
    /\ bounce' = Transferred(1, FALSE) /\ dap_count' = 1
    /\ dap_lba' = dap_lba + 1 /\ want_count' = want_count - 1
    /\ IF want_count = 1 THEN ReadOk /\ dap_off' = 0 /\ UNCHANGED retries
       ELSE /\ dap_off' = (dap_off + Unit) % OffsetMod /\ retries' = 3
            /\ unreal' = Limits /\ UNCHANGED stage
    /\ UNCHANGED <<kernel, machine, faults, why, mapVars, a20Vars, back, segVars>>

TryOneFails ==
    /\ stage = "one" /\ ReadFails(1, 0)
    /\ unreal' = Limits
    /\ IF retries > 1 THEN retries' = retries - 1 /\ UNCHANGED <<stage, why>>
       ELSE Hang("disk") /\ UNCHANGED retries
    /\ UNCHANGED <<kernel, machine, mapVars, a20Vars, back, dap_lba, dap_off, want_count, segVars>>

-----------------------------------------------------------------------------
(* The kernel file.                                                         *)
HeaderOk(f) ==
    /\ f.ident /\ f.e_phentsize = PhEntSize
    /\ Len(f.phdrs) \in 1 .. MaxPhdrs
    /\ (f.e_phoff + Len(f.phdrs) * PhEntSize) % AddressEnd <= HeaderBytes

\* What the loader takes for the header of the file is what the buffer holds.  Bytes
\* that are not those of the file can say anything, also that there is nothing
\* to load.
NoSegment == [p_type |-> "other", p_offset |-> 0, p_paddr |-> 0, p_filesz |-> 0, p_memsz |-> 0]
WrongFile == [ident |-> TRUE, e_phentsize |-> PhEntSize, e_phoff |-> 0, phdrs |-> <<NoSegment>>]
FileSeen == IF \A b \in 0 .. HeaderBytes - 1 : bounce[b] = b THEN kernel ELSE WrongFile

CheckHeader ==
    /\ stage = "header"
    /\ phbuf' = FileSeen.phdrs
    /\ IF HeaderOk(FileSeen) THEN stage' = "segment" /\ UNCHANGED why ELSE Hang("kernel")
    /\ UNCHANGED <<kernel, machine, mapVars, a20Vars, unreal, back, diskVars, k, seg_off, seg_filesz,
                   units, edi, ram>>

Seg == phbuf[k]

SegmentFits(p) == p.p_paddr >= LowEnd /\ p.p_paddr + p.p_memsz < AddressEnd

SkipSegment ==
    /\ stage = "segment" /\ k <= Len(phbuf) /\ Seg.p_type # "PT_LOAD"
    /\ k' = k + 1
    /\ UNCHANGED <<stage, kernel, machine, why, mapVars, a20Vars, unreal, back, diskVars, phbuf, seg_off,
                   seg_filesz, units, edi, ram>>

\* load_segment: its tests, and the zeroes for the whole segment.  A write past
\* 64 KiB without the limits is a fault.
ZeroSegment ==
    /\ stage = "segment" /\ k <= Len(phbuf) /\ Seg.p_type = "PT_LOAD"
    /\ IF ~SegmentFits(Seg) THEN Hang("kernel") /\ UNCHANGED <<seg_off, seg_filesz, edi, ram>>
       ELSE /\ stage' = IF unreal THEN "chunk" ELSE "fault"
            /\ ram' = [a \in DOMAIN ram |->
                         IF a \in Seg.p_paddr .. Seg.p_paddr + Seg.p_memsz - 1 THEN Zeroed ELSE ram[a]]
            /\ seg_off' = Seg.p_offset /\ seg_filesz' = Seg.p_filesz /\ edi' = Seg.p_paddr
            /\ UNCHANGED why
    /\ UNCHANGED <<kernel, machine, mapVars, a20Vars, unreal, back, diskVars, phbuf, k, units>>

\* The offset in the first sector, and the sectors to read for what is left.
InSector == seg_off % Unit
SectorsLeft == ((seg_filesz + InSector + Unit - 1) % AddressEnd) \div Unit
BounceUnits == BounceBytes \div Unit

SegmentDone ==
    /\ stage = "chunk" /\ seg_filesz = 0
    /\ stage' = "segment" /\ k' = k + 1
    /\ UNCHANGED <<kernel, machine, why, mapVars, a20Vars, unreal, back, diskVars, phbuf, seg_off, seg_filesz,
                   units, edi, ram>>

ReadChunk ==
    /\ stage = "chunk" /\ seg_filesz > 0
    /\ units' = IF SectorsLeft <= BounceUnits THEN SectorsLeft ELSE BounceUnits
    /\ CallRead(seg_off \div Unit + KernelBase, units', "copy")
    /\ UNCHANGED <<kernel, machine, faults, why, mapVars, a20Vars, unreal, bounce, dap_count, phbuf, k, seg_off,
                   seg_filesz, edi, ram>>

\* Usable bytes in the buffer.
Usable == units * Unit - InSector

CopyChunk ==
    LET n == IF seg_filesz <= Usable THEN seg_filesz ELSE Usable
    IN  /\ stage = "copy"
        /\ stage' = IF unreal THEN "chunk" ELSE "fault"
        /\ ram' = [a \in DOMAIN ram |->
                     IF a \in edi .. edi + n - 1 THEN
                        IF InSector + a - edi \in DOMAIN bounce THEN bounce[InSector + a - edi] ELSE Junk
                     ELSE ram[a]]
        /\ seg_off' = seg_off + n /\ seg_filesz' = seg_filesz - n /\ edi' = edi + n
        /\ UNCHANGED <<kernel, machine, why, mapVars, a20Vars, unreal, back, diskVars, phbuf, k, units>>

\* Into protected mode and the kernel.  print_memory_map adds up the usable
\* entries in KiB with 32 bits, and kernel_main stops when that is too little.
UsableRam(entries) ==
    FoldLeft(LAMBDA sum, e : IF e.type = 1 THEN (sum + e.length \div KibBytes) % KibMod ELSE sum, 0,
             entries)

JumpToKernel ==
    /\ stage = "segment" /\ k > Len(phbuf)
    /\ IF UsableRam(mmap) < MinRam THEN Hang("ram") ELSE stage' = "kernel" /\ UNCHANGED why
    /\ UNCHANGED <<kernel, machine, mapVars, a20Vars, unreal, back, diskVars, segVars>>

LoaderNext ==
    \/ DetectMemory \/ FastA20 \/ TalkToKbc \/ KbcA20
    \/ TryMany \/ TryOne \/ TryOneFails
    \/ \E n \in 0 .. BounceUnits - 1 : TryManyFails(n)
    \/ CheckHeader \/ SkipSegment \/ ZeroSegment \/ SegmentDone \/ ReadChunk \/ CopyChunk
    \/ JumpToKernel

BootNext == LoaderNext \/ KbcTakes

\* The loader is one program.  It waits for the BIOS, whose calls return, and for the
\* keyboard controller, which takes what it is sent where the machine has one that
\* does.
BootFairness == WF_bootVars(LoaderNext) /\ WF_bootVars(KbcTakes)
BootSpec == BootInit /\ [][BootNext]_bootVars /\ BootFairness

-----------------------------------------------------------------------------
(* Properties.                                                              *)
LoadSegments == {n \in 1 .. Len(kernel.phdrs) : kernel.phdrs[n].p_type = "PT_LOAD"}

\* The calls of E820, among the first n, that told of memory.
RealEntries(n) == {m \in 1 .. n : machine.smap[m].length > 0}

\* The memory map has, in order, the entries of the BIOS that are not empty, at
\* most MmapMax of them.
MapTold ==
    LET told == Cardinality(RealEntries(Len(machine.smap)))
    IN  /\ Len(mmap) = IF told < MmapMax THEN told ELSE MmapMax
        /\ \A m \in RealEntries(Len(machine.smap)) :
              LET rank == Cardinality(RealEntries(m))
              IN  rank <= MmapMax => mmap[rank] = machine.smap[m]

\* The program headers, among the first n, that load something at address a.
Covering(a, n) ==
    {m \in LoadSegments : m <= n /\ a - kernel.phdrs[m].p_paddr \in 0 .. kernel.phdrs[m].p_memsz - 1}

\* What the first n program headers mean for address a: the byte of the file or
\* zero of the last one that covers it.
ImageByte(a, n) ==
    LET by == Covering(a, n)
        p == kernel.phdrs[CHOOSE m \in by : \A l \in by : l <= m]
    IN  IF by = {} THEN Before
        ELSE IF a - p.p_paddr < p.p_filesz THEN p.p_offset + a - p.p_paddr ELSE Zeroed

\* When the kernel starts, its image is in memory and the rest of memory is
\* untouched, however its pieces lie in sectors and in the buffer and whichever
\* reads failed half done.  The A20 line is on, and the memory map is what the BIOS
\* told.
KernelLoaded ==
    stage = "kernel" =>
       a20 /\ MapTold /\ \A a \in DOMAIN ram : ram[a] = ImageByte(a, Len(kernel.phdrs))

\* The usable memory that the BIOS told of, in KiB.
ToldKib ==
    MapThenSumSet(LAMBDA m : machine.smap[m].length \div KibBytes,
                  {m \in DOMAIN machine.smap : machine.smap[m].type = 1})

\* The sum of the kernel is that of the whole map: the map fits in the table, and
\* the sum in 32 bits.
SumIsExact == Cardinality(RealEntries(Len(machine.smap))) <= MmapMax /\ ToldKib < KibMod

\* What a message must be the truth about.  A disk error names its sector,
\* which cannot be read or failed three times, after three reads of several
\* sectors that failed as well.  "a20" means that nothing in the machine switches
\* the line on, and not that the controller was asked too early.  That there is
\* not enough memory is true of what the BIOS told, unless the sum is not exact.
Cause ==
    CASE why = "mmap" -> RealEntries(Len(machine.smap)) = {} \/ ~machine.sign
      [] why = "a20" -> machine.a20 = "stuck"
      [] why = "disk" -> dap_lba \in machine.bad \/ faults >= IF machine.multi /\ machine.bad = {}
                                                              THEN 6 ELSE 3
      [] why = "kernel" -> ~HeaderOk(kernel) \/ \E n \in LoadSegments : ~SegmentFits(kernel.phdrs[n])
      [] why = "ram" -> ToldKib < MinRam \/ ~SumIsExact

\* kbc_wait_in or kbc_wait_out has no end, and no message tells: the controller will
\* never take the next byte, or never answer.
WaitsForever ==
    /\ stage = "kbc" /\ machine.a20 \in {"keyboard", "stuck"}
    /\ \/ machine.kbc = "full"
       \/ machine.kbc = "silent" /\ KbcWants = "read" /\ kbc_in = "none"

\* The loader comes to the kernel, and then the BIOS told of enough memory, or to a
\* message for which there is a cause, or it waits forever for a keyboard
\* controller that does not do its part on a machine where port 0x92 did not
\* switch the A20 line on.  Reads that fail now and then, a BIOS that reads one
\* sector at a time or that drops the limits, a slow controller, delay the boot and
\* never end it.
BootEnds ==
    stage = "e820" =>
       <>(\/ stage = "kernel" /\ ToldKib >= MinRam
          \/ stage = "hang" /\ Cause
          \/ WaitsForever)
=============================================================================
