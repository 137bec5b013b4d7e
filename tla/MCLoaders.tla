----------------------------- MODULE MCLoaders -----------------------------
(* Instances of the two ELF loaders.  ElfLoader: files with up to two program *)
(* headers around the limits of a memory of a few bytes, the kernel at its     *)
(* start.  BootLoader: kernels that take several reads, on machines with and    *)
(* without faults.  A behaviour is of one of the two.                         *)
EXTENDS ElfLoader, BootLoader

SmallPhdrs ==
    [p_type : {"PT_LOAD", "other"}, p_vaddr : {0, 2, 4}, p_memsz : {0, 1, 3}, p_filesz : {0, 2},
     p_offset : {0, 3}]

Images ==
    [ident : {TRUE}, size : {4}, e_phoff : {1}, e_phentsize : {1}, e_entry : {1, 3},
     phdrs : [{1} -> SmallPhdrs] \cup [{1, 2} -> SmallPhdrs]]

\* One defect of the header each, around a program header that is fine.
GoodPhdr == [p_type |-> "PT_LOAD", p_vaddr |-> 3, p_memsz |-> 1, p_filesz |-> 1, p_offset |-> 0]
GoodFile == [ident |-> TRUE, size |-> 3, e_phoff |-> 1, e_phentsize |-> 2, e_entry |-> 3,
             phdrs |-> <<GoodPhdr>>]
Headers ==
    {GoodFile, [GoodFile EXCEPT !.ident = FALSE], [GoodFile EXCEPT !.size = 0],
     [GoodFile EXCEPT !.size = 2], [GoodFile EXCEPT !.e_phoff = 0],
     [GoodFile EXCEPT !.e_phentsize = 0], [GoodFile EXCEPT !.phdrs = << >>]}

SmallFiles == Images \cup Headers

-----------------------------------------------------------------------------
Part(type, offset, paddr, filesz, memsz) ==
    [p_type |-> type, p_offset |-> offset, p_paddr |-> paddr, p_filesz |-> filesz, p_memsz |-> memsz]
File(parts) == [ident |-> TRUE, e_phentsize |-> 1, e_phoff |-> 1, phdrs |-> parts]

\* Text that starts inside a sector and fills the bounce buffer more than once,
\* data with bytes that are only zeroed, a header that is not loaded.
LongKernel == File(<<Part("PT_LOAD", 3, 9, 10, 10), Part("other", 0, 0, 1, 1),
                     Part("PT_LOAD", 1, 18, 2, 3)>>)
OverlapKernel == File(<<Part("PT_LOAD", 4, 8, 4, 6), Part("PT_LOAD", 7, 11, 1, 2)>>)
SmallKernels ==
    {LongKernel, OverlapKernel, File(<<Part("PT_LOAD", 0, 10, 8, 8)>>),
     [LongKernel EXCEPT !.ident = FALSE], [LongKernel EXCEPT !.e_phentsize = 2],
     [LongKernel EXCEPT !.e_phoff = 2], File(<< >>),
     File(<<Part("PT_LOAD", 0, 7, 1, 1)>>), File(<<Part("PT_LOAD", 0, 22, 1, 2)>>)}

\* Memory maps with empty entries, too long, too small, of halves of a KiB, more
\* KiB than the sum holds, and none.
Entry(length, type) == [length |-> length, type |-> type]
SmallMaps ==
    {<< >>, <<Entry(0, 1)>>, <<Entry(2, 1), Entry(0, 1), Entry(4, 2), Entry(5, 1)>>,
     <<Entry(2, 1), Entry(2, 2), Entry(1, 1), Entry(8, 1)>>, <<Entry(4, 1), Entry(0, 2)>>,
     <<Entry(3, 1), Entry(1, 1)>>, <<Entry(16, 1), Entry(2, 1)>>}

DiskMachines ==
    [file_lba : {0, 3}, bad : {{}, {5}}, multi : BOOLEAN, drops : BOOLEAN, a20 : {"fast"},
     kbc : {"works"}, smap : {<<Entry(4, 1)>>}, carry : {FALSE}, sign : {TRUE}]
FirmwareMachines ==
    [file_lba : {0}, bad : {{}}, multi : {FALSE}, drops : {TRUE},
     a20 : {"on"}, kbc : {"works"}, smap : SmallMaps, carry : BOOLEAN, sign : BOOLEAN]
KbcMachines ==
    [file_lba : {0}, bad : {{}}, multi : {TRUE}, drops : {FALSE}, a20 : {"fast", "keyboard", "stuck"},
     kbc : {"works", "silent", "full"}, smap : {<<Entry(4, 1)>>}, carry : {FALSE}, sign : {TRUE}]
SmallMachines ==
    DiskMachines \cup KbcMachines \cup {m \in FirmwareMachines : m.smap = << >> => m.carry}

-----------------------------------------------------------------------------
BootOff ==
    /\ stage = "off" /\ kernel = LongKernel /\ machine = (CHOOSE m \in Machines : TRUE) /\ faults = 0 /\ why = "none"
    /\ asked = 0 /\ mmap = << >> /\ a20 = FALSE
    /\ kbc = 1 /\ kbc_in = "none" /\ kbc_out = FALSE /\ phbuf = << >> /\ unreal = FALSE /\ bounce = << >> /\ back = "none"
    /\ dap_lba = 0 /\ dap_off = 0 /\ dap_count = 0 /\ want_count = 0 /\ retries = 0
    /\ k = 1 /\ seg_off = 0 /\ seg_filesz = 0 /\ units = 0 /\ edi = 0 /\ ram = << >>

ElfOff ==
    /\ pc = "off" /\ file = << >> /\ i = 1 /\ lo = MaxUint32 /\ hi = 0
    /\ mem = [a \in Addr |-> Old] /\ user = BootPages

LoadersInit == (Init /\ BootOff) \/ (BootInit /\ ElfOff)

LoadersNext == (Next /\ UNCHANGED bootVars) \/ (BootNext /\ UNCHANGED vars)

LoadersSpec == LoadersInit /\ [][LoadersNext]_<<vars, bootVars>> /\ BootFairness
=============================================================================
