CONSTANTS
    Files <- SmallFiles
    MaxUint32 = 15
    LoadLimit = 6
    KernelStart = 1
    KernelEnd = 2
    PageSize = 2
    EhdrSize = 1
    PhdrSize = 1
    BootPages = {}
    Kernels <- SmallKernels
    Machines <- SmallMachines
    MaxFaults = 6
    LowEnd = 8
    AddressEnd = 24
    DiskUnit = 2
    CdUnit = 4
    KernelLba = 2
    HeaderBytes = 4
    BounceBytes = 8
    PhEntSize = 1
    MaxPhdrs = 3
    MmapMax = 3
    MinRam = 2
    KibBytes = 2
    KibMod = 8
    OffsetMod = 16
SPECIFICATION LoadersSpec
INVARIANTS WritesInExtent RefusedUntouched ImageLoaded KernelLoaded
PROPERTY BootEnds
CHECK_DEADLOCK FALSE
