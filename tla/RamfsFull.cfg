CONSTANTS
    MaxFiles = 2
    MaxFds = 1
    MaxFileSize = 4
    PoolSize = 3
    FirstCap = 1
    Align = 1
    MaxIno = 2
    FileBase = 3
    FdArgs = {3}
    Paths <- DataPaths
    Bufs <- TreeBufs
    ReadCounts = {1}
    Seeks = {1}
    OpenFlags <- TreeFlags
    CatSize = 1
    Blank = 1
    Texts = {}
SPECIFICATION SpecCommands
PROPERTY WriteFailsOnlyWhenFull
VIEW CallView
