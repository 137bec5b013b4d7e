CONSTANTS
    MaxFiles = 3
    MaxFds = 2
    MaxFileSize = 2
    PoolSize = 4
    FirstCap = 1
    Align = 1
    MaxIno = 2
    FileBase = 3
    FdArgs = {1, 3, 4}
    Paths <- DataPaths
    Bufs <- DataBufs
    ReadCounts = {1, 2}
    Seeks = {1}
    OpenFlags <- DataFlags
    CatSize = 1
    Blank = 1
    Texts <- DataTexts
SPECIFICATION SpecCommands
INVARIANTS BlocksApart CatShowsFile WriteStoresPrefix
PROPERTIES CommandClosesFile FailedCallHarmless ImplementsFileStore
VIEW CallView
