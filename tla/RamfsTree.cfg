CONSTANTS
    MaxFiles = 4
    MaxFds = 2
    MaxFileSize = 0
    PoolSize = 0
    FirstCap = 2
    Align = 2
    MaxIno = 4
    FileBase = 3
    FdArgs <- TreeFds
    Paths <- TreePaths
    Bufs <- TreeBufs
    ReadCounts = {1}
    Seeks = {1}
    OpenFlags <- TreeFlags
    CatSize = 1
    Blank = 1
    Texts = {}
SPECIFICATION SpecCommands
INVARIANT NamesUnique
PROPERTIES FdKeepsFile ErrnoTells
VIEW CallView
