CONSTANTS
    HeapEnd = 65536
    MetaSize = 12
    TaskSize = 76
    StackSize = 4096
    MaxPid = 20
    MaxDepth = 3
SPECIFICATION TaskSpec
INVARIANT NullMeansFull
