CONSTANTS
    HeapEnd = 23
    MetaSize = 1
    Sizes = {0, 2, 6}
    TaskSize = 1
    StackSize = 2
    MaxPid = 10
    MaxDepth = 5
SPECIFICATION HeapsSpec
INVARIANTS ChainTiles FullyMerged NoLeak WalksAgree StacksAreLive TasksLeakNothing
PROPERTY ImplementsAllocator
