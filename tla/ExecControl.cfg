CONSTANTS
    MaxPid = 4
    Progs <- OneProg
    ProgLo <- OneLo
    ProgHi <- OneHi
    MemTop = 2
    StackBase = 0
    StackSize = 1
    PoolSize = 4
    Align = 2
    HeapSize = 1
    Increments <- SbrkIncrements
    ExitCodes = {257}
    Signals = {0, 15, 65}
SPECIFICATION Spec
INVARIANTS ProcessChain BlockedIffChild HaltOnlyWhenDone
PROPERTIES FailedCallHarmless ExitCompletes
