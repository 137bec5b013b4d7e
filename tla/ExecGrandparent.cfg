CONSTANTS
    MaxPid = 4
    Progs = {"long", "short"}
    ProgLo <- LinkedAt
    ProgHi <- EndsAt
    MemTop = 3
    StackBase = 0
    StackSize = 1
    PoolSize = 5
    Align = 1
    HeapSize = 0
    Increments = {}
    ExitCodes = {257}
    Signals = {9}
SPECIFICATION Spec
PROPERTY WholeImageRestored
