CONSTANTS
    Size = 3
    MaxKeys = 4
SPECIFICATION Spec
INVARIANT NullMeansEmpty
CHECK_DEADLOCK FALSE
