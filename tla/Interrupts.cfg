CONSTANTS
    Size = 3
    MaxKeys = 7
    Lines = {0, 1, 3, 7, 12, 15}
    TickWrap = 8
    PerSecond = 4
    Duration = 3
    MaxLag = 4
SPECIFICATION ISpec
INVARIANTS CountNeverOver FifoUnlessOverrun NoIrqBlocked BeepLongEnough TimeIsOneMoment
PROPERTY BeepEnds
