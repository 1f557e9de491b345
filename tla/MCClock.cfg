SPECIFICATION FairSpec
CONSTANTS
    Times <- MCTimes
    DayBytes = {0, 255}
    FIFO_SIZE = 16
INVARIANTS
    NoWordLost
PROPERTIES
    ReadsClock
    SetsClock
    GetReturns
