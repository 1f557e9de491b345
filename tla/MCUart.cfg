SPECIFICATION UartSpec
CONSTANTS
    MAX_TASKS = 3
    OS_Tasks = 2
    LONG_MAX = 1
    LOAD = 1
    SleepTimes = {}
    Signals = {}
    FIFO_SIZE = 2
    Count = 2
    Labels = 3
    Writers = {1, 2}
    Readers = {1, 2}
INVARIANTS
    CountIsMoved
PROPERTIES
    WholeMessages
    ReadsInOrder
