SPECIFICATION FairSpec
CONSTANTS
    MAX_TASKS = 4
    OS_Tasks = 3
    LONG_MAX = 1
    LOAD = 2
    SleepTimes = {1}
    Signals = {}
PROPERTIES
    ImplementsLock
    ImplementsFairLock
    ReadyRuns
