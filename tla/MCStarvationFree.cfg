SPECIFICATION BootFairSpec
CONSTANTS
    MAX_TASKS = 4
    OS_Tasks = 3
    LONG_MAX = 1
    LOAD = 1
    SleepTimes = {}
    Signals = {}
PROPERTIES
    StarvationFree
