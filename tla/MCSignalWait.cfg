SPECIFICATION SignalsSpec
CONSTANTS
    MAX_TASKS = 3
    OS_Tasks = 1
    LONG_MAX = 1
    LOAD = 1
    SleepTimes = {1}
    Signals = {1, 2}
PROPERTIES
    WaitsForSignal
