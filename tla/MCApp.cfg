SPECIFICATION AppSpec
CONSTANTS
    MAX_TASKS = 3
    OS_Tasks = 2
    LONG_MAX = 4
    LOAD = 2
    SleepTimes = {1, 2}
    Signals = {}
    Startup = 1
    Hold = 2
PROPERTIES
    BothServed
