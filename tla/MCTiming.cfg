SPECIFICATION TimingSpec
CONSTANTS
    MAX_TASKS = 4
    OS_Tasks = 3
    LONG_MAX = 1
    LOAD = 2
    SleepTimes = {1}
    Signals = {1}
INVARIANTS
    SleepAtLeast
    WakeBound
PROPERTIES
    NoDoubleBypass
    SchedulerCalled
