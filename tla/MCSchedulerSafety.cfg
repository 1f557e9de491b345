SPECIFICATION Spec
CONSTANTS
    MAX_TASKS = 4
    OS_Tasks = 4
    LONG_MAX = 1
    LOAD = 1
    SleepTimes <- MCSleepTimes
    Signals = {1}
INVARIANTS
    TypeInv
    RunningIsCurrent
    MutualExclusion
    SignalOwner
    VisibleTaskComplete
PROPERTIES
    WorkConserving
    NoLostGrant
CHECK_DEADLOCK FALSE
