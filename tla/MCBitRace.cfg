SPECIFICATION Spec
CONSTANTS
    PRORITY_NUM = 3
    MAX_TIMESLICE = 9
    PID_NUM = 4
    idle = idle
    init = init
    a = a
    b = b
    none = none
    Task = {idle, init, a, b}
    IdleTask = idle
    InitTask = init
    NoTask = none
    SleepBound = 4
    Preemptible = {"store"}
    KillStale = FALSE
INVARIANTS
    BitHasTask
CHECK_DEADLOCK FALSE
