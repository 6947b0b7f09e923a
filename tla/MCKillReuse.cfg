SPECIFICATION Spec
CONSTANTS
    PRORITY_NUM = 2
    MAX_TIMESLICE = 9
    PID_NUM = 4
    idle = idle
    init = init
    a = a
    b = b
    none = none
    Task = {idle, init, a, b}
    IdleTask = idle
    InitTask = init
    NoTask = none
    SleepBound = 4
    Preemptible = {}
    KillStale = TRUE
PROPERTIES
    KillKills
CHECK_DEADLOCK FALSE
