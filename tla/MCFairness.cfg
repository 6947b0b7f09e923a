SPECIFICATION QuietSpec
CONSTANTS
    PRORITY_NUM = 3
    MAX_TIMESLICE = 9
    PID_NUM = 5
    idle = idle
    init = init
    a = a
    b = b
    none = none
    Task = {idle, init, a, b}
    IdleTask = idle
    InitTask = init
    NoTask = none
    SleepBound = 10
    Preemptible = {"check"}
    KillStale = FALSE
PROPERTIES
    NoStarvation
    WaitEnds
CHECK_DEADLOCK FALSE
