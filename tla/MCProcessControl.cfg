SPECIFICATION Spec
CONSTANTS
    PRORITY_NUM = 2
    MAX_TIMESLICE = 9
    PID_NUM = 4
    idle = idle
    init = init
    a = a
    b = b
    none = none
    Task = {idle, init, a, b}
    IdleTask = idle
    InitTask = init
    NoTask = none
    SleepBound = 4
    Preemptible = {"alloc", "link", "queue", "load", "ready", "check",
                   "window"}
    KillStale = FALSE
SYMMETRY Symmetry
INVARIANTS
    TypeOK
    ListedOnce
    OnOwnLevel
    ProMapExact
    PidsOwned
    FullSlice
    NoFrozenPriority
    HighestRuns
    NeverHalts
    WaitsForTheLiving
    ShellShownRunning
    UnannouncedNotRun
CHECK_DEADLOCK FALSE
