SPECIFICATION Spec
CONSTANTS
    PRORITY_NUM = 3
    MAX_TIMESLICE = 9
    Task = {11, 12, 13}
    SleepValues <- MCSleepValues
    Poison = Poison
INVARIANTS
    WalksTasksOnly
    SweepIsClosedForm
PROPERTIES
    SweepEnds
CHECK_DEADLOCK FALSE
