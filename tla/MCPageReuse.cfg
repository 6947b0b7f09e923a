SPECIFICATION Spec
CONSTANTS
    max_pfn = 16
    KernelPages = 4
    MAX_INFO = 10
    MAX_BUDDY_ORDER = 2
    BootRequests = {4, 8}
    BootTypes = {"kernel", "bitmap"}
    Requests = {8, 4096, 8192}
    MaxHeld = 3
    MergesInUse = TRUE
CHECK_DEADLOCK FALSE
INVARIANT
    HeldNotFree
