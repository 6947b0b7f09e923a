SPECIFICATION Spec
CONSTANTS
    Page = {p1, p2, p3, p4}
    NULL = NULL
    WORD = 16
    PAGE_SIZE = 2
    KERNEL_ENTRY = 8
    Addr = {0, 3, 6, 9}
    Length = {1, 4}
SYMMETRY PageSymmetry
INVARIANTS
    InVmaIsMapped
CHECK_DEADLOCK FALSE
