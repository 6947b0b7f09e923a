SPECIFICATION Spec
CONSTANTS
    N = 3
    Prefix = {"f0"}
    MaxKeys = 4
INVARIANTS
    FromTheKeyboard
    InOrder
PROPERTIES
    KeyAnswered
CHECK_DEADLOCK FALSE
