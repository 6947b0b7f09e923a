SPECIFICATION Spec
CONSTANTS
    h1 = h1
    h2 = h2
    e1 = e1
    e2 = e2
    e3 = e3
    e4 = e4
    None = None
    Poison = Poison
    Heads = {h1, h2}
    Entry = {e1, e2, e3, e4}
PROPERTIES
    InsertionLasts
CHECK_DEADLOCK FALSE
