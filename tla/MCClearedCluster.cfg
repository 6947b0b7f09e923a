SPECIFICATION Spec
CONSTANTS
    Block = {2, 4, 6}
    Fresh = {6}
    Sectors = {1, 2}
    Byte = {0, 1}
    Zero = 0
    Size = 2
    base_addr = 1
    Fails = {}
    None = None
    Done = Done
    Error = Error
PROPERTIES
    ClearedIsHeld
