\* One read-modify-write instruction, once the program has run for a while.
SPECIFICATION Spec
CONSTANTS
    Cart <- LargeOnly
    Values = {9, 28}
    Gaps = {4, 7}
    Byte = 16
    MaxCycles = 60
    MaxCarts = 0
PROPERTIES
    RmwAltersOnce
CHECK_DEADLOCK FALSE
