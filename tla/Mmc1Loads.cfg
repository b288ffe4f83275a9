\* Up to three loads, reset bits anywhere, and one exchange of the cartridge.
SPECIFICATION Spec
CONSTANTS
    Cart <- AllCarts
    Values = {9, 21, 28}
    Gaps = {4}
    Byte = 4
    MaxCycles = 64
    MaxCarts = 1
INVARIANTS
    TypeOK
    WindowsInRange
    WindowLayout
    ShiftHoldsSent
PROPERTIES
    LoadsWholeValues
CHECK_DEADLOCK FALSE
