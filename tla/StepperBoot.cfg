\* init and power_cycle, any number of times, as in main() and in the tests.
SPECIFICATION FairSpec
CONSTANTS
    Addr = {a1, a2}
    NULL = NULL
    Lifo = TRUE
    DmaOdd = 5
    DmaEven = 4
    IdleDots = 6
    MaxResets = 4
    MaxSoftResets = 0
INVARIANTS
    CpuCoParity
PROPERTIES
    DmaStallsCpu
    NoStarvation
    ImplementsFrameClock
