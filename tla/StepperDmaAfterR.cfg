\* R goes down, a frame runs with an OAM DMA in it.
SPECIFICATION Spec
CONSTANTS
    Addr = {a1, a2}
    NULL = NULL
    Lifo = TRUE
    DmaOdd = 3
    DmaEven = 2
    IdleDots = 4
    MaxResets = 3
    MaxSoftResets = 1
PROPERTIES
    DmaStallsCpu
