\* soft_reset is called up to twice and the allocator may return any free block.
SPECIFICATION Spec
CONSTANTS
    Addr = {a1, a2, a3}
    NULL = NULL
    Lifo = FALSE
    DmaOdd = 3
    DmaEven = 2
    IdleDots = 4
    MaxResets = 3
    MaxSoftResets = 2
SYMMETRY AddrSymmetry
INVARIANTS
    TypeOK
    OwnerIsLive
    OwnFrames
