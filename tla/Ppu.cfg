SPECIFICATION Spec
CONSTANTS
    Tiles = 8
    RenderLines = 12
    IdleLines = 21
    Sprites = 10
    Cases <- MCCases
INVARIANTS
    TypeOK
    PictureScrolls
    PaletteCopyCoherent
    ReadsReturnMemory
    FlagsOnTime
CHECK_DEADLOCK FALSE
