\* A console that may be reset up to twice, at any CPU cycle.  Ten dots by eight
\* lines: as with 341 by 262 the CPU's slot moves through all three alignments
\* with the dots from frame to frame.
SPECIFICATION FairSpec
CONSTANTS
    RenderLines = 2
    IdleLines = 5
    Dots = 10
    MaxLength = 6
    MaxDelays = 1
    AnyCycle = TRUE
    MaxResets = 2
INVARIANTS
    TypeOK
    VBlankWindow
    LineHighOutsideVBlank
    NmiOnlyOnce
    RaceMeansNoNmi
    SuppressionIsLocal
    DrawsInsideFramebuffer
PROPERTIES
    NmiLostOnlyAtLineStart
    FrameLength
    NmiAnswered
