SPECIFICATION Spec
CONSTANTS
    Tiles = 8
    RenderLines = 12
    IdleLines = 21
    Sprites = 10
    Cases <- Crowds
INVARIANTS
    PreRenderOnlyFetches
CHECK_DEADLOCK FALSE
