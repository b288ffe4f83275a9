\* A cartridge of 512 KB: chr0 selects its upper half, then chr1 is loaded.
SPECIFICATION Spec
CONSTANTS
    Cart <- LargeOnly
    Values = {9, 21}
    Gaps = {4}
    Byte = 4
    MaxCycles = 60
    MaxCarts = 0
PROPERTIES
    Chr1IgnoredIn8KB
CHECK_DEADLOCK FALSE
