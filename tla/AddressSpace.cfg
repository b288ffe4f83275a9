\* A RAM, its mirrors and a ROM on a bus of four addresses.
SPECIFICATION Spec
CONSTANTS
    ram = ram
    rom = rom
    Open = Open
    Span = 4
    Module = {ram, rom}
    Size <- MCSize
    Writable = {ram}
    Value = {v0, v1}
SYMMETRY ValueSymmetry
INVARIANTS
    PortsDisjoint
PROPERTIES
    ImplementsAddressMap
