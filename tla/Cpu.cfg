\* Single instructions for many operands, short sequences around the stack, a full stack.
SPECIFICATION Spec
CONSTANTS
    Cases <- MCCases
INVARIANTS
    TypeOK
    OneAccessPerCycle
    TimingTable
    EffectiveAccesses
    BreakBitTells
PROPERTIES
    ArithmeticAgrees
    ReturnsResume
