SPECIFICATION Spec
CONSTANTS
    Scenarios <- MCScenarios
    Stores = {0, 1, 6, 15, 255}
    RamValues = {1, 2}
    MaxQueue = 3
    MaxReads = 10
INVARIANTS
    TypeOK
    SaveComesBack
    ButtonsFollowKeys
    PollsReadButtons
CHECK_DEADLOCK FALSE
