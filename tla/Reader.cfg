SPECIFICATION ReaderSpec
CONSTANTS
    Turn = 6
    Commands <- Various
    PdMaxLeds = 2
    PdMaxBuzzers = 1
    AcuMaxLeds = 2
    AcuMaxBuzzers = 1
    Verdicts = {"NOT_SUPPORTED", "INVALID_ARG", "BUSY"}
    ClockStart = 5
    FirstSeqs = {0, 3}
    Horizon = 2
    MaxCommands = 2
    MaxLost = 1
    MaxRebinds = 2
INVARIANTS
    HeardIsShown
    TimersRunOut
    
PROPERTIES
    AckIsApplied
CHECK_DEADLOCK FALSE
