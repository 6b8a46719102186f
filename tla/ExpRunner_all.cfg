SPECIFICATION FairSpec
CONSTANTS
    MaxAttempts = 3
    MaxFaults = 3
    LateOutput = TRUE
INVARIANTS
    TypeOK
    FreshResult
PROPERTIES
    NoStaleEvent
    OneProgram
    AttemptEnds
