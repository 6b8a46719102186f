SPECIFICATION Spec
CONSTANTS
    Files <- AllFiles
    Triggers <- RegisteredTriggers
    MaxCrashes = 0
    MaxInvalid = 0
    NONE = NONE
    NOFILE = NOFILE
INVARIANTS
    RunsOwnRules
