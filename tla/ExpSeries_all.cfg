SPECIFICATION FairSpec
CONSTANTS
    Files <- CutFiles
    Triggers <- RegisteredTriggers
    MaxCrashes = 1
    MaxInvalid = 1
    NONE = NONE
    NOFILE = NOFILE
INVARIANTS
    TypeOK
    NothingLost
    RepeatsBounded
    OwnRules
    ProcessedKept
PROPERTIES
    ImplementsCampaign
    Completes
