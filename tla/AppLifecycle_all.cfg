SPECIFICATION FairSpec
CONSTANTS
    Workers = {w1, w2, w3}
    RxDesc = 1
    MaxPkts = 2
    NONE = NONE
INVARIANTS
    TypeOK
    OwnQueue
    ReportComplete
    DevicesOutliveWorkers
PROPERTIES
    Exits
