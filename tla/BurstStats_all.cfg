SPECIFICATION Spec
CONSTANTS
    Workers = {w1, w2}
    BurstSize = 5
    BucketSize = 2
    NbDesc = 5
    SubsetCnt = 3
    Matches = 1
    MaxLoops = 2
INVARIANTS
    TypeOK
    HistogramRight
    EvenGroups
    ReportAddsUp
