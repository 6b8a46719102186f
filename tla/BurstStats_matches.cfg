SPECIFICATION Spec
CONSTANTS
    Workers = {w1}
    BurstSize = 4
    BucketSize = 2
    NbDesc = 4
    SubsetCnt = 1
    Matches = 1
    MaxLoops = 2
INVARIANTS
    MatchesInBucket
