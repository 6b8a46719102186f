SPECIFICATION Spec
CONSTANTS
    Workers = {w1, w2}
INVARIANTS
    TypeOK
    StatsOutliveReaders
    FailReleases
