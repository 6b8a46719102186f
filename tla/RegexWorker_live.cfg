SPECIFICATION FairSpec
CONSTANTS
    Workers = {w1}
    Mbufs = {m1, m2, m3}
    NULL = NULL
    BurstSize = 2
    RxDesc = 2
    TxDesc = 1
    NbDesc = 2
    Engine = "rgx"
    FwdMode = 1
PROPERTIES
    Served
    Returned
    Terminates
    PoolRefills
    ImplementsLifecycle
