SPECIFICATION Spec
CONSTANTS
    Workers = {w1, w2}
    Mbufs = {m1, m2}
    NULL = NULL
    BurstSize = 2
    RxDesc = 2
    TxDesc = 1
    NbDesc = 1
    Engine = "rgx"
    FwdMode = 1
SYMMETRY Symmetry
INVARIANTS
    TypeOK
    Exclusive
    NoDoubleFree
    NoLeak
