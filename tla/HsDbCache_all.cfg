SPECIFICATION Spec
CONSTANTS
    Procs = {p1, p2}
    Rules = {r1, r2, r3}
    Faulty = {r3}
    Flags = {f1, f2}
    NONE = NONE
INVARIANTS
    TypeOK
    DbOfRules
    CacheSound
