SPECIFICATION FairSpec
CONSTANTS
    Key = {k1, k2}
    Runner = {r1, r2}
    Person = {}
    NoOne = NoOne
    MaxChanges = 2
    MaxFaults = 2
    MaxRestarts = 1
    DiesCopying = FALSE
    SlowPass = FALSE
INVARIANTS
    MirrorIsRight
    LogSafety
PROPERTY
    EndsUpRight
CHECK_DEADLOCK FALSE
