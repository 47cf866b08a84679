SPECIFICATION FairSpec
CONSTANTS
    Studio <- TwoStudios
    Register = {name}
    Saver = {q1}
    KeepBatches = 1
    MaxEdits = 2
    MaxEvents = 3
    MaxRestarts = 1
    MaxSaves = 1
    MaxFaults = 1
    Asks = 1
    Mishaps = {}
INVARIANTS
    CopySafety
    NobodysWorkIsLost
PROPERTIES
    EditsShowAtOnce
    EveryoneCatchesUp
CHECK_DEADLOCK FALSE
