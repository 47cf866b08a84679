SPECIFICATION FairSpec
CONSTANTS
    f1 = f1
    f2 = f2
    w1 = w1
    w2 = w2
    second = second
    third = third
    NoSlot = NoSlot
    Workflow = {f1, f2}
    Worker = {w1}
    Horizon = 4
    Expression = {second, third}
    SlotsOf <- McSlotsOf
    MaxEdits = 2
    MaxCrashes = 1
INVARIANT
    CronSafety
PROPERTY
    DueSlotIsQueued
CHECK_DEADLOCK FALSE
