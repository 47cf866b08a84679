SPECIFICATION Spec
CONSTANTS
    f1 = f1
    f2 = f2
    w1 = w1
    w2 = w2
    second = second
    third = third
    NoSlot = NoSlot
    Workflow = {f1, f2}
    Worker = {w1}
    Horizon = 4
    Expression = {second, third}
    SlotsOf <- McSlotsOf
    MaxEdits = 2
    MaxCrashes = 0
INVARIANT
    SlotQueuedOnce
CHECK_DEADLOCK FALSE
