SPECIFICATION FairSpec
CONSTANTS
    s1 = s1
    s2 = s2
    p1 = p1
    p2 = p2
    ann = ann
    second = second
    third = third
    NoSlot = NoSlot
    Schedule = {s1}
    Poller = {p1, p2}
    Person = {ann}
    Horizon = 6
    Expression = {second, third}
    SlotsOf <- McSlotsOf
    Ttl = 1
    MaxRetries = 1
    RetryDelay = 1
    Outlast = FALSE
    MaxEdits = 2
    MaxTriggers = 1
    MaxCrashes = 1
INVARIANTS
    OneExecution
    SlotsInOrder
PROPERTY
    DueSlotIsExecuted
CHECK_DEADLOCK FALSE
