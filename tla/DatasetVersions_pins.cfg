SPECIFICATION FairSpec
CONSTANTS
    d1 = d1
    Dataset = {d1}
    First <- McFirst
    Last = 3
    Holder = {h1}
    Asked <- McAsked
    Viewer = {u1}
    Viewed <- McViewed
    Sweeper = {s1, s2}
    Grace = 3
    Patience = 1
    Horizon = 4
    Overtaken = FALSE
    Remarked = FALSE
    MaxFaults = 1
INVARIANT
    VersionSafety
PROPERTIES
    PrunedIsFinal
    PrunedBytesGo
CHECK_DEADLOCK FALSE
