SPECIFICATION Spec
CONSTANTS
    r1 = r1
    r2 = r2
    r3 = r3
    r4 = r4
    w1 = w1
    w2 = w2
    w3 = w3
    p1 = p1
    p2 = p2
    o1 = o1
    o2 = o2
    NoRun = NoRun
    NoOwner = NoOwner
    Owner = {o1, o2}
    Project = {p1, p2}
    Run = {r1}
    Worker = {w1, w2}
    ProjectOf <- OneProject
    Trigger <- McTrigger
    ResumeOf <- McResumeOf
    Backfills <- McBackfills
    Limit <- OneAtOnce
    Identity <- OwnIdentity
    RenewalsFail = FALSE
    DiesClosing = TRUE
    MaxCrashes = 2
INVARIANT
    NoOrphans
CHECK_DEADLOCK FALSE
