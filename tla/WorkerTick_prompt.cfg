SPECIFICATION TickSpec
CONSTANTS
    r1 = r1
    r2 = r2
    r3 = r3
    r4 = r4
    w1 = w1
    w2 = w2
    w3 = w3
    p1 = p1
    p2 = p2
    o1 = o1
    o2 = o2
    NoRun = NoRun
    NoOwner = NoOwner
    Owner = {o1, o2}
    Project = {p1, p2}
    Run = {r1, r2}
    Worker = {w1, w2}
    ProjectOf <- OneProject
    Trigger <- McTrigger
    ResumeOf <- McResumeOf
    Backfills <- McBackfills
    Limit <- OneAtOnce
    Identity <- OwnIdentity
    RenewalsFail = FALSE
    DiesClosing = FALSE
    MaxCrashes = 3
    m1 = m1
    m2 = m2
    Capture = {m1, m2}
    Sender = {s1, s2}
    MaxAttempts = 2
    MaxKills = 1
    CapturesOverlap = FALSE
    DiesSending = FALSE
INVARIANTS
    FinishedOnce
    ResumeWaits
    NoOrphans
    AlertSafety
PROPERTIES
    EveryRunEnds
    AlertsSettle
CHECK_DEADLOCK FALSE
