SPECIFICATION Spec
CONSTANTS
    Run = {r1, r2, r3}
    Worker = {w1, w2}
    Unclaimed = Unclaimed
    Limit = 1
    MaxDeaths = 2
    DiesBetween = FALSE
    Lapses = FALSE
    Chunk = {c1, c2}
    Request = {q1, q2}
    Nothing = Nothing
    MaxMishaps = 3
    Overlaps = FALSE
    Key = {k1, k2}
    Empty = {}
    Repeated = {}
    Caller = {a1, a2}
    MaxEdits = 2
    MaxUpsets = 1
    EditedMeanwhile = FALSE
    RowKey = {o1, o2}
    MaxCursor = 3
    MaxRows = 1
    Importer = {i1}
    MaxStops = 1
    RunsOverlap = FALSE
    CursorsTie = FALSE
    RowsComeLate = FALSE
    ReadsFail = FALSE
    Promise = {x, y}
    Feed = {f1, f2}
    Ticker = {t1, t2}
    MaxLandings = 3
    MaxTouches = 2
    MaxFlips = 4
    Meanwhile = FALSE
    Sweeper = {u1, u2}
    Operator = {p1, p2}
    MaxTurns = 3
    MaxActs = 2
INVARIANTS
    RunSafety
    UploadSafety
    WritebackSafety
    ImportSafety
    ContractSafety
    IncidentSafety
PROPERTIES
    NothingIsUndone
    EverythingSettles
CHECK_DEADLOCK FALSE
