SPECIFICATION ResultsSpec
CONSTANTS
    Tasks = 3
    Runs = 2
    MaxFresh = 1
    Graphs <- McLinked
    Settings = {0, 1}
    Kinds = {"settings", "links", "nothing", "unfill"}
    SavesDuringRuns = TRUE
    MaxSaves = 2
    MaxDeaths = 1
    Maker = {d1, d2}
    Part = {g1, g2}
    MaxMakes = 3
    MaxRevisions = 2
    PublishMeanwhile = FALSE
SYMMETRY AnyMaker
INVARIANTS
    ResultsTypeOK
    GatesHold
    CoherentResults
    NotRunAgain
    AsAFullRun
    ErasedIsGone
CHECK_DEADLOCK FALSE
