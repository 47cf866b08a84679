SPECIFICATION WorkflowSpec
CONSTANTS
    Tasks = 3
    Runs = 3
    MaxFresh = 1
    Graphs <- McJoin
    Settings = {0, 1}
    Kinds = {"settings"}
    SavesDuringRuns = FALSE
    MaxSaves = 2
    MaxDeaths = 0
    Maker = {d1}
    Part = {g1}
    MaxMakes = 0
    MaxRevisions = 0
    PublishMeanwhile = FALSE
INVARIANT
    NotRunAgain
PROPERTY
    RunEnds
