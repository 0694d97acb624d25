SPECIFICATION RecvSpec
CONSTANTS
    Session = "this"
    Sessions = {"this", "other"}
    NumBlocks = 2
    EmptyBlocks = {}
    TotalSymbols = 2
    Frames <- MCFrames
    Solvable <- MCSolvable
    MaxJournal = 4
    SaveEvery = 2
    StopAfter = 0
    KeepState = {TRUE, FALSE}
    InventoryAgrees = {TRUE, FALSE}
    MaxRuns = 3
    MaxKills = 0
    MaxLosses = 1
    MaxFaults = 0
    MaxTampers = 0
INVARIANTS
    OutDirWholeOrAbsent
CHECK_DEADLOCK FALSE
