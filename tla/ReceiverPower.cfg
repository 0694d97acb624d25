SPECIFICATION RecvSpec
CONSTANTS
    Session = "this"
    Sessions = {"this", "other"}
    NumBlocks = 2
    EmptyBlocks = {}
    TotalSymbols = 2
    Frames <- MCUnsoundFrames
    Solvable <- MCSolvable
    MaxJournal = 5
    SaveEvery = 2
    StopAfter = 2
    KeepState = {TRUE, FALSE}
    InventoryAgrees = {TRUE}
    MaxRuns = 3
    MaxKills = 0
    MaxLosses = 2
    MaxFaults = 0
    MaxTampers = 0
INVARIANTS
    ResumeConsistent
PROPERTIES
    OnlyVerifiedPublished
CHECK_DEADLOCK FALSE
