SPECIFICATION LiveSpec
CONSTANTS
    Session = "this"
    Sessions = {"this", "other"}
    NumBlocks = 2
    EmptyBlocks = {}
    TotalSymbols = 2
    Frames <- MCFewFrames
    Solvable <- MCSolvable
    MaxJournal = 6
    SaveEvery = 1
    StopAfter = 0
    KeepState = {TRUE, FALSE}
    InventoryAgrees = {TRUE, FALSE}
    MaxRuns = 3
    MaxKills = 2
    MaxLosses = 0
    MaxFaults = 1
    MaxTampers = 0
PROPERTIES
    EventuallyDelivered
    ImplementsTransfer
CHECK_DEADLOCK FALSE
