CONSTANTS
    \* Capture: four images of six kinds, buffered and direct
    Positions <- MCPositions
    Images <- MCImages
    Buffered = {TRUE, FALSE}
    MaxImages = 4
    \* FrameDir: a send of four frames and one of three; names of one digit
    Radix = 3
    PadTo = 3
    s1 = s1
    s2 = s2
    Sessions <- MCSessions
    FrameCount <- MCFrameCount
    LoopCounts = {0, 2}
    Rendered = TRUE
    MaxDamage = 1
    \* Chunks: every remainder for up to five blocks
    MaxPayload = 11
    MaxBlocks = 5
    MaxSymbol = 4
    \* Qr
    MAX_VERSION = 5
    HIGH = 12
    FRAME_OVERHEAD = 3
    Cap <- MCCap
SPECIFICATION LoopsSpec
INVARIANTS
    ImagesConserved
    NewestKept
    OnlyTakenSkipped
    ManifestMeansFrames
    DisplayShowsSend
    AnswerFits
PROPERTIES
    CaptureReturns
    EveryFrameShown
    ChunksRebuilt
    CapacityFound
\* Every part may come to its end.
CHECK_DEADLOCK FALSE
