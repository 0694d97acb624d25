CONSTANTS
    \* Decoder
    Session = "this"
    Sessions = {"this", "other"}
    NumBlocks = 3
    EmptyBlocks = {2}
    TotalSymbols = 3
    Frames <- MCFrames
    Solvable <- MCSolvable
    MaxJournal = 4
    \* Encoder
    MIN_FEC_SYMBOL_SIZE = 2
    MAX_PAYLOAD_LEN = 5
    MAX_BLOCK_COUNT = 5
    MAX_PAYLOAD_SIZE = 12
    MAX_OVERHEAD = 200
    PAYLOAD_ID_LEN = 1
    SPARE = 1
    TAG = 1
    U32 = 20
    PayloadLens <- MCPayloadLens
    SymbolSizes <- MCSymbolSizes
    BlockCounts <- MCBlockCounts
    Overheads <- MCOverheads
    SourcePackets <- MCSourcePackets
    \* Wire
    BITS = 2
    SymbolCounts = {0, 1, 2, 3}
    Payloads <- MCPayloads
    MaxFaults = 2
    \* SessionState
    Reasons = {r1, r2}
    NoReason = none
    MaxRecorded = 3
    \* Archive
    MAX_NAME_LEN = 4
    MAX_FILE_COUNT = 2
    U64 = 16
    MaxTotalSize = 3
    MaxFileSize = 2
    NameOf <- MCNames
    Contents <- MCContents
    MaxEdits = 1
    MaxDamages = 1
    \* Keys
    Procs = {p1, p2}
    Outs <- MCOuts
    Materials = {m1, m2}
    None = None
    Forced = {TRUE, FALSE}
SPECIFICATION FormatsSpec
INVARIANTS
    StreamDeterminesDecoder
    SavedStateParses
    BlocksTile
    EmittedInBitmap
    OverheadKept
    EveryFrameOnce
    OutageAbsorbed
    FrameGoesWhereSent
    OneFaultNoticed
    SentIsReceived
    VerifyNamesAll
    LoadedWasDrawn
    ReasonIffError
\* Every part may come to its end.
CHECK_DEADLOCK FALSE
