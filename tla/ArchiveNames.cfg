CONSTANTS
    MAX_NAME_LEN = 4
    MAX_FILE_COUNT = 2
    U64 = 16
    MaxTotalSize = 3
    MaxFileSize = 2
    NameOf <- MCOddNames
    Contents <- MCContents
    MaxEdits = 0
    MaxDamages = 0
SPECIFICATION ArchiveSpec
CHECK_DEADLOCK FALSE
INVARIANT NamesAgree
