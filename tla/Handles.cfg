CONSTANTS
    MAX_NAME_LEN = 4
    MAX_FILE_COUNT = 2
    U64 = 8
    MaxTotalSize = 5
    MaxFileSize = 3
    Null = Null
    Goroutines = {g1, g2}
    Threads = {t1, t2}
    Keys = {k1, k2}
    Identities = {i1, i2}
    Paths = {p}
    Sessions = {s1, s2}
    Salts = {salt}
    Nonces = {n1, n2}
    Payloads = {pa, pb}
    ParamSets <- MCParams
    Inventories <- MCInventories
    Levels <- MCLevels
    MaxBlocks = 2
    MaxSent = 2
    Programs <- MCPrograms
SYMMETRY Symmetric
SPECIFICATION HandlesSpec
INVARIANTS
    ErrorsAreOwn
    FinishReturnsSent
    ManifestHandleChecked
