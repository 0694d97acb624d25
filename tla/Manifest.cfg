CONSTANTS
    MAX_NAME_LEN = 4
    MAX_FILE_COUNT = 2
    U64 = 8
    MaxTotalSize = 5
    MaxFileSize = 3
    Identities = {alice, mallory}
    Sessions = {s1, s2}
    Salts = {salt}
    Nonces = {nonce}
    ParamSets <- MCParamSets
    Inventories <- MCInventories
    OtherEntries <- MCOtherEntries
    OtherSizes = {0, 3}
    MaxChanges = 3
SYMMETRY Symmetry
SPECIFICATION ManifestSpec
INVARIANTS
    AcceptedWasSigned
    InventoryAddsUp
    PolicyOnlyOnSigned
    HonestAccepted
CHECK_DEADLOCK FALSE
