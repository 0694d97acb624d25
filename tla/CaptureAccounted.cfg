SPECIFICATION CapSpec
CONSTANTS
    Positions <- MCPositions
    Images <- MCImages
    Buffered = {TRUE, FALSE}
    MaxImages = 4
INVARIANTS
    AccountedOnReturn
CHECK_DEADLOCK FALSE
