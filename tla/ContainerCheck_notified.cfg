SPECIFICATION Spec
CONSTANTS
    MaxDigest = 3
    RowIds = {1, 2}
    Settings = {off, on}
    Default = off
    MaxChecks = 2
    MaxUpdates = 0
    MaxPatches = 0
INVARIANT
    NotifiedWasSent
CHECK_DEADLOCK FALSE
