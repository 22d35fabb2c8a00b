SPECIFICATION Spec
CONSTANTS
    MaxDigest = 3
    RowIds = {1}
    Settings = {off, on}
    Default = off
    MaxChecks = 3
    MaxUpdates = 1
    MaxPatches = 1
INVARIANTS
    FoundIsServed
    VerdictStands
    PatchKept
    ReportedOnce
CHECK_DEADLOCK FALSE
