SPECIFICATION Spec
CONSTANTS
    Users = {run, page}
    Editors = {admin}
    Nobody = Nobody
    Data = {d1, d2}
    MaxUses = 2
    MaxRequests = 3
    MaxEdits = 2
    MaxBreaks = 1
    MaxRestarts = 1
INVARIANTS
    NoSessionLost
    ClientIsCurrent
    OnlyBreaksFail
    LocksAreReleased
CHECK_DEADLOCK FALSE
SYMMETRY Alike
