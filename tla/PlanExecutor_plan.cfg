SPECIFICATION FairSpec
CONSTANTS
    db = db
    api = api
    Containers = {db, api}
    Specs = {s1, s2}
    Versions = {old, new}
    Latest = new
    Plans <- EveryShape
    Hooked = {db, api}
    Linked = {api}
INVARIANTS
    OnlyCurrentMissing
    UnsharedUpdatedRunsLatest
    RetaggedRollBackRunsOld
    BystandersUntouched
    DependentsDown
    VetoedStaysUp
    ReportMatchesHost
PROPERTIES
    EveryUpdatableSettled
    ImplementsHostUpdate
