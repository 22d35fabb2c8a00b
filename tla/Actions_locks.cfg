SPECIFICATION FairSpec
CONSTANTS
    Runs = {r1, r2}
    Hosts = {h1}
    Containers = {c1}
    Capacity = 2
    Outlasts = TRUE
INVARIANTS
    OneRunPerKey
    WorkIsShown
    NoOrphanRecord
PROPERTIES
    LocksAreFreed
