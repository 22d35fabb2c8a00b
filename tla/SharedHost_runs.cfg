SPECIFICATION Spec
CONSTANTS
    db = db
    api = api
    s1 = s1
    s2 = s2
    Containers = {db, api}
    Specs = {s1, s2}
    SpecMaps <- OwnSpecs
    Versions = {old, new}
    Latest = new
    FirstPlans <- OfDatabase
    SecondPlans <- OfApi
    Hooked = {}
    Linked = {}
    MaxCommands = 2
VIEW Future
INVARIANTS
    MissingIsAccounted
    NothingLeftDown
    ImagesAsReported
