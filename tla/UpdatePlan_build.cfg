SPECIFICATION FairSpec
CONSTANTS
    db = db
    api = api
    fe = fe
    ghost = ghost
    project = project
    database = database
    web = web
    Unset = Unset
    Containers = {db, api, fe}
    Names = {db, api, fe, ghost}
    Projects = {project}
    Services = {database, web}
    Inputs <- AllInputs
INVARIANTS
    PlanIsSound
    AffectedAreDependents
    DependenciesFirst
PROPERTIES
    PlanIsBuilt
