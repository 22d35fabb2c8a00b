SPECIFICATION PoolFairSpec
CONSTANTS
    Clients = {updater}
    MaxCalls = 3
    Containers = {api}
    Operations = {"stop", "remove", "create"}
    Threads = 2
INVARIANTS
    AnswersAreFinal
    ReorderedOnlyAfterTimeout
    LateEffectsBounded
PROPERTY
    EveryRequestEnds
CHECK_DEADLOCK FALSE
