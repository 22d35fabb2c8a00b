SPECIFICATION Spec
CONSTANTS
    check = check
    update = update
    zone = zone
    urls = urls
    a = a
    b = b
    Keys = {check, update, zone, urls}
    Crontabs = {check, update}
    Zone = zone
    Values = {a, b}
    Requests = {p, q}
    Nobody = Nobody
    Changes <- SomeChanges
    MaxChanges = 3
    MaxRestarts = 1
INVARIANTS
    MemoryFollowsStored
    JobsFollowStored
CHECK_DEADLOCK FALSE
