SPECIFICATION Spec
CONSTANTS
    t1 = t1
    t2 = t2
    Tabs = {t1, t2}
    Pages = {p1, p2}
    TabOf <- PagesOfOne
    RefreshLife = 2
    MaxTime = 2
    MaxLogins = 2
    MaxPages = 2
    MaxRestarts = 1
INVARIANTS
    PairIsOne
    LogoutHolds
PROPERTIES
    NoNeedlessLogin
SYMMETRY Alike
CHECK_DEADLOCK FALSE
