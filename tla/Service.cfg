SPECIFICATION FairSpec
CONSTANTS
    c1 = c1
    c2 = c2
    Clients = {c1, c2}
    Loops = {l1}
    Ids = {i1}
    Objs = {m1}
    Receivers = {r1, r2}
    MaxSess = 1
    BufCap = 2
    Plans <- MCPlans
    None = None
INVARIANTS
    TypeOK
    SlotsAreReleased
    NothingLeftBehind
PROPERTIES
    CallsReturn
CHECK_DEADLOCK FALSE
