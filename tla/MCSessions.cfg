SPECIFICATION Spec
CONSTANTS
    Requests = {r1, r2}
    Tokens = {t1, t2, t3}
    Signups = {"facilitator"}
    Endpoints = {"update", "enroll", "retrieve"}
    Targets = {"own", "foreign", "missing", "unparsable"}
    AccessLifetime = 1
    RefreshLifetime = 1
    MaxTime = 1
    MaxEdits = 1
    NoToken = NoToken
SYMMETRY SessionSymmetry
INVARIANTS SessionInv
PROPERTIES ReplayIsRefused ServedIsEntitled RefusalsAreTrue
