SPECIFICATION Spec
CONSTANTS
    Enrollments = {e1}
    Kinds = {"reminder"}
    Workers = {w1, w2}
    Delay = 1
    Window = 1
    MaxTime = 2
    MaxCrashes = 0
    Nobody = Nobody
INVARIANTS AtMostOnce
