SPECIFICATION FairSpec
CONSTANTS
    Enrollments = {e1}
    Kinds = {"follow_up"}
    Workers = {w1, w2}
    Delay = 1
    Window = 1
    MaxTime = 1
    MaxCrashes = 0
    Nobody = Nobody
PROPERTIES FailedSendRetried
