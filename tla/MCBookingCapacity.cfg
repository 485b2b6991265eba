SPECIFICATION Spec
CONSTANTS
    Events = {e1}
    Seekers = {s1, s2}
    Requests = {r1, r2}
    Posts <- HerdPosts
    Changes <- SeatChanges
    Operations = {"enroll", "patch"}
    Unlimited = Unlimited
    Keep = Keep
    Closed = Closed
    MaxTime = 0
    MaxEnrollments = 2
INVARIANTS CapacityRespected
