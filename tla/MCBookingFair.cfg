SPECIFICATION FairSpec
CONSTANTS
    Events = {e1}
    Seekers = {s1, s2}
    Requests = {r1, r2}
    Posts <- HerdPosts
    Changes <- DateChanges
    Operations = {"enroll", "cancel", "patch", "delete"}
    Unlimited = Unlimited
    Keep = Keep
    Closed = Closed
    MaxTime = 0
    MaxEnrollments = 2
INVARIANTS PatchPassesCheck
PROPERTIES EveryRequestEnds
