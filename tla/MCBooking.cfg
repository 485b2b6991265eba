SPECIFICATION Spec
CONSTANTS
    Events = {e1}
    Seekers = {s1, s2}
    Requests = {r1, r2, r3}
    Posts <- SmallPosts
    Changes <- SmallChanges
    Operations = {"enroll", "cancel", "patch", "delete"}
    Unlimited = Unlimited
    Keep = Keep
    Closed = Closed
    MaxTime = 1
    MaxEnrollments = 3
SYMMETRY SafetySymmetry
INVARIANTS TypeOK OneActivePerSeeker BookingInv EnrollmentHasEvent
PROPERTIES EnrollNeverOversells FullMeansFull CancelFreesOneSeat ImplementsLedger
