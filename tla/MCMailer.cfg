SPECIFICATION FairSpec
CONSTANTS
    Enrollments = {e1, e2}
    Kinds = {"follow_up"}
    Workers = {w1, w2}
    Delay = 1
    Window = 1
    MaxTime = 1
    MaxCrashes = 1
    Nobody = Nobody
INVARIANTS MailInv MailsBounded SentWasMailed
PROPERTIES FollowUpClaimed
