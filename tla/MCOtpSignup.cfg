SPECIFICATION Spec
CONSTANTS
    Requests = {r1, r2}
    Codes = {c1, c2}
    Operations = {"signup"}
    TTL = 2
    Cooldown = 1
    MaxAttempts = 2
    BrokerFails = FALSE
    MaxTime = 0
    MaxOtps = 2
INVARIANTS SignupAnswersAlike
