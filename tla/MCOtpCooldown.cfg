SPECIFICATION Spec
CONSTANTS
    Requests = {r1, r2}
    Codes = {c1}
    Operations = {"signup", "resend"}
    TTL = 5
    Cooldown = 1
    MaxAttempts = 2
    BrokerFails = FALSE
    MaxTime = 1
    MaxOtps = 3
INVARIANTS OneCodePerCooldown
