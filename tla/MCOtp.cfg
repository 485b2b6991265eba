SPECIFICATION Spec
CONSTANTS
    Requests = {r1, r2}
    Codes = {c1, c2}
    Operations = {"signup", "resend", "verify"}
    TTL = 1
    Cooldown = 2
    MaxAttempts = 2
    BrokerFails = TRUE
    MaxTime = 2
    MaxOtps = 3
SYMMETRY OtpSymmetry
INVARIANTS OtpInv GuessesCounted AccountHasCode MailedCodeExists ResendsThrottled
PROPERTIES ImplementsOneTimeCode
