SPECIFICATION Spec
CONSTANTS
    None = None
    NoEmail = NoEmail
    Emails = {"p", "q"}
    Payloads <- MCPayloads
    Registrars = {r1, r2}
    Syncers = {s1}
    RequireApproval = TRUE
    MaxSubmits = 2
    MaxFaults = 1
    MaxReviews = 1
INVARIANTS
    AtMostTwoParticipants
CHECK_DEADLOCK FALSE
