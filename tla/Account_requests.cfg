CONSTANTS
    r1 = r1
    r2 = r2
    r3 = r3
    a = a
    b = b
    Requests = {r1, r2, r3}
    MaxAttempts = 2
    Expiring = TRUE
    CodesPerSet = 1
    Limit = 2
    Passwords = {a, b}
    HistoryLimit = 1
    FirstTokens = 2
    Mixes <- AllMixes
    Failures = TRUE
SPECIFICATION Spec
SYMMETRY Symmetry
CHECK_DEADLOCK FALSE
INVARIANTS
    TypeOK
    LockedOnceCounted
    SessionsKept
    MfaKept
    ReplacedIsRemembered
