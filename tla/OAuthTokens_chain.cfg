SPECIFICATION Spec
CONSTANTS
    r1 = r1
    r2 = r2
    c1 = c1
    c2 = c2
    read = read
    write = write
    Clients = {c1}
    Scopes = {read}
    Requests = {r1}
    MaxCodes = 1
    MaxTokens = 3
    Failures = FALSE
SYMMETRY Symmetry
CHECK_DEADLOCK FALSE
INVARIANT RevocationEndsTheChain
