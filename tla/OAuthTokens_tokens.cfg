SPECIFICATION Spec
CONSTANTS
    r1 = r1
    r2 = r2
    c1 = c1
    c2 = c2
    read = read
    write = write
    Clients = {c1, c2}
    Scopes = {read, write}
    Requests = {r1, r2}
    MaxCodes = 1
    MaxTokens = 3
    Failures = TRUE
SYMMETRY Symmetry
CHECK_DEADLOCK FALSE
INVARIANTS
    TypeOK
    ChainsLeadForward
    GrantNeverWidens
    WalkHasNoSuccessor
    SingleUseUnlessRaced
    RevokedIsTheLast
PROPERTY RowsOnlyAdvance
