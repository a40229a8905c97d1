CONSTANTS
    r1 = r1
    r2 = r2
    r3 = r3
    t1 = t1
    t2 = t2
    Requests = {r1, r2, r3}
    Rate = 2
    Threads = {h1, h2}
    Tenants = {t1, t2}
    Names = {n1, n2}
    Mixes <- AllMixes
    Failures = TRUE
SPECIFICATION Spec
SYMMETRY Symmetry
CHECK_DEADLOCK FALSE
INVARIANTS
    TypeOK
    WindowKept
    KeyedOnce
    TenantKept
    TrailKept
