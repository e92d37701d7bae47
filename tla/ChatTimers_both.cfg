SPECIFICATION BothSpec

CONSTANTS
    i1 = i1
    i2 = i2
    p1 = p1
    p2 = p2
    Instance = {i1, i2}
    Timer = {1, 2}
    Parent = {p1}
    ParentOf <- OneParent
    Cancellable = {1}
    Limit = 10
    ClaimId = {1, 2}
    Postgres = TRUE
    MayFail = {"crash", "context", "redis"}
    SingleInstance = {i1}
    SplitParent = {p1, p2}
    SplitParentOf <- Split
    SplitCancellable = {1}
    SingleLimit = 1
    SingleClaimId = {1, 2, 3}
    SingleMayFail = {"context"}
    b1 = b1  b2 = b2  f1 = f1  f2 = f2  u1 = u1
    Delegation <- MCDelegation
    Background = {b1, b2}
    UserTurn = {u1}
    IssuerOf <- MCIssuerOf
    MaxAsync = 1
    MaxConcurrent = 1
    Nobody = Nobody
    MaxFaults = 1

INVARIANTS
    AtMostOnce
    StatusHonest
    SqliteSound
    CapacitySound
    

PROPERTIES
    ImplementsOneShot
    SqliteResolves
    DelegationsEnd

CHECK_DEADLOCK FALSE
