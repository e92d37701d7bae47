CONSTANTS
    d1 = d1  d2 = d2  c1 = c1  c2 = c2
    Device = {d1, d2}
    Caller = {c1, c2}
    MaxSessions = 2
    MaxCreated = 5
    Budget <- MCBudget
SPECIFICATION OAuthSpec
INVARIANT RefreshProtected
