CONSTANTS
    Call <- MCCall
    Delegate <- MCDelegate
    Left <- MCLeft
    MaxRounds = 2
    MaxRetries = 2
    MaxItems = 2
    MaxStops = 2
    MaxFailures = 1
    d1 = d1  d2 = d2  c1 = c1  c2 = c2
    Device = {d1, d2}
    Caller = {c1, c2}
    MaxSessions = 2
    MaxCreated = 4
    Budget <- MCBudget
SPECIFICATION TurnSpec
INVARIANTS CallsSound ResultsKept EndsExplained RefreshSound LogoutFinal SessionsBounded TokenFound
SYMMETRY Symmetry
