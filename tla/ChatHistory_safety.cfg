CONSTANTS
    u1 = u1  a1 = a1  u2 = u2  a2 = a2  j1 = j1  j2 = j2
    User = {u1, u2}
    Assistant = {a1, a2}
    First <- MCFirst
    Turns <- MCTurns
    Job = {j1, j2}
    MaxRequests = 3
    MaxFailures = 1
    Null = Null
SPECIFICATION MCSpec
INVARIANTS TreeSound RowsSound
PROPERTIES DeletionSpares GapsHeal
CHECK_DEADLOCK FALSE
