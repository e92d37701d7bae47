CONSTANTS
    Call <- MCCall
    Delegate <- MCDelegate
    Left <- MCLeft
    MaxRounds = 2
    MaxRetries = 2
    MaxItems = 2
    MaxStops = 2
    MaxFailures = 1
SPECIFICATION Spec
INVARIANT FailuresSaid
