CONSTANTS
    i1 = i1  i2 = i2  q1 = q1  e1 = e1  daily = daily  once = once
    Instance <- MCInstance
    Request <- MCRequest
    Edit <- MCEdit
    Rule <- MCRule
    Occurs <- MCOccurs
    Horizon = 2
    Grace = 0
    Lookahead = 1
    Postgres = TRUE
    MaxFaults = 1
    Enabled <- MCEnabled
    Nobody = Nobody
SPECIFICATION MCSpec
INVARIANTS NoDoubleClaim NotStranded OutcomeHonest AlertsBounded
PROPERTIES PausedStaysQuiet DueClaimed
CHECK_DEADLOCK FALSE
