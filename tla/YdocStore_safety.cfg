SPECIFICATION MCSpec

CONSTANTS
    s1 = s1
    s2 = s2
    s3 = s3
    e1 = e1
    e2 = e2
    e3 = e3
    Session = {s1, s2, s3}
    Edit = {e1, e2, e3}
    Author <- OneEach
    Threshold = 2
    Modes <- MCModes

INVARIANTS
    SameDocument
    UsersExact

PROPERTIES
    DropOnlyWhenEmpty

CHECK_DEADLOCK FALSE
