CONSTANTS
    f1 = f1  f2 = f2  k1 = k1  k2 = k2  t1 = t1  t2 = t2  j1 = j1  j2 = j2
    File = {f1, f2}
    Kb = {k1, k2}
    Text = {t1, t2}
    Job = {j1, j2}
    MaxRequests = 3
    MaxFaults = 1
    Nothing = Nothing
SPECIFICATION MCSpec
INVARIANTS Searchable FoundIsCurrent
PROPERTIES UploadResolves
CHECK_DEADLOCK FALSE
