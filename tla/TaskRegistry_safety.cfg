SPECIFICATION MCSpec

CONSTANTS
    i1 = i1
    i2 = i2
    t1 = t1
    t2 = t2
    chat = chat
    Instance = {i1, i2}
    Task = {t1, t2}
    Item = {chat}
    ItemOf <- SameItem
    ChatTask = {t1}
    MayFail = {"call", "save", "crash", "listener"}

INVARIANTS
    ItemSetInHash
    RunningStoppable
    CancelReachable
    NoLocalLeak

CHECK_DEADLOCK FALSE
SYMMETRY Symmetry
