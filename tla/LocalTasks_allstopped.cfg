SPECIFICATION LocalSpec

CONSTANTS
    Task = {t1, t2, t3}

    ChatTask = {t1, t2}
    Stopper = {s1}

INVARIANTS
    AllStopped

CHECK_DEADLOCK FALSE
