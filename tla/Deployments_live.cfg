SPECIFICATION MCSpec

CONSTANTS
    t1 = t1
    t2 = t2
    t3 = t3
    s1 = s1
    s2 = s2
    i1 = i1
    i2 = i2
    chat = chat
    Task = {t1, t2, t3}
    ChatTask = {t1, t2}
    Stopper = {s1, s2}
    Instance <- MCInstance
    Sid <- MCSid
    Deployment <- MCDeployment
    MaxRetries = 1
    MaxCrashes = 1
    Nobody = Nobody
    MayFail = {"call", "save", "crash", "listener"}

INVARIANTS
    TablesHonest
    SweepsSound
    DisconnectCleans

PROPERTIES
    StopsEnd
    LeftoversReaped

CHECK_DEADLOCK FALSE
