SPECIFICATION ProgressSpec
CONSTANTS
    n1 = n1
    n2 = n2
    Node = {n1, n2}
    o1 = o1
    o3 = o3
    Op = {o1, o3}
    At <- MCAt
    NoNode = NoNode
    TTL = 1
    Skew <- MCSkew
    MaxTime = 3
    MaxGen = 3
    MaxCrashes = 1
    Slice = {1}
    Drain = {d1}
    GcSlice = {s1}
    WalkBatch = 2
    MaxGcTime = 2
    CacheBytes = 2
    CacheItems = 2
    BatchBudget = 2
    MaxBroken = 2
    MaxCrash = 1
    Window = 1
    MaxDown = 1
    Target = {t1, t2}
    Grace = {TRUE, FALSE}
    MaxDaemon = 3
    MaxFault = 3
CHECK_DEADLOCK FALSE
INVARIANT MountSound
PROPERTIES FencedSpec StaleLeaseDropped StagedDrains  IdleGoes
