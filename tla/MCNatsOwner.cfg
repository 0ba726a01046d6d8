SPECIFICATION Spec
CONSTANTS
    n1 = n1
    n2 = n2
    Node = {n1, n2}
    o1 = o1
    o2 = o2
    Op = {o1, o2}
    At <- MCAt
    NoNode = NoNode
    Nobody = Nobody
    TTL = 1
    Skew <- MCSkew
    MaxTime = 2
    MaxGen = 2
    MaxOps = 3
    MaxCrashes = 1
CHECK_DEADLOCK FALSE
INVARIANT CachesBehind
PROPERTY FencedSpec
