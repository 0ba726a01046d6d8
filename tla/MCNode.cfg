SPECIFICATION NodeSpec
SYMMETRY Symmetry
CONSTANTS
    NodePart = {"locks", "leader", "reaper", "feed", "hash", "bridge", "scope"}
    k1 = k1
    k2 = k2
    k3 = k3
    LkOwner = {k1, k2, k3}
    MountOf <- MCMountOf
    LkTable = {"flock", "plock"}
    MaxByte = 1
    MaxLkCalls = 3
    e1 = e1
    e2 = e2
    r1 = r1
    r2 = r2
    f1 = f1
    f2 = f2
    c1 = c1
    c2 = c2
    ElNode = {e1, e2}
    Ttl = 2
    MaxRev = 4
    LrNode = {r1, r2}
    LrTtl = 2
    MaxSession = 3
    CfNode = {f1, f2}
    MaxLsn = 2
    Closer = {c1, c2}
    FileMax = 2
    WriteLens = {1, 2}
    MaxHashOps = 3
    MaxCloses = 2
    ChunkLen <- MCChunkLen
    RefObjects <- MCRefObjects
    FileWrites <- MCFileWrites
    FileSizes = {3, 5}
    MlfsChunk = 4
    MaxFileOps = 2
    MaxRefPuts = 1
    MaxRbFaults = 1
    SpNode = {"m", "n"}
    SpOp = {"x", "y", "z"}
    SpAt <- MCSpAt
    SpRoot = "root"
    SpIno = {"d", "s"}
    SpParents <- MCSpParents
    MaxSpOps = 3
CHECK_DEADLOCK FALSE
INVARIANTS    HashSound  
