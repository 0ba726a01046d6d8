SPECIFICATION Spec
CONSTANTS
    FilePart = {"data", "names"}
    f1 = f1
    f2 = f2
    File = {f1, f2}
    NoFile = NoFile
    ChunkSize = 3
    MaxLen = 6
    Writes <- MCWrites
    Sizes <- MCSizes
    Copies <- MCCopies
    SegMax = 2
    MaxOps = 3
    MaxCrashes = 2
    MaxFaults = 1
    na = na
    nb = nb
    Name = {na, nb}
    MaxIno = 4
    MaxRefs = 2
SYMMETRY Symmetry
CHECK_DEADLOCK FALSE
INVARIANTS FilesExact NamespaceSound 
