SPECIFICATION LiveSpec
CONSTANTS
    Chunk = {c1, c2}
    Objects = {{c1}, {c1, c2}}
    Context = {x1, x2}
    NoContext = NoContext
    Writer = {w1, w2}
    Reclaimer = {r1, r2}
    PackTarget = 2
    MaxPuts = 2
    MaxFaults = 1

CHECK_DEADLOCK FALSE
INVARIANTS ManifestsReadable VisibleEntriesExist OneReclaimerPerPack
PROPERTIES DeletedOnlyUnassociated MarksResolved
