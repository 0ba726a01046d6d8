SPECIFICATION PgSpec
CONSTANTS
    Chunk = {c1, c2}
    Objects = {{c1}, {c1, c2}}
    Context = {x1, x2}
    NoContext = NoContext
    Writer = {w1, w2}
    Reclaimer = {r1}
    PackTarget = 2
    MaxPuts = 2
    MaxFaults = 0
INVARIANT ManifestsReadable
CHECK_DEADLOCK FALSE
