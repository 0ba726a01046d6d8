SPECIFICATION LiveSpec
CONSTANTS
    Chunk = {c1, c2}
    Context = {x1, x2}
    NoContext = NoContext
    Writer = {w1}
    Objects = {{c1}, {c1, c2}}
    PackTarget = 2
    MaxPuts = 2
    MaxFaults = 1
    Window = 3
    MaxPut = 1
    MaxPass = 1
    UseAssoc = FALSE
CHECK_DEADLOCK FALSE
 
PROPERTY OrphansCollected
