SPECIFICATION CSpec
CONSTANTS
    Chunk = {c1, c2}
    Context = {x1, x2}
    NoContext = NoContext
    Writer = {w1}
    Objects = {{c1}, {c1, c2}}
    PackTarget = 3
    MaxPuts = 3
    MaxFaults = 1
    Window = 3
    MaxPut = 1
    MaxPass = 1
    UseAssoc = FALSE
SYMMETRY Symmetry
CHECK_DEADLOCK FALSE
 
PROPERTY KeysSurvive
