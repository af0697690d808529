SPECIFICATION Spec
CONSTANTS
    Name = {tv, box}
    V4 = {a, b}
    V6 = {six}
    Port = {p}
    MaxTimeout = 2
    MaxEvents = 3
    MaxTime = 3
INVARIANTS
    TypeOK
    InTime
    EveryAnswer
    LatestName
PROPERTIES
    Termination
CHECK_DEADLOCK FALSE
