SPECIFICATION Spec
CONSTANTS
    BASE = 2
    GROUPS = 3
    MAX_FRAME = 5
    Bodies <- SomeBodies
    Decodable <- DecodableBodies
    MaxMessages = 2
    MaxNoise = 2
INVARIANTS
    TypeOK
    InOrder
    RefusedForCause
PROPERTIES
    KeepsMessages
CHECK_DEADLOCK FALSE
