SPECIFICATION Spec
CONSTANTS
    Proc = {p1, p2}
    Concurrent = TRUE
    Faults = FALSE
    Insistent = {}
    MaxWaiting = 0
SYMMETRY Invocations
INVARIANTS
    FirstPairWins
CHECK_DEADLOCK FALSE
