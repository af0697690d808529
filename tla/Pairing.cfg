SPECIFICATION FairSpec
CONSTANTS
    Proc = {p1, p2}
    Concurrent = FALSE
    Faults = TRUE
    Insistent = {p2}
    MaxWaiting = 2
INVARIANTS
    TypeOK
    OneIdentity
    UnusableIsTorn
    PairedIsTrusted
    PairedStaysUsable
PROPERTIES
    PairEnds
    KeepsIdentity
CHECK_DEADLOCK FALSE
