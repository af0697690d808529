SPECIFICATION Spec
CONSTANT
    Incoming <- AnyMessage
INVARIANTS
    ActiveIsAgreed
    AgreedIsTold
CHECK_DEADLOCK FALSE
