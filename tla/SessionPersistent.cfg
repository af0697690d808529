SPECIFICATION Spec
CONSTANTS
    Commands <- OnCommands
    Chat <- PoliteChat
    POWER_ON_ATTEMPTS = 3
    KEY_INJECT_GRACE = 1
    KEY_INTERVAL = 1
    SEND_SETTLE = 1
    POWER_ON_RETRY_BACKOFF = 1
    WOL_WAIT = 2
    CONNECT_TIMEOUT = 1
    READ_TIMEOUT = 2
    CONFIRM_TIMEOUT = 2
    CONFIRM_DEADLINE = 3
    POLL_TIMEOUT = 1
    POLL_PAUSE = 1
    Faults = FALSE
    SlowTV = FALSE
    Babble = FALSE
    MaxHello = 1
    MaxFragments = 0
    MaxInbox = 2
    Rate = 1
    MaxDrops = 2
    MaxOutside = 0
    EarlyWindow = 1
INVARIANTS
    PersistentOn
