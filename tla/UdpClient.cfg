CONSTANTS
    Retry = 2
    MaxPins = 2
SPECIFICATION FairSpec
INVARIANTS
    TypeOK
    PeerValidAtSend
    LockedClientLives
PROPERTIES
    CallsReturn
    Reconnects
    ImplementsClientUse
CHECK_DEADLOCK FALSE
