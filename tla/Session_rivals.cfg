CONSTANTS
    a = a
    b = b
    c = c
    Nodes = {a, b, c}
    None = None
    kMaxPerFrame = 1
SPECIFICATION Spec
CONSTRAINT Rivals
INVARIANTS
    NoSceneWithoutTarget
    TargetsAgree
    HearsOnlyItsPeer
    NoUninvitedReceiver
PROPERTIES
    PinIsFirstCome
    RequestNotDropped
    ImplementsPairing
CHECK_DEADLOCK FALSE
