CONSTANTS
    a = a
    b = b
    c = c
    Nodes = {a, b}
    None = None
    kMaxPerFrame = 1
SPECIFICATION FairSpec
INVARIANTS
    TypeOK
    NoUseAfterFree
PROPERTY ScenesFollow
CHECK_DEADLOCK FALSE
