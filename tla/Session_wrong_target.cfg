CONSTANTS
    a = a
    b = b
    c = c
    Nodes = {a, b, c}
    None = None
    kMaxPerFrame = 1
SPECIFICATION Spec
CONSTRAINT Chain
INVARIANT SenderTargetsStore
CHECK_DEADLOCK FALSE
