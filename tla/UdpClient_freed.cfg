CONSTANTS
    Retry = 2
    MaxPins = 2
SPECIFICATION Spec
INVARIANT ClientOutlivesCalls
CHECK_DEADLOCK FALSE
