CONSTANTS
    Keys <- SomeKeys
    Buttons = {1}
    MaxInFlight = 2
    Breaks = FALSE
SPECIFICATION Spec
INVARIANT NothingStaysPressed
CHECK_DEADLOCK FALSE
