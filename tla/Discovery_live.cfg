CONSTANTS
    Nodes = {a, b}
    Interval = 1
    Stale = 3
    Lossy = FALSE
    MaxStarts = 3
    MaxSteps = 0
SPECIFICATION FairSpec
PROPERTIES
    DepartedAreForgotten
    MutualDiscovery
CHECK_DEADLOCK FALSE
