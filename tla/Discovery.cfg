CONSTANTS
    Nodes = {a, b, c}
    Interval = 1
    Stale = 3
    Lossy = TRUE
    MaxStarts = 3
    MaxSteps = 1
SPECIFICATION Spec
SYMMETRY Symmetry
CONSTRAINT ThreeInBrief
INVARIANTS
    TypeOK
    VectorsAligned
    ListsWhatItHeard
    CandidatesCurrent
PROPERTY ImplementsMembership
CHECK_DEADLOCK FALSE
