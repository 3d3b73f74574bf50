CONSTANTS
    Deltas <- SmallDeltas
    MaxPushes = 4
SPECIFICATION FairSpec
INVARIANTS
    TypeOK
    MotionConserved
    ReceiverEmulates
    ServiceOutlivesWorkers
PROPERTIES
    QuietAfterStop
    StopReturns
    MotionFlushed
CHECK_DEADLOCK FALSE
