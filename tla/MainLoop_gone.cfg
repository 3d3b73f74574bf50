CONSTANT
    MaxTasks = 3
SPECIFICATION Spec
INVARIANT AnnouncesDeparture
CHECK_DEADLOCK FALSE
