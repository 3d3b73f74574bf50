CONSTANT
    MaxTasks = 3
SPECIFICATION FairSpec
INVARIANTS
    TypeOK
    UpdatesLiveServices
    NothingLeftLive
PROPERTIES
    RemovedIsDestroyed
    QuitEnds
    ImplementsLifecycle
CHECK_DEADLOCK FALSE
