CONSTANTS
    Keys <- SomeKeys
    Buttons = {2, 4}
    MaxInFlight = 2
    Breaks = TRUE
SPECIFICATION Spec
CONSTRAINT FewAtOnce
INVARIANTS
    TypeOK
    ReceiverFollows
    KeysStayApart
PROPERTY ChordReleases
CHECK_DEADLOCK FALSE
