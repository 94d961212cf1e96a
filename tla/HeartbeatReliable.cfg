CONSTANTS
    Window = 2
    OfflineAfter = 5
    Interval = 2
    MaxSkew = 1
    MaxWait = 1
    MaxDelay = 1
    Reliable = TRUE
    MaxBeats = 2
    Horizon = 24
SPECIFICATION FairSpec
INVARIANTS
    StaysOnline
PROPERTIES
    AttemptEnds
CHECK_DEADLOCK FALSE
