CONSTANTS
    Window = 2
    OfflineAfter = 3
    Interval = 1
    MaxSkew = 1
    MaxWait = 1
    MaxDelay = 6
    Reliable = FALSE
    MaxBeats = 2
    Horizon = 8
SPECIFICATION Spec
INVARIANTS
    OnlineMeansRecent
    IInv
CHECK_DEADLOCK FALSE
