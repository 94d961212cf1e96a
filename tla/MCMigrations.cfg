CONSTANTS
    i1 = i1  i2 = i2  i3 = i3
    Instances = {i1, i2, i3}
    Files = 3
    Repeatable = {1, 3}
    MaxInterruptions = 2
    None = None
SPECIFICATION FairSpec
INVARIANTS
    RecordedIffApplied
    ServingHasSchema
    NeverCommittedTwice
    IInv
PROPERTIES
    UpgradeSpec
    EveryInstanceServes
CHECK_DEADLOCK FALSE
