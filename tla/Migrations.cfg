SPECIFICATION FairSpec
CONSTANTS
    r1 = r1
    r2 = r2
    r3 = r3
    Replicas = {r1, r2, r3}
    None = None
    Latest <- TwoReleases
    MaxFaults = 2
INVARIANTS
    AppliedOnceInOrder
    VersionTellsSchema
    ServesCompleteSchema
PROPERTIES
    DirtyNeedsAnOperator
    NewestServeOrDirty
