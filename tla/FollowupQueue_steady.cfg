SPECIFICATION FairSpec
CONSTANTS
    first = first
    m1 = m1
    m2 = m2
    m3 = m3
    m4 = m4
    o1 = o1
    o2 = o2
    o3 = o3
    room = room
    NoQueue = NoQueue
    Unkeyed = Unkeyed
    Unroutable = Unroutable
    Messages <- MCRepeat
    Objects <- MCObjects
    MessageId <- Redelivered
    TargetOf <- MixedTargets
    Modes <- BothModes
    DropPolicies <- RejectNew
    Caps <- Caps12
    MayClear = FALSE
    StaleChecks = FALSE
CHECK_DEADLOCK FALSE
INVARIANTS
    NothingLost
    IdleMeansEmpty
    OneDrain
PROPERTIES
    QueuedIsSettled
