SPECIFICATION Spec
CONSTANTS
    first = first
    m1 = m1
    m2 = m2
    m3 = m3
    m4 = m4
    o1 = o1
    o2 = o2
    o3 = o3
    room = room
    NoQueue = NoQueue
    Unkeyed = Unkeyed
    Unroutable = Unroutable
    Messages <- MCSome
    Objects <- MCOneObject
    MessageId <- DistinctIds
    TargetOf <- OneTarget
    Modes <- CollectOnly
    DropPolicies <- Summarize
    Caps <- Caps1
    MayClear = FALSE
    StaleChecks = FALSE
CHECK_DEADLOCK FALSE
INVARIANTS
    NothingLost
