SPECIFICATION Spec
CONSTANTS
    first = first
    m1 = m1
    m2 = m2
    m3 = m3
    m4 = m4
    o1 = o1
    o2 = o2
    o3 = o3
    room = room
    NoQueue = NoQueue
    Unkeyed = Unkeyed
    Unroutable = Unroutable
    Messages <- MCSome
    Objects <- MCManyObjects
    MessageId <- DistinctIds
    TargetOf <- MixedTargets
    Modes <- BothModes
    DropPolicies <- Overwriting
    Caps <- Caps12
    MayClear = TRUE
    StaleChecks = TRUE
CHECK_DEADLOCK FALSE
SYMMETRY Symmetry
INVARIANTS
    TypeOK
    AnsweredInOrder
    AnsweredOnce
    TurnsShareTarget
PROPERTIES
    CapHolds
