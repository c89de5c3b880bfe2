SPECIFICATION Spec
CONSTANTS
    main = main
    nested = nested
    a = a
    b = b
    c = c
    d = d
    NoEntry = NoEntry
    Entries <- MCEntries
    Lanes <- MCLanes
    LaneOf <- MCLaneOf
    ConfiguredLanes <- MCLanes
    MaxConfigured = 2
    MaxGeneration = 1
SYMMETRY Symmetry
INVARIANTS
    TypeOK
    WorkConserving
    SlotsMatchRunning
    PendingIsHeld
    FirstInFirstOut
