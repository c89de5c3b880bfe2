SPECIFICATION RunLoopSpec
CONSTANTS
    session = session
    main = main
    a = a
    b = b
    c = c
    NoEntry = NoEntry
    Entries <- MCEntries
    Lanes <- MCLanes
    LaneOf <- MCLaneOf
    ConfiguredLanes <- MCConfigured
    MaxConfigured = 1
    MaxGeneration = 2
    SignalPhases <- AnyPhase
    MaxRestarts = 2
CHECK_DEADLOCK FALSE
INVARIANTS
    ServingAcceptsWork
