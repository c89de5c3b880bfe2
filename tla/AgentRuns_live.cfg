SPECIFICATION LiveSpec
CONSTANTS
    here = here
    there = there
    main = main
    a = a
    b = b
    c = c
    ta = ta
    tb = tb
    tc = tc
    NoEntry = NoEntry
    Entries <- MCEntries
    Runs <- MCRuns
    TurnOf <- MCTurnOf
    Lanes <- MCLanes
    LaneOf <- MCLaneOf
    ConfiguredLanes <- NoLanes
    MaxConfigured = 1
    MaxGeneration = 1
    SignalPhases <- ServingPhase
    MaxRestarts = 1
CHECK_DEADLOCK FALSE
PROPERTIES
    ShutdownEnds
    AcceptsWorkAgain
    RunsEnd
INVARIANTS
    OneTurnPerSession
