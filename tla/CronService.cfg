SPECIFICATION Spec
CONSTANTS
    once = once
    daily = daily
    hourly = hourly
    None = None
    Jobs = {once, daily, hourly}
    Kind <- MCKind
    At <- MCAt
    Period = 2
    Stored = {{once, daily}, {hourly}}
    Untimed = {}
    Timeout = 1
    StuckAfter = 1
    Backoff = 1
    MaxAttempts = 1
    Concurrency = 1
    Outcomes = {"ok", "transient"}
    MaxNow = 3
    MaxEvents = 2
    MaxJobs = 2
CHECK_DEADLOCK FALSE
INVARIANTS
    TypeOK
    OneRunAtATime
    MarkerIsBacked
    SchedulerLives
PROPERTIES
    ResultsAreKept
    SlotsAreRun
    OneShotOnce
