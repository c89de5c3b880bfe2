SPECIFICATION Spec
CONSTANTS
    a = a
    b = b
    c = c
    gateway = gateway
    cli = cli
    None = None
    Tasks = {a, b, c}
    Procs = {gateway, cli}
    ProcOf <- MCProcOf
    Gateways = {gateway}
    Pids = {1, 2}
    FirstPid <- MCFirstPid
    MaxFaults = 1
INVARIANTS
    TypeOK
    HolderCount
    Exclusion
PROPERTIES
    NotUsurped
    CondemnsNoLock
    DeadFileGoes
