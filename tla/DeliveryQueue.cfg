SPECIFICATION Spec
CONSTANTS
    plain = plain
    lenient = lenient
    Recovery = Recovery
    NoFile = NoFile
    Deliveries <- Both
    Payloads = 2
    BestEffort <- OnlyLenient
    Watched <- OnlyLenient
    MaxRetries = 2
    LoadSeesLive = FALSE
INVARIANTS
    TypeOK
    WriteAhead
PROPERTIES
    KeepsPromise
