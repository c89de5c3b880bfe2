SPECIFICATION Spec
CONSTANTS
    plain = plain
    lenient = lenient
    Recovery = Recovery
    NoFile = NoFile
    Deliveries <- OnlyLenient
    Payloads = 2
    BestEffort <- OnlyLenient
    Watched <- OnlyLenient
    MaxRetries = 2
    LoadSeesLive = FALSE
INVARIANTS
    AckedMeansSent
