SPECIFICATION FairSpec
CONSTANTS
    plain = plain
    lenient = lenient
    Recovery = Recovery
    NoFile = NoFile
    Deliveries <- OnlyPlain
    Payloads = 2
    BestEffort <- None
    Watched <- None
    MaxRetries = 3
    LoadSeesLive = TRUE
INVARIANTS
    NeverLost
PROPERTIES
    EveryEntrySettles
