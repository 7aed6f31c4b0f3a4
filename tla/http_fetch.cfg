SPECIFICATION FairSpec
CONSTANTS
    Fetches = {f1}
    NoFetch = NoFetch
    Buf = 3
    Responses <- Servers
    Limits = {0, 4}
    WithHeaders = {TRUE, FALSE}
    Memory = 10
    OneByteTail = FALSE
CHECK_DEADLOCK FALSE
INVARIANTS
    FetchIsSound
    BodyIntact
PROPERTIES
    ContractsKept
    EveryFetchEnds
