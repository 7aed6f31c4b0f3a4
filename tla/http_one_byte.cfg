SPECIFICATION Spec
CONSTANTS
    Fetches = {f1}
    NoFetch = NoFetch
    Buf = 3
    Responses <- PlainServers
    Limits = {0}
    WithHeaders = {FALSE}
    Memory = 10
    OneByteTail = TRUE
CHECK_DEADLOCK FALSE
INVARIANT BodyIntact
