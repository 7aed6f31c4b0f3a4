SPECIFICATION FairSpec
CONSTANTS
    Attempts = {a1, a2}
    Handles = {h1}
    Types = {"none", "http"}
    Volatile = FALSE
    MaxHosts = 1
    MaxRounds = 1
    MaxPieces = 2
    UiResolver = TRUE
    Immediate = FALSE
    Port80 = FALSE
    Schemes = {"ntlm"}
CHECK_DEADLOCK FALSE
INVARIANTS
    GrantedAsAsked
PROPERTIES
    PromiseKept
    EveryAttemptEnds
