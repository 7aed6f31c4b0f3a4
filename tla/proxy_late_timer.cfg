SPECIFICATION Spec
CONSTANTS
    Attempts = {a1}
    Handles = {h1}
    Types = {"none"}
    Volatile = FALSE
    MaxHosts = 1
    MaxRounds = 1
    MaxPieces = 2
    UiResolver = FALSE
    Immediate = TRUE
    Port80 = FALSE
    Schemes = {}
CHECK_DEADLOCK FALSE
INVARIANTS
    ToldOnce
