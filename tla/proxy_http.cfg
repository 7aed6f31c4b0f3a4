SPECIFICATION Spec
CONSTANTS
    Attempts = {a1, a2}
    Handles = {h1}
    Types = {"none", "http", "socks4", "socks5"}
    Volatile = FALSE
    MaxHosts = 2
    MaxRounds = 1
    MaxPieces = 2
    UiResolver = TRUE
    Immediate = TRUE
    Port80 = FALSE
    Schemes = {"ntlm", "basic"}
CHECK_DEADLOCK FALSE
SYMMETRY AttemptSymmetry
INVARIANTS
    TypeOK
    NothingLeaks
    RouteIsKept
