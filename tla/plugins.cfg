SPECIFICATION FairSpec
CONSTANTS
    lib = lib
    mid = mid
    app = app
    Plugin <- ThreePlugins
    Depends <- Diamond
    Rank <- ByName
    Failing <- OneKind
    MaxElements = 4
CHECK_DEADLOCK FALSE
INVARIANTS
    PluginsAreConsistent
    NextStillLinked
PROPERTY CallsReturn
