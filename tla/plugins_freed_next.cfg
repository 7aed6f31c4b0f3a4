SPECIFICATION Spec
CONSTANTS
    lib = lib
    mid = mid
    app = app
    Plugin <- ThreePlugins
    Depends <- Diamond
    Rank <- ByName
    Failing <- BothKinds
    MaxElements = 3
CHECK_DEADLOCK FALSE
INVARIANT NextStillLinked
