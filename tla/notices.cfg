SPECIFICATION FairSpec
CONSTANTS
    Popup = {1, 2, 3}
    Sizes <- Tall
    Throttles = {1, 2}
    Rounds = 3
    Plugin = {"qmon"}
    Window = {"w"}
    MaxEntries = 2
INVARIANTS
    PopupsAreSound
    UnloadedHasNoWindow
PROPERTIES
    PopupsGo
