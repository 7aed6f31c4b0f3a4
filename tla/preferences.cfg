SPECIFICATION FairSpec
CONSTANTS
    ui = ui
    late = late
    p1 = p1
    p2 = p2
    Pref <- TwoPrefs
    Default <- UiPrefs
    Val = {"on", "off"}
    default = "off"
    Plugin <- TwoPlugins
    DiskFails = TRUE
INVARIANTS
    SettingsAreKept
PROPERTIES
    DurablePromise
    SetIsSaved
