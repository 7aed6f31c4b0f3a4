SPECIFICATION LibrarySpec
CHECK_DEADLOCK FALSE
CONSTANTS
    Instance = {"core"}
    Signal = {"s1", "s2"}
    Handle = {"qmon", "dialog"}
    Priority = {0, 1}
    MaxHandlerId = 3
    MaxHandlers = 2
    MaxSignalId = 2
    MaxDepth = 2
    Status = {"a", "b"}
    Title <- Titles
    Type = {"offline"}
    Offline = "offline"
    MaxTransients = 1
    Day = 1
    UsesThatCount = 1
    MaxTime = 2
    OldFiles <- Old
    Block = 4
    Word = 8
    Bits = 2
    DigestSize = 2
    KeyLens = {1, 4, 5}
    MaxBytes = 9
    BlockSize = 3
    Encipher <- Enc
    Decipher <- Dec
    DesKey <- DesKeys
    Iv <- Ivs
    Data <- Datas
    StreamSize = 4
    StreamKey <- Keys
    MaxStream = 4
    Cipher = {"c1", "c2", "c3"}
    Context = {"x1", "x2", "x3"}
    Builtin <- BI
    Hashes = {"md5"}
    Header = 4
    Lens = {0, 2}
    PasswordLens = {3, 15}
    Nonce = {"n1", "n2"}
    Node = {1, 2, 3, 4}
    Tag = {"t"}
    Attr = {"a"}
    Text <- Texts
    HtmlToken = {"div", "b", "font", "font_color", "a_http", "a_x", "body_bg", "lt", "x", "amp;", "td", "cdiv",
                 "cb", "cfont", "ca", "ctd", "space", "script", "cscript", "img", "br"}
    TextToken = {"http", "www", "ftp", "ftp_dot", "mailto", "w", "@", ".", ")", "(", "space", ",", "lt;", "anchor", "canchor"}
    MaxTokens = 4
    ThemeFile <- Files
    MinimumSize = 16
    ThemePath <- Paths3
    CopyOf <- Copies
    Version = {"v1", "v2"}
    MaxFileChanges = 1
    PopupWidth = {1, 4, 7}
    ItemWidth = {1, 2, 3, 8}
    Offset <- Columns
    Percent <- PerCent
    FormatChar = {"%", "backslash", "S", "z", "x"}
    MaxFormat = 4
    TokensOfEvent = {{"%"}, {"%", "S", "R"}}
    MaxText = 6
    Dots = 0
    Off = Off
    FormatFunctions <- AllFormats
    MessageToken <- Tokens
    Document <- Documents
    MessageOptions <- Opts
    MaxMessageTokens = 4
    MaxEdits = 3
    MaxCells = 5
    StatusType = {"offline", "online", "away"}
    TrayHeight = {12, 24, 40, 64}
    PluginFile = {"ua", "la", "b", "ldr", "scr", "home"}
    Meta <- PluginMeta
    SearchOrder <- SearchPaths
    OldDisks <- PluginDisks
    OldSaved <- SavedPlugins
    MayFail = {"la", "ldr"}
    MaxDiskChanges = 1
    MaxNotes = 1
    PrefPath <- PrefPaths
    PrefChange <- PrefChanges
    PrefMayConnect <- PrefConnects
    PrefForeign = {"v"}
    PrefHandle = {"prefs", "ui"}
    MaxCallbacks = 2
    MaxWalks = 2
    TableColumns = 4
    ColumnIndex <- SrColumns
    QueuePage <- QueuePages
    ReportOptions <- ReportTargets
    OtherDetails <- OtherDocuments
    Browser = {"gnome", "firefox", "custom, empty", "unknown"}
    BrowserPlace = {"default", "current"}
    MaxReportPopups = 2
INVARIANTS
    EmissionsAreSafe
    StatusesAreKept
    CiphersAreRight
    InUseIsAlive
    TreesSurvive
    TextSurvives
    FilesReadBack
    DrawnInside
    FormatsSurvive
    TrayIconIsTrue
    PluginsAreFound
    PrefsAreTold
    ReportsAreTrue
PROPERTIES
    ThemesComeBack
