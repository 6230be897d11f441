SPECIFICATION UserSideSpec
CONSTANTS
    None = None
    Contexts = {i1, i2}
    NoContext = NoContext
    Files <- SomeFiles
    Bundled <- Shipped
    SceneForms <- SomeForms
    ProviderIds = {"p", "q"}
    AdapterIds = {"a", "b"}
    AsrIds = {"local", "cloud", "other"}
    Models = {"m"}
    MaxEdits = 2
    Threads = {"cli", "ui", "task", "daemon"}
    Processes = {"cli", "gui", "daemon"}
    ProcessOf <- Owners
    OneShot = {"cli"}
    Managed = {"gui"}
    ReadOnly = {"daemon"}
    MaxSaves = 3
    ConfigFiles <- OldConfigs
    ConfFiles <- OldConfs
    NoFile = NoFile
    Host = 5
    MaxRuns = 2
    MaxKills = 1
    MaxSeconds = 1
    LineCounts = {0, 1}
    MaxPendingEntries = 2
    MaxPendingBytes = 3
    TruncateInterval = 2
    MaxTexts = 5
    MaxDowns = 1
    Commands <- SomeCommands
    Worlds <- SomeWorlds
    Matches <- SomeMatches
    Results <- SomeResults
    Chars = {"/", "m", " "}
    PageSize = 2
    MaxQuery = 3
    Sources = {"a", "b"}
    Output <- SomeOutput
    WholeLines <- SomeWhole
    Json <- SomeJson
    BufferSize = 5
    CacheSize = 2
    Window = 2
    MaxChunk = 3
    MaxTime = 4
    Requests <- SomeRequests
    Answers <- SomeAnswers
    kMaxLlmMaxCandidates = 2
INVARIANTS
    SavedComesBack
    LoadIsFresh
    MigrationIsSafe
    HistoryIsFaithful
    MenusAreTruthful
    LinesBecomeNotifications
    PayloadSound
PROPERTIES
    EditsAreLocal
    ScriptsFollowConfig
CHECK_DEADLOCK FALSE
