SPECIFICATION WorkersSpec
CONSTANTS
    ChunkSizes = {1, 2}
    MaxQueuedSamples = 3
    MaxChunks = 4
    MaxTexts = 2
    Partials = {"a"}
    MaxPushes = 2
    MaxLines = 2
    MaxVolume = 4
    Percent = 50
    MaxCalls = 4
    None = None
    Emitters = {w1, w2}
    Calls <- SmallCalls
    MaxEmits = 1
    Downloads = {d1, d2}
    MaxRefreshes = 1
INVARIANTS
    NoAudioLostSilently
    OneOutcome
PROPERTIES
    SessionEnds
    FinishIsTruthful
    DuckingIsUndone
    EmitsReachTheBus
    PageFollowsItsWork
CHECK_DEADLOCK FALSE
