SPECIFICATION ServicesSpec
CONSTANTS
    Configs = {A, B}
    NoProvider = NoProvider
    None = None
    Nobody = Nobody
    MaxRequests = 4
    Contexts = {C, D}
    Keys = {"trigger"}
    Modes = {"Hold", "Tap", "Both"}
    MaxEvents = 2
    MaxCrashes = 1
    MayTimeOut = TRUE
INVARIANTS
    LastRequestWins
    AbandonedIsNotRecorded
PROPERTIES
    RequestsAnswered
    SessionFollowsDaemon
CHECK_DEADLOCK FALSE
