SPECIFICATION FrontSpec
CONSTANTS
    Contexts = {A, B}
    Keys = {"trigger"}
    Modes = {"Hold"}
    Nobody = Nobody
    MaxEvents = 3
    MaxCrashes = 0
    MayTimeOut = FALSE
INVARIANTS HoldReleaseStops
CHECK_DEADLOCK FALSE
