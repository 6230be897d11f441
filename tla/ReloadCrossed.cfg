SPECIFICATION Spec
CONSTANTS
    Configs = {A, B}
    NoProvider = NoProvider
    None = None
    MaxRequests = 2
INVARIANT MenuReflectsRuntime
CHECK_DEADLOCK FALSE
