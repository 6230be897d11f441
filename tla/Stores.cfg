SPECIFICATION Spec
CONSTANTS
    Installers = {p, q}
    Removers = {r}
    NoDir = NoDir
    Ids = {"A", "B"}
    Versioned <- MCVersioned
    Hashed <- MCHashed
    Cli = {c}
    Gui = {g}
    MaxVersion = 2
    MaxOps = 3
    Pids = {1, 2}
    MaxStarts = 4
    Channels = {"out", "err"}
    Sinks = {"err"}
    BlockSizes = {1, 2}
    MaxIn = 2
    MaxOut = 2
    StdinQueueCapacity = 1
    MaxQueuedOutput = 1
    ReadBudget = 1
    MaxAudio = 2
    MaxPrint = 2
    PipeSize = 1
    Budget = 1
    MaxBatchLines = 1
INVARIANTS
    NoModelLost
    UpToDateIsTruthful
    OneInstance
    StreamsInOrder
    BatchIsTruthful
PROPERTIES
    CancelledIsGone
CHECK_DEADLOCK FALSE
