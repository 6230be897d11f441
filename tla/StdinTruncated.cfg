SPECIFICATION SessionSpec
CONSTANTS
    Channels = {"out"}
    Sinks = {}
    BlockSizes = {1, 2}
    MaxIn = 2
    MaxOut = 0
    StdinQueueCapacity = 1
    MaxQueuedOutput = 1
    ReadBudget = 1
INVARIANTS
    CleanEndOfInput
CHECK_DEADLOCK FALSE
