SPECIFICATION SessionSpec
CONSTANTS
    Channels = {"out"}
    Sinks = {}
    BlockSizes = {1, 2}
    MaxIn = 1
    MaxOut = 2
    StdinQueueCapacity = 1
    MaxQueuedOutput = 1
    ReadBudget = 1
PROPERTIES
    NeverStuck
CHECK_DEADLOCK FALSE
