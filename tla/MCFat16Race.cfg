SPECIFICATION FatSpec
CONSTANTS
    Tasks = {"t1", "t2"}
    Paths <- MCPaths
    Files <- MCFiles
    Clusters = {1, 2}
    RootSlots = 2
    Room = 1
    Sizes = {1}
    Ops = {"write"}
    Faults = {}
INVARIANT ChainsApart
CHECK_DEADLOCK FALSE
