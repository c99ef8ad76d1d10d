SPECIFICATION PartsSpec
CONSTANTS
    Maps = {"m1", "m2", "m3"}
    Ending <- MCEnding
    Pages <- MCPages
    DemoLength = 1
    PageTics = 0
    Tasks = {"t1"}
    Paths <- MCPaths
    Files <- MCFiles
    Sizes = {1, 2}
    Clusters = {1, 2, 3}
    RootSlots = 2
    Room = 1
    Ops = {"write", "create_dir", "remove_file", "remove", "rename"}
    Faults = {"data", "overwrite", "place", "unlink", "flush"}
    Sectors = {1, 2, 3}
    Tag <- MCTag
    Beside <- MCBeside
    Lines <- MCLines
    DoorIn5 = {3}
    MaxPlats = 1
    MaxCeilings = 2
    Memory = 2
    Wait = 1
    ZoneSize = 6
    MinFragment = 1
    Lumps = {"x", "y"}
    LumpLength <- MCLumpLength
    GameSizes = {1}
    Games <- MCGames
    MaxAmmo <- MCMaxAmmo
    BfgCells = 2
    Bottom = 2
    Inside = {"a", "b", "c"}
    OthersAt = {"begin"}
    BLOCK = 8
    HEADER = 0
    ITEM_HEADER = 1
    INTERIOR_ENTRY = 2
    HashSlots = 2
    MaxChanges = 2
    INITIAL_HEAP_SIZE = 16
    MIN_ALIGN = 2
    MIN_BLOCK_SIZE = 2
    Requests = {1, 4, 5}
INVARIANTS
    PartsTypeOK
    ChainsApart
    Accounted
    OthersSurvive
    NoDangling
    Revivable
    ZoneSound
    OwnersExact
    Armed
    
    FolderExact
    TreeSound
    HeapExact
    IntermissionPaired
    NotInterrupted
PROPERTIES OthersUnwritten TitleReturns
CHECK_DEADLOCK FALSE
