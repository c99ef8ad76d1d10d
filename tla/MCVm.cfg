SPECIFICATION Spec
CONSTANTS
    s1 = s1
    s2 = s2
    file = file
    None = None
    Spaces = {s1, s2}
    Frames <- MCFrames
    Root = 2
    Span <- MCSpan
    LoaderPages <- MCLoader
    HeapBase = 2
    MmapBase = 3
    UserEnd = 6
    Capacity = 3
    Requests <- MCRequests
    Prots <- MCProts
    FilePages <- MCFilePages
    FixedPages <- MCFixed
    Touched <- MCTouched
    Stored <- MCStored
    Cloned = {FALSE}
VIEW View
INVARIANTS TypeOK Disjoint FramesExact RoomKept
PROPERTY Implements
CHECK_DEADLOCK FALSE
