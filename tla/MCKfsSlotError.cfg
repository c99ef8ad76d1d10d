SPECIFICATION Spec
CONSTANTS
    File = {f1, f2}
    Value = {v1, v2, tiny}
    Small = {tiny}
    None = None
    DataStart = 4
    TotalBlocks = 12
    SbSlots = 3
    Reserve = 1
    MaxTxg = 3
    MaxErrors = 1
    MaxOutages = 1
    Addr <- MCAddr
    Tearable <- MCTearable
    Garbage <- MCGarbage
    Faults <- SlotReadError
INVARIANT NewestInUse
SYMMETRY Symmetry
CHECK_DEADLOCK FALSE
