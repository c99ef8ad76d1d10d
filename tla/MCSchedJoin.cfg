SPECIFICATION Spec
CONSTANTS
    Slots = 4
    Kernel = Kernel
    Space = {s1, s2}
    Word = {w1}
    None = None
    MaxWait = 1
    MaxId = 5
    Mortal = {"task", "thread"}
    TickInSwitch = FALSE
SYMMETRY Symmetry
INVARIANT JoinersHaveThreads
CHECK_DEADLOCK FALSE
