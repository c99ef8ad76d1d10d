SPECIFICATION Spec
CONSTANTS
    Slots = 5
    Kernel = Kernel
    Space = {s1, s2}
    Word = {w1}
    None = None
    MaxWait = 1
    MaxId = 7
    Mortal = {"task"}
    TickInSwitch = FALSE
SYMMETRY Symmetry
INVARIANTS OnOwnStack OneRuns SpacesExact JoinersHaveThreads
PROPERTY DeadStayDead
CHECK_DEADLOCK FALSE
