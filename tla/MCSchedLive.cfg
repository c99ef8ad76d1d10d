SPECIFICATION Spec
CONSTANTS
    Slots = 4
    Kernel = Kernel
    Space = {s1}
    Word = {w1}
    None = None
    MaxWait = 2
    MaxId = 6
    Mortal = {"task"}
    TickInSwitch = FALSE
PROPERTIES EveryoneRuns TimeoutsEnd TheDeadAreReaped
CHECK_DEADLOCK FALSE
