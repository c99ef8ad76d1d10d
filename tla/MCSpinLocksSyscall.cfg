SPECIFICATION Spec
CONSTANTS
    Thread = {t1, t2}
    Process = {p1, p2}
    Plain = {FS, CONSOLE}
    Irq = {TASKS, HEAP}
    Tasks = TASKS
    SyscallLocks = {FS}
    None = None
INVARIANT SpinsInterruptibly
