----------------------------- MODULE SpinLocks -----------------------------
(***************************************************************************)
(* The kernel's two spinlocks (kernel/src/sync.rs) on one CPU: SpinLock,   *)
(* which leaves interrupts as they are, and IrqSpinLock, which keeps them  *)
(* off while it is held.  Kernel threads run with interrupts on and are    *)
(* preempted by the timer, whose handler takes TASKS; ring-3 tasks enter   *)
(* the kernel by system calls, which run with interrupts off throughout.   *)
(***************************************************************************)
EXTENDS Naturals, Sequences

CONSTANTS Thread,       \* kernel threads
          Process,      \* ring-3 tasks
          Plain,        \* the SpinLocks: FS, CONSOLE, SERIAL1, ...
          Irq,          \* the IrqSpinLocks: TASKS, HEAP, PMM, DISKS, ...
          Tasks,        \* task::TASKS, the one the timer interrupt takes
          SyscallLocks, \* the SpinLocks that system calls and page faults take
          None          \* no lock

Lock == Plain \cup Irq
Task == Thread \cup Process

ASSUME LockAssumption ==
    /\ Thread \cap Process = {}
    /\ Plain \cap Irq = {} /\ None \notin Lock
    /\ Tasks \in Irq
    /\ SyscallLocks \subseteq Plain

VARIABLES running,   \* the task that has the CPU
          enabled,   \* IF, the CPU's interrupt flag
          inKernel,  \* the tasks that are executing kernel code
          wants,     \* the lock each task is in lock() for
          guards,    \* the guards each task holds, the newest first
          locked     \* the locks whose flag is set

vars == <<running, enabled, inKernel, wants, guards, locked>>

Guard == [lock : Lock, restore_interrupts : BOOLEAN]
NoGuard == [lock |-> None, restore_interrupts |-> FALSE]

Held(t) == {guards[t][i].lock : i \in DOMAIN guards[t]}

Between(t) == running = t /\ t \in inKernel /\ wants[t] = NoGuard

(* A plausible bug: a SpinLock (say the console's) under an IrqSpinLock. *)
NestsAnyhow(t, l) == l \notin Held(t) /\ (l = Tasks => Held(t) \subseteq Plain)
(* How the kernel's critical sections nest: an IrqSpinLock under a         *)
(* SpinLock (a file operation allocates) or under another, TASKS outermost *)
(* (reaping a task frees its stack).  A SpinLock is taken under no lock by *)
(* a kernel thread, but under vm's REGIONS by a ring-3 task's page fault.  *)
Nests(t, l) ==
    /\ l \notin Held(t)
    /\ l \in Plain =>
          IF t \in Process THEN l \in SyscallLocks /\ Held(t) \cap Plain = {}
          ELSE Held(t) = {}
    /\ l = Tasks => Held(t) \subseteq Plain

-----------------------------------------------------------------------------
(* A plausible bug: lock() clears the flag and the guard forgets it. *)
EnterForgets(t, l) ==
    /\ Between(t) /\ Nests(t, l)
    /\ wants' = [wants EXCEPT ![t] = [lock |-> l, restore_interrupts |-> FALSE]]
    /\ enabled' = (enabled /\ l \notin Irq)
    /\ UNCHANGED <<running, inKernel, guards, locked>>

(* lock() up to its loop: IrqSpinLock's notes the flag, then clears it. *)
Enter(t, l) ==
    /\ Between(t)
    /\ Nests(t, l)
    /\ wants' = [wants EXCEPT ![t] = [lock |-> l, restore_interrupts |-> l \in Irq /\ enabled]]
    /\ enabled' = (enabled /\ l \notin Irq)
    /\ UNCHANGED <<running, inKernel, guards, locked>>

(* A plausible bug: the flag is set, whoever has set it already. *)
AcquireAnyhow(t) ==
    /\ running = t /\ wants[t] # NoGuard
    /\ locked' = locked \cup {wants[t].lock}
    /\ guards' = [guards EXCEPT ![t] = <<wants[t]>> \o @]
    /\ wants' = [wants EXCEPT ![t] = NoGuard]
    /\ UNCHANGED <<running, enabled, inKernel>>

(* The compare-exchange that succeeds; until one does, the task spins. *)
Acquire(t) ==
    /\ running = t /\ wants[t] # NoGuard
    /\ wants[t].lock \notin locked
    /\ locked' = locked \cup {wants[t].lock}
    /\ guards' = [guards EXCEPT ![t] = <<wants[t]>> \o @]
    /\ wants' = [wants EXCEPT ![t] = NoGuard]
    /\ UNCHANGED <<running, enabled, inKernel>>

(* A plausible bug: the drop of any IrqSpinLock's guard turns interrupts on. *)
DropEnables(t) ==
    /\ Between(t) /\ guards[t] # <<>>
    /\ locked' = locked \ {Head(guards[t]).lock}
    /\ enabled' = (enabled \/ Head(guards[t]).lock \in Irq)
    /\ guards' = [guards EXCEPT ![t] = Tail(@)]
    /\ UNCHANGED <<running, inKernel, wants>>

(* The drop of the newest guard. *)
Drop(t) ==
    /\ Between(t) /\ guards[t] # <<>>
    /\ locked' = locked \ {Head(guards[t]).lock}
    /\ enabled' = (enabled \/ Head(guards[t]).restore_interrupts)
    /\ guards' = [guards EXCEPT ![t] = Tail(@)]
    /\ UNCHANGED <<running, inKernel, wants>>

(* The entry of a system call clears the flag, the return to ring 3 sets it. *)
Syscall(t) ==
    /\ running = t /\ t \in Process \ inKernel
    /\ inKernel' = inKernel \cup {t}
    /\ enabled' = FALSE
    /\ UNCHANGED <<running, wants, guards, locked>>

Return(t) ==
    /\ Between(t) /\ t \in Process /\ guards[t] = <<>>
    /\ inKernel' = inKernel \ {t}
    /\ enabled' = TRUE
    /\ UNCHANGED <<running, wants, guards, locked>>

(* A switch to task t.  A system call that slept goes on with the flag     *)
(* clear; every other task was running with it set.                        *)
SwitchTo(t) == running' = t /\ enabled' = (t \notin Process \cap inKernel)

(* The timer interrupt: its handler's schedule() takes TASKS and lets go   *)
(* of it.  Were TASKS locked, it would spin for ever.                      *)
Tick ==
    /\ enabled
    /\ Tasks \notin locked
    /\ \E t \in Task : SwitchTo(t)
    /\ UNCHANGED <<inKernel, wants, guards, locked>>

(* yield_now, sleep_until and futex_wait, which hold no guard and restore  *)
(* the flag of the task that called them when it resumes.                  *)
Sleep(t) ==
    /\ Between(t) /\ guards[t] = <<>>
    /\ Tasks \notin locked
    /\ \E other \in Task : SwitchTo(other)
    /\ UNCHANGED <<inKernel, wants, guards, locked>>

-----------------------------------------------------------------------------
Init ==
    /\ running \in Thread
    /\ enabled = TRUE
    /\ inKernel = Thread
    /\ wants = [t \in Task |-> NoGuard]
    /\ guards = [t \in Task |-> <<>>]
    /\ locked = {}

Step(t) ==
    \/ Acquire(t) \/ Drop(t) \/ Syscall(t) \/ Return(t) \/ Sleep(t)
    \/ \E l \in Lock : Enter(t, l)

Next == Tick \/ \E t \in Task : Step(t)

Spec == Init /\ [][Next]_vars

-----------------------------------------------------------------------------
(* The lock state is what sync.rs declares it to be, and a lock is a thing *)
(* of the kernel: no task waits for one, or has one, in ring 3.            *)
TypeOK ==
    /\ running \in Task /\ enabled \in BOOLEAN /\ inKernel \subseteq Task
    /\ wants \in [Task -> Guard \cup {NoGuard}]
    /\ guards \in [Task -> Seq(Guard)]
    /\ \A t \in Task \ inKernel : wants[t] = NoGuard /\ guards[t] = <<>>
    /\ locked \subseteq Lock

(* An interrupt never finds an IrqSpinLock locked, however the critical    *)
(* sections nest, so its handler never spins on TASKS.                     *)
InterruptSafe == enabled => locked \cap Irq = {}

(* A task that spins can be interrupted, unless it is a system call that   *)
(* takes one of the SpinLocks such calls take.  Whoever has the lock is    *)
(* another task and waits for no lock itself, so it lets go of it once it  *)
(* runs.                                                                   *)
OnlySyscallsHang ==
    LET l == wants[running].lock
    IN  wants[running] # NoGuard /\ l \in locked =>
            /\ enabled \/ (running \in Process /\ l \in SyscallLocks)
            /\ \A t \in Task : l \in Held(t) => t # running /\ wants[t] = NoGuard

(* A task that spins can be interrupted: whoever has the lock gets to run  *)
(* and to let go of it.  With the flag clear the machine would hang.       *)
SpinsInterruptibly == wants[running] # NoGuard /\ wants[running].lock \in locked => enabled

(* A task that holds no guard has its interrupts back: the guards together *)
(* restore the flag the first of them saw, never more and never less.      *)
FlagRestored ==
    (\A t \in {running} : wants[t] = NoGuard /\ Held(t) \subseteq Plain)
        => enabled = (running \notin Process \cap inKernel)

(* Each lock that is locked has one guard, and no task owns a guard of an  *)
(* IrqSpinLock while another one runs.                                     *)
OneGuard ==
    /\ locked = UNION {Held(t) : t \in Task}
    /\ \A t, u \in Task : t # u => Held(t) \cap Held(u) = {}
    /\ \A t \in Task \ {running} : Held(t) \cap Irq = {}
=============================================================================
