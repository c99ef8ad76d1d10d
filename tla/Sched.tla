------------------------------- MODULE Sched -------------------------------
(***************************************************************************)
(* The scheduler (kernel/src/task.rs): the task table, the round-robin     *)
(* schedule() with its timeouts and its reaping sweep, futexes, thread     *)
(* and process exit, and kill, on one CPU with a timer interrupt.          *)
(*                                                                         *)
(* A system call runs with interrupts off, so what a ring-3 task asks of   *)
(* the kernel is one step.  A kernel thread runs with interrupts on: what  *)
(* it does outside with_interrupts_off and outside the TASKS lock can be   *)
(* interrupted, and its exit is three steps.                               *)
(***************************************************************************)
EXTENDS Naturals, FiniteSets

CONSTANTS Slots,        \* MAX_TASKS
          Kernel,       \* KERNEL_CR3, the address space of kernel threads
          Space,        \* the private address spaces of ring-3 tasks
          Word,         \* user addresses of futex words
          None,         \* Rust's None
          MaxWait,      \* bound: ticks a wait may be given
          MaxId,        \* bound: tasks created since boot
          Mortal,       \* the kinds of task the shell's kill is given
          TickInSwitch  \* whether a tick may come while task_exit's schedule
                        \* has let go of TASKS and has not switched yet

Slot == 0 .. Slots - 1
ShellId == 0
IdleId == 1
IDLE_SLOT == 1

(* "exit": a kernel thread has marked itself Terminated; "switch": it has  *)
(* chosen who is next; "halt": task_exit's loop, when nobody was.          *)
Place == {"run", "exit", "switch", "halt"}

State == {"Ready", "Running", "Blocked", "Terminated"}

(* saved is the task whose stack the saved context is on; wait is how many *)
(* ticks away wait_deadline is; tid is child_tidptr.                       *)
Task(waits) ==
    [id : Nat, state : State, saved : Nat, cr3 : Space \cup {Kernel},
     addr : Word \cup {None}, wait : waits \cup {None},
     timedOut : BOOLEAN, tid : Word \cup {None}]

ASSUME SchedAssumption ==
    /\ Slots \in Nat /\ Slots >= 2
    /\ MaxWait \in Nat /\ MaxId \in Nat /\ MaxId >= 2
    /\ Kernel \notin Space
    /\ None \notin Nat /\ None \notin Word /\ None \notin Task(0 .. MaxWait)
    /\ Mortal \subseteq {"idle", "thread", "task"}
    /\ TickInSwitch \in BOOLEAN

VARIABLES tasks,    \* TASKS
          current,  \* CURRENT
          stack,    \* id of the task whose stack the CPU is on
          cr3,      \* the address space loaded
          pc,       \* where the running task is: see Place
          built,    \* the private address spaces that exist
          word,     \* the futex words of each space: 1 while a thread's tid is in it
          nextId,   \* NEXT_ID
          orphans   \* history: the address spaces of programs that were not started

vars == <<tasks, current, stack, cr3, pc, built, word, nextId, orphans>>

NewTask(i, space, w) ==
    [id |-> i, state |-> "Ready", saved |-> i, cr3 |-> space, addr |-> None,
     wait |-> None, timedOut |-> FALSE, tid |-> w]

Is(t, st) == t # None /\ t.state = st
Present(T) == {s \in Slot : T[s] # None}
In(T, st) == {s \in Slot : Is(T[s], st)}
Me == tasks[current]

-----------------------------------------------------------------------------
(* schedule(), in the order it does things.                                *)

(* A plausible bug: a sleep, which has no futex address, is not looked at. *)
ExpiredFutexes(T) ==
    [s \in Slot |-> IF Is(T[s], "Blocked") /\ T[s].wait = 0 /\ T[s].addr # None
                    THEN [T[s] EXCEPT !.state = "Ready", !.addr = None,
                                      !.wait = None, !.timedOut = TRUE]
                    ELSE T[s]]
Expired(T) ==
    [s \in Slot |-> IF Is(T[s], "Blocked") /\ T[s].wait = 0
                    THEN [T[s] EXCEPT !.state = "Ready", !.addr = None,
                                      !.wait = None, !.timedOut = TRUE]
                    ELSE T[s]]

Doomed(T) == In(T, "Terminated") \ {current}
(* A plausible bug: the sweep ends at the current slot where it skips it. *)
ReapedBelow(T) ==
    [s \in Slot |-> IF Is(T[s], "Terminated") /\ s < current THEN None ELSE T[s]]
Reaped(T) ==
    [s \in Slot |-> IF Is(T[s], "Terminated") /\ s # current THEN None ELSE T[s]]

(* The sweep goes through the slots in order and asks, of each task it     *)
(* reaps, whether a slot not yet cleared still has its address space.      *)
(* A plausible bug: tasks reaped in one sweep keep each other's space. *)
LastBefore(T, s) == \A r \in Present(T) \ {s} : T[r].cr3 # T[s].cr3
LastOut(T, s) ==
    \A r \in Present(T) \ {s} : T[r].cr3 = T[s].cr3 => r \in Doomed(T) /\ r < s
Destroyed(T) == {T[s].cr3 : s \in {r \in Doomed(T) : LastOut(T, r)}} \ {Kernel}

(* How long after the current slot the round robin comes to slot s. *)
(* A plausible bug: the search starts at slot 0 every time. *)
FromZero(s) == s
Turn(s) == (s + Slots - current - 1) % Slots
Eligible(T) == In(T, "Ready") \cup (In(T, "Running") \cap {current})
(* Plausible bugs: nobody runs in place of a task that cannot go on; the   *)
(* idle task takes its turn like any other.                                *)
PickedOrStay(T) ==
    LET able == Eligible(T) \ {IDLE_SLOT} IN
    IF able # {} THEN CHOOSE s \in able : \A r \in able : Turn(s) <= Turn(r)
    ELSE current
PickedAny(T) ==
    LET able == Eligible(T) IN
    IF able # {} THEN CHOOSE s \in able : \A r \in able : Turn(s) <= Turn(r)
    ELSE current
Picked(T) ==
    LET able == Eligible(T) \ {IDLE_SLOT} IN
    IF able # {} THEN CHOOSE s \in able : \A r \in able : Turn(s) <= Turn(r)
    ELSE IF T[IDLE_SLOT] # None THEN IDLE_SLOT ELSE current

Preempted(t) == IF t.state = "Running" THEN [t EXCEPT !.state = "Ready"] ELSE t

(* The table once s has been chosen from T, once the context of the        *)
(* current task has been saved, and once s is running: if it was in        *)
(* block_until, it takes its reason for waking with it.                    *)
Chosen(T, s) ==
    IF s = current THEN T
    ELSE [T EXCEPT ![current] = Preempted(@), ![s].state = "Running"]
(* A plausible bug: the context is saved in the slot of the next task. *)
SavedInNext(T, s) == IF s = current THEN T ELSE [T EXCEPT ![s].saved = stack]
Switched(T, s) == IF s = current THEN T ELSE [T EXCEPT ![current].saved = stack]
Resumed(T, s) == [T EXCEPT ![s].timedOut = FALSE]

(* All of schedule(), from a table the caller has just changed to T.  The  *)
(* caller goes on at `here' if there is nobody else to run.                *)
Schedule(T, here) ==
    \E ready \in {Expired(T)} : \E left \in {Reaped(ready)} : \E next \in {Picked(left)} :
        /\ built' = built \ Destroyed(ready)
        /\ tasks' = Resumed(Switched(Chosen(left, next), next), next)
        /\ current' = next
        /\ IF next = current
           THEN pc' = here /\ UNCHANGED <<stack, cr3>>
           ELSE pc' = "run" /\ stack' = left[next].saved /\ cr3' = left[next].cr3

-----------------------------------------------------------------------------
(* The timer interrupt: one tick, and a preemption point.                  *)

TickedDown(T) ==
    [s \in Slot |-> IF T[s] # None /\ T[s].wait \in Nat \ {0}
                    THEN [T[s] EXCEPT !.wait = @ - 1] ELSE T[s]]

Interruptible ==
    \/ pc \in {"run", "exit"}
    \/ pc = "switch" /\ TickInSwitch
    \/ pc = "halt" /\ cr3 = Kernel

Tick ==
    /\ Interruptible
    /\ Schedule(TickedDown(tasks), pc)
    /\ UNCHANGED <<word, nextId, orphans>>

-----------------------------------------------------------------------------
(* What the running task may do.  The idle task only halts.                *)

User == pc = "run" /\ Me.cr3 # Kernel
KernelThread == pc = "run" /\ Me.cr3 = Kernel /\ Me.id # IdleId

(* Every spawn takes the first free slot, and fails if there is none. *)
Spawn(T, space, w) ==
    /\ nextId < MaxId
    /\ \E s \in Slot \ Present(T) :
          /\ \A r \in Slot \ Present(T) : s <= r
          /\ tasks' = [T EXCEPT ![s] = NewTask(nextId, space, w)]
    /\ nextId' = nextId + 1
    /\ UNCHANGED <<current, stack, cr3, pc>>

SpawnKernel ==
    KernelThread /\ Spawn(tasks, Kernel, None) /\ UNCHANGED <<built, word, orphans>>

(* The loader has just built the address space it hands over. *)
SpawnUser(space) ==
    /\ KernelThread
    /\ space \notin built
    /\ Spawn(tasks, space, None)
    /\ built' = built \cup {space}
    /\ word' = [word EXCEPT ![space] = [w \in Word |-> 0]]
    /\ UNCHANGED orphans

(* The loader fails once it has built the address space, for want of a     *)
(* slot or of something else: nobody takes the address space down again.   *)
LoadFails(space) ==
    /\ KernelThread
    /\ space \notin built
    /\ built' = built \cup {space}
    /\ orphans' = orphans \cup {space}
    /\ UNCHANGED <<tasks, current, stack, cr3, pc, word, nextId>>

SpawnThread ==
    User /\ Spawn(tasks, Me.cr3, None) /\ UNCHANGED <<built, word, orphans>>

(* clone with CLONE_PARENT_SETTID and CLONE_CHILD_CLEARTID on one word, as *)
(* pthread_create calls it: the word is the new thread's own.              *)
Clone(w) ==
    /\ User
    /\ word[cr3][w] = 0
    /\ \A s \in Present(tasks) : tasks[s].cr3 = Me.cr3 => tasks[s].tid # w
    /\ Spawn(tasks, cr3, w)
    /\ word' = [word EXCEPT ![cr3][w] = 1]
    /\ UNCHANGED <<built, orphans>>

Yield ==
    (User \/ KernelThread) /\ Schedule(tasks, "run") /\ UNCHANGED <<word, nextId, orphans>>

(* block_until, up to its call of schedule. *)
BlockedOn(w, ticks) ==
    [tasks EXCEPT ![current].state = "Blocked", ![current].addr = w,
                  ![current].wait = ticks, ![current].timedOut = FALSE]

Sleep(ticks) ==
    /\ User \/ KernelThread
    /\ Schedule(BlockedOn(None, ticks), "run")
    /\ UNCHANGED <<word, nextId, orphans>>

(* FUTEX_WAIT with the value of a live thread's word, as pthread_join does. *)
FutexWait(w, ticks) ==
    /\ User
    /\ word[cr3][w] = 1
    /\ Schedule(BlockedOn(w, ticks), "run")
    /\ UNCHANGED <<word, nextId, orphans>>

(* A plausible bug: a task is woken by its address, whatever its state. *)
WokenByAddr(T, w, max) ==
    [s \in Slot |-> IF T[s] # None /\ T[s].addr = w
                    THEN [T[s] EXCEPT !.state = "Ready", !.addr = None] ELSE T[s]]
(* The table after futex_wake(w, max); slots are searched in order. *)
Woken(T, w, max) ==
    LET waiting == {s \in In(T, "Blocked") : T[s].addr = w} IN
    [s \in Slot |-> IF s \in waiting /\ Cardinality({r \in waiting : r < s}) < max
                    THEN [T[s] EXCEPT !.state = "Ready", !.addr = None,
                                      !.wait = None, !.timedOut = FALSE]
                    ELSE T[s]]

FutexWake(w, max) ==
    /\ User
    /\ tasks' = Woken(tasks, w, max)
    /\ UNCHANGED <<current, stack, cr3, pc, built, word, nextId, orphans>>

(* A plausible bug: the exiting thread wakes one joiner. *)
ExitWakesOne(T) ==
    LET gone == [T EXCEPT ![current].state = "Terminated", ![current].tid = None]
    IN IF Me.tid = None THEN gone ELSE Woken(gone, Me.tid, 1)
(* task_exit up to its call of schedule, from table T: the thread's word   *)
(* is cleared, and whoever waits for it is woken.                          *)
Exited(T) ==
    LET gone == [T EXCEPT ![current].state = "Terminated", ![current].tid = None]
    IN IF Me.tid = None THEN gone ELSE Woken(gone, Me.tid, Slots)
Cleared == IF Me.tid = None THEN word ELSE [word EXCEPT ![cr3][Me.tid] = 0]

Exit ==
    User /\ Schedule(Exited(tasks), "halt") /\ word' = Cleared /\ UNCHANGED <<nextId, orphans>>

(* The other tasks of the running task's address space, marked. *)
GroupKilled ==
    [s \in Slot |-> IF tasks[s] # None /\ s # current /\ tasks[s].cr3 = Me.cr3
                    THEN [tasks[s] EXCEPT !.state = "Terminated"] ELSE tasks[s]]

(* exit_group, and an uncaught fault, which does the same by kill_group. *)
ExitGroup ==
    User /\ Schedule(Exited(GroupKilled), "halt") /\ word' = Cleared /\ UNCHANGED <<nextId, orphans>>

(* A kernel thread's task_exit: it marks itself, ... *)
KernelExit ==
    /\ KernelThread /\ Me.id # ShellId
    /\ tasks' = Exited(tasks)
    /\ pc' = "exit"
    /\ UNCHANGED <<current, stack, cr3, built, word, nextId, orphans>>

(* ... calls schedule, which does all it does under the lock, ... *)
ExitPicks ==
    /\ pc = "exit"
    /\ \E ready \in {Expired(tasks)} : \E left \in {Reaped(ready)} : \E next \in {Picked(left)} :
          /\ built' = built \ Destroyed(ready)
          /\ tasks' = Chosen(left, next)
          /\ current' = next
          /\ pc' = IF next = current THEN "halt" ELSE "switch"
    /\ UNCHANGED <<stack, cr3, word, nextId, orphans>>

(* ... and then, the lock released, switches. *)
ExitSwitches ==
    /\ pc = "switch"
    /\ tasks' = Resumed(tasks, current)
    /\ stack' = Me.saved
    /\ cr3' = Me.cr3
    /\ pc' = "run"
    /\ UNCHANGED <<current, built, word, nextId, orphans>>

Kind(t) == IF t.id = IdleId THEN "idle" ELSE IF t.tid # None THEN "thread" ELSE "task"

(* kill, as the shell's command and the desktop call it: the shell, which  *)
(* is task 0, refuses to kill task 0, and the desktop kills DOOM's task.   *)
Kill(s) ==
    /\ KernelThread
    /\ s \in Present(tasks) \ (In(tasks, "Terminated") \cup {current})
    /\ tasks[s].id # ShellId /\ Kind(tasks[s]) \in Mortal
    /\ tasks' = [tasks EXCEPT ![s].state = "Terminated"]
    /\ UNCHANGED <<current, stack, cr3, pc, built, word, nextId, orphans>>

-----------------------------------------------------------------------------
(* After task::init and spawn_idle. *)
Init ==
    /\ tasks = [s \in Slot |->
                  IF s = 0 THEN [NewTask(ShellId, Kernel, None) EXCEPT !.state = "Running"]
                  ELSE IF s = IDLE_SLOT THEN NewTask(IdleId, Kernel, None) ELSE None]
    /\ current = 0 /\ stack = ShellId /\ cr3 = Kernel /\ pc = "run"
    /\ built = {}
    /\ word = [space \in Space |-> [w \in Word |-> 0]]
    /\ nextId = 2
    /\ orphans = {}

Process ==
    \/ SpawnKernel \/ SpawnThread \/ Yield \/ Exit \/ ExitGroup \/ KernelExit
    \/ \E space \in Space : SpawnUser(space) \/ LoadFails(space)
    \/ \E w \in Word : Clone(w)
    \/ \E ticks \in 1 .. MaxWait : Sleep(ticks)
    \/ \E w \in Word, ticks \in (1 .. MaxWait) \cup {None} : FutexWait(w, ticks)
    \/ \E w \in Word, max \in {1, Slots} : FutexWake(w, max)
    \/ \E s \in Slot : Kill(s)

Exiting == ExitPicks \/ ExitSwitches

Next == Tick \/ Process \/ Exiting

(* The timer never stops, and code that is not waiting for it goes on. *)
Spec == Init /\ [][Next]_vars /\ WF_vars(Tick) /\ WF_vars(Exiting)

-----------------------------------------------------------------------------
(* The scheduler's state is what task.rs declares it to be, and no task is *)
(* left with a deadline that has passed.                                   *)
TypeOK ==
    /\ tasks \in [Slot -> Task(1 .. MaxWait) \cup {None}]
    /\ current \in Slot /\ stack \in Nat /\ cr3 \in Space \cup {Kernel}
    /\ pc \in Place
    /\ built \subseteq Space /\ orphans \subseteq Space
    /\ word \in [Space -> [Word -> {0, 1}]]
    /\ nextId \in 2 .. MaxId

(* The CPU is on the stack of a task that is still in the table, on that   *)
(* of the current one except while an exiting thread switches, and every   *)
(* saved context is on its own task's stack: schedule() neither frees a    *)
(* stack in use nor saves one task's context as another's.                 *)
OnOwnStack ==
    /\ \E s \in Present(tasks) : tasks[s].id = stack
    /\ pc # "switch" => Me # None /\ Me.id = stack
    /\ \A s \in Present(tasks) : tasks[s].saved = tasks[s].id

(* The task that runs is the one the table says is running, and the only   *)
(* one, so nothing that is blocked or terminated goes on executing; and it *)
(* is the idle task only when no other task could use the CPU.             *)
OneRuns ==
    pc = "run" => /\ In(tasks, "Running") = {current}
                  /\ current = IDLE_SLOT => In(tasks, "Ready") = {}

(* The address spaces that exist are those of the tasks there are, and     *)
(* those the loader left behind, which no task ever has: the sweep         *)
(* destroys one with its last task, whichever slots its threads are in and *)
(* in whatever order they die, and never the one that is loaded.           *)
SpacesExact ==
    /\ built \ orphans = {tasks[s].cr3 : s \in Present(tasks)} \ {Kernel}
    /\ orphans \subseteq built
    /\ cr3 \in (built \ orphans) \cup {Kernel}
    /\ pc # "switch" => cr3 = Me.cr3

(* A task asleep in pthread_join with no timeout waits for a thread that   *)
(* is still to exit, and so to wake it.                                    *)
JoinersHaveThreads ==
    \A s \in In(tasks, "Blocked") :
        LET t == tasks[s] IN
        t.addr # None /\ t.wait = None =>
            \E r \in Present(tasks) \ In(tasks, "Terminated") :
                tasks[r].cr3 = t.cr3 /\ tasks[r].tid = t.addr

(* A task once terminated never comes back, although a killed one still    *)
(* has the address and the deadline it was waiting for; and exit_group     *)
(* leaves nothing of its group alive, not even a task that was asleep on   *)
(* the word which the exit clears and wakes.                               *)
StaysDead(s) ==
    tasks'[s] # None =>
        tasks'[s].state = "Terminated" \/ tasks'[s].id # tasks[s].id
DeadStayDead ==
    [][/\ \A s \in In(tasks, "Terminated") : StaysDead(s)
       /\ ExitGroup => \A s \in Present(tasks) : tasks[s].cr3 = Me.cr3 => StaysDead(s)]_vars

HasState(i, st) == \E s \in In(tasks, st) : tasks[s].id = i

(* A task that could run is run, or is killed. *)
EveryoneRuns ==
    \A i \in (0 .. MaxId - 1) \ {IdleId} : HasState(i, "Ready") ~> ~HasState(i, "Ready")

(* A wait with a deadline ends. *)
TimeoutsEnd ==
    \A i \in 0 .. MaxId - 1 :
        (\E s \in In(tasks, "Blocked") : tasks[s].id = i /\ tasks[s].wait # None)
            ~> ~HasState(i, "Blocked")

(* What a terminated task held is given back. *)
TheDeadAreReaped ==
    \A i \in 0 .. MaxId - 1 : HasState(i, "Terminated") ~> ~HasState(i, "Terminated")
=============================================================================
