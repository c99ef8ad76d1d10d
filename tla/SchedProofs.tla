----------------------------- MODULE SchedProofs -----------------------------
(***************************************************************************)
(* That the scheduler never runs what it should not and never frees what   *)
(* is in use, for any number of slots, address spaces and ticks, as long   *)
(* as no tick comes while a kernel thread's exit is being switched away    *)
(* from, and nobody kills the idle task (both happen: see MCSchedSwitch    *)
(* and the README).                                                        *)
(*                                                                         *)
(* Every action that calls schedule() does so from a table that is Ready   *)
(* for it; the lemmas follow such a table through the steps of schedule(), *)
(* and the invariant at the end says what table it leaves.                 *)
(***************************************************************************)
EXTENDS Sched, FiniteSetTheorems, WellFoundedInduction, TLAPS

Undisturbed == ~TickInSwitch /\ "idle" \notin Mortal

-----------------------------------------------------------------------------
(* The invariant, of a table T.                                            *)

AnyTask == Task(0 .. MaxWait)

(* Tasks have names of their own, and their saved context on their stack.  *)
Named(T) ==
    /\ \A s \in Present(T) : T[s].id < nextId /\ T[s].saved = T[s].id
    /\ \A r, s \in Present(T) : T[r].id = T[s].id => r = s

(* Who is not waiting has no deadline, and the idle task never waits.      *)
Waits(T) == \A s \in Present(T) : T[s].state \in {"Ready", "Running"} => T[s].wait = None
IdleWaits(T) ==
    /\ IDLE_SLOT \in Present(T)
    /\ T[IDLE_SLOT].id = IdleId /\ T[IDLE_SLOT].cr3 = Kernel
    /\ T[IDLE_SLOT].state \in {"Ready", "Running"}

Fit(T) == T \in [Slot -> AnyTask \cup {None}] /\ Named(T) /\ Waits(T) /\ IdleWaits(T)

(* No deadline is left that has passed, but of tasks that will not see it. *)
NonePassed(T) == \A s \in Present(T) : T[s].state # "Terminated" => T[s].wait # 0

NoneDue(T) == \A s \in Present(T) : T[s].wait # 0

SpacesOf(T) == {T[s].cr3 : s \in Present(T)} \ {Kernel}

(* The address spaces that tasks have, and those the loader left behind.   *)
Owned == built \ orphans
LeftBehind == orphans \subseteq built /\ orphans \subseteq Space

(* A table schedule() can be called with.                                  *)
Schedulable(T) ==
    /\ Fit(T) /\ current \in Slot
    /\ T[current] # None /\ T[current].state # "Ready" /\ T[current].wait # 0
    /\ In(T, "Running") \subseteq {current}

(* Where the CPU is.                                                       *)
Placed ==
    /\ pc \in {"run", "exit", "switch"}
    /\ pc = "exit" => Me.state = "Terminated" /\ Me.wait = None /\ In(tasks, "Running") = {}
    /\ pc # "exit" => In(tasks, "Running") = {current}
    /\ pc # "switch" => stack = Me.id /\ cr3 = Me.cr3
    /\ pc = "switch" => \E s \in Present(tasks) : tasks[s].id = stack /\ tasks[s].cr3 = cr3
    /\ pc # "exit" /\ current = IDLE_SLOT => In(tasks, "Ready") = {}

Rest ==
    /\ stack \in Nat /\ cr3 \in Space \cup {Kernel}
    /\ word \in [Space -> [Word -> {0, 1}]] /\ nextId \in 2 .. MaxId

IInv ==
    /\ Rest /\ current \in Slot /\ tasks[current] # None
    /\ Fit(tasks) /\ NoneDue(tasks) /\ Owned = SpacesOf(tasks) /\ LeftBehind /\ Placed

-----------------------------------------------------------------------------
LEMMA NoneFacts == None # 0 /\ None \notin Nat /\ None \notin AnyTask /\ None \notin Task(1 .. MaxWait)
  BY SchedAssumption DEF Task, AnyTask

LEMMA Least == ASSUME NEW S \in SUBSET Nat, S # {} PROVE \E x \in S : \A y \in S : x <= y
  <1>1. PICK x \in S : \A y \in S : ~(<<y, x>> \in OpToRel(<, Nat))
    BY NatLessThanWellFounded, WFMin, Zenon
  <1>2. ASSUME NEW y \in S, y < x PROVE FALSE
    <2>1. <<y, x>> \in {ss \in Nat \X Nat : ss[1] < ss[2]}
      BY <1>2
    <2>2. <<y, x>> \in OpToRel(<, Nat)
      BY <2>1, Zenon DEF OpToRel
    <2> QED
      BY <1>1, <2>2, Zenon
  <1> QED
    BY <1>2

LEMMA Greatest ==
    ASSUME NEW n \in Nat, NEW S \in SUBSET (0 .. n), S # {}
    PROVE  \E x \in S : \A y \in S : y <= x
  <1> DEFINE D == {d \in 0 .. n : n - d \in S}
  <1>1. \A y \in S : y \in 0 .. n /\ n - y \in 0 .. n /\ n - (n - y) = y
    OBVIOUS
  <1>2. \A y \in S : n - y \in D
    BY <1>1
  <1>3. PICK d \in D : \A e \in D : d <= e
    <2>1. D \in SUBSET Nat
      OBVIOUS
    <2>2. PICK y \in S : TRUE
      OBVIOUS
    <2>3. D # {}
      BY <1>2, <2>2
    <2> HIDE DEF D
    <2> QED
      BY <2>1, <2>3, Least
  <1>4. n - d \in S /\ \A y \in S : y <= n - d
    BY <1>1, <1>2, <1>3
  <1> QED
    BY <1>4

(* What a step may do to tasks without disturbing the table: it gives some *)
(* another state, but not that of running.                                 *)
Like(t, u) == u \in AnyTask /\ u.id = t.id /\ u.saved = t.saved /\ u.cr3 = t.cr3

LEMMA LikeFit ==
    ASSUME NEW T, NEW U, Fit(T), U \in [Slot -> AnyTask \cup {None}],
           \A s \in Slot : U[s] = None <=> T[s] = None,
           \A s \in Present(T) : Like(T[s], U[s]),
           Waits(U), U[IDLE_SLOT].state \in {"Ready", "Running"}
    PROVE  Fit(U) /\ Present(U) = Present(T) /\ SpacesOf(U) = SpacesOf(T)
  <1>1. Present(U) = Present(T)
    BY DEF Present
  <1>2. SpacesOf(U) = SpacesOf(T)
    BY <1>1 DEF SpacesOf, Like
  <1>3. Named(U)
    BY <1>1 DEF Fit, Named, Like
  <1>4. IdleWaits(U)
    BY <1>1 DEF Fit, IdleWaits, Like
  <1> QED
    BY <1>1, <1>2, <1>3, <1>4 DEF Fit

(* The tasks a time-out or a wake makes ready.                             *)
LEMMA WokenTask ==
    ASSUME NEW t \in AnyTask, NEW b \in BOOLEAN
    PROVE  LET u == [t EXCEPT !.state = "Ready", !.addr = None, !.wait = None, !.timedOut = b]
           IN  Like(t, u) /\ u.state = "Ready" /\ u.wait = None
  BY DEF AnyTask, Task, Like, State

-----------------------------------------------------------------------------
(* Through schedule(): the time-outs ...                                   *)
LEMMA ExpiredFit ==
    ASSUME NEW T, Schedulable(T)
    PROVE  /\ Schedulable(Expired(T)) /\ NonePassed(Expired(T))
           /\ Present(Expired(T)) = Present(T) /\ SpacesOf(Expired(T)) = SpacesOf(T)
           /\ Expired(T)[current] = T[current]
           /\ \A s \in Present(T) : Expired(T)[s].id = T[s].id
           /\ In(Expired(T), "Terminated") = In(T, "Terminated")
  <1> DEFINE E == Expired(T)
  <1>1. T \in [Slot -> AnyTask \cup {None}]
    BY DEF Schedulable, Fit
  <1>2. E = [s \in Slot |-> IF Is(T[s], "Blocked") /\ T[s].wait = 0
                           THEN [T[s] EXCEPT !.state = "Ready", !.addr = None, !.wait = None, !.timedOut = TRUE]
                           ELSE T[s]]
    BY DEF Expired
  <1>3. ASSUME NEW s \in Slot
        PROVE  /\ E[s] = None <=> T[s] = None
               /\ E[s] \in AnyTask \cup {None}
               /\ T[s] # None => Like(T[s], E[s])
               /\ E[s] = T[s] \/ (T[s] # None /\ T[s].state = "Blocked" /\ T[s].wait = 0 /\ E[s].state = "Ready" /\ E[s].wait = None)
               /\ T[s] # None /\ T[s].wait = 0 => E[s].state # "Blocked"
    <2>1. CASE Is(T[s], "Blocked") /\ T[s].wait = 0
      <3>1. T[s] \in AnyTask
        BY <1>1, <2>1 DEF Is
      <3>2. E[s] = [T[s] EXCEPT !.state = "Ready", !.addr = None, !.wait = None, !.timedOut = TRUE]
        BY <1>2, <2>1
      <3>3. Like(T[s], E[s]) /\ E[s].state = "Ready" /\ E[s].wait = None
        BY <3>1, <3>2, WokenTask
      <3> QED
        BY <2>1, <3>1, <3>3, NoneFacts DEF Is, Like
    <2>2. CASE ~(Is(T[s], "Blocked") /\ T[s].wait = 0)
      <3>1. E[s] = T[s]
        BY <1>2, <2>2
      <3> QED
        BY <1>1, <2>2, <3>1 DEF Is, Like
    <2> QED
      BY <2>1, <2>2
  <1>4. E \in [Slot -> AnyTask \cup {None}]
    BY <1>2, <1>3
  <1>5. Waits(E)
    BY <1>3 DEF Waits, Schedulable, Fit, Present
  <1>6. IDLE_SLOT \in Slot /\ T[IDLE_SLOT] # None /\ T[IDLE_SLOT].state \in {"Ready", "Running"}
    BY DEF Schedulable, Fit, IdleWaits, Present
  <1>7. Fit(E) /\ Present(E) = Present(T) /\ SpacesOf(E) = SpacesOf(T)
    <2>1. E[IDLE_SLOT].state \in {"Ready", "Running"}
      BY <1>3, <1>6
    <2>2. Fit(T)
      BY DEF Schedulable
    <2>3. \A s \in Present(T) : Like(T[s], E[s])
      BY <1>3 DEF Present
    <2> HIDE DEF E
    <2> QED
      BY <1>3, <1>4, <1>5, <2>1, <2>2, <2>3, LikeFit
  <1>8. E[current] = T[current] /\ current \in Slot
    BY <1>3 DEF Schedulable
  <1>9. In(E, "Running") \subseteq {current} /\ In(E, "Terminated") = In(T, "Terminated")
    BY <1>3 DEF In, Is, Schedulable
  <1>10. Schedulable(E)
    BY <1>7, <1>8, <1>9 DEF Schedulable
  <1>11. NonePassed(E)
    <2> SUFFICES ASSUME NEW s \in Present(E), E[s].wait = 0 PROVE E[s].state = "Terminated"
      BY DEF NonePassed
    <2>1. s \in Slot /\ T[s] # None /\ E[s] = T[s]
      BY <1>3, NoneFacts DEF Present
    <2>2. E[s].state # "Blocked"
      BY <1>3, <2>1
    <2>3. E[s].state \notin {"Ready", "Running"}
      BY <1>5, NoneFacts DEF Waits
    <2> QED
      BY <1>1, <2>1, <2>2, <2>3 DEF AnyTask, Task, State
  <1> QED
    BY <1>3, <1>7, <1>8, <1>9, <1>10, <1>11 DEF Present, Like

(* ... the sweep, which leaves no dead task but the current one, ...       *)
LEMMA ReapedFit ==
    ASSUME NEW T, Schedulable(T), NonePassed(T)
    PROVE  /\ Schedulable(Reaped(T)) /\ Reaped(T)[current] = T[current]
           /\ Present(Reaped(T)) = Present(T) \ Doomed(T)
           /\ \A s \in Present(Reaped(T)) : Reaped(T)[s] = T[s] /\ T[s].wait # 0
  <1> DEFINE R == Reaped(T)
  <1>1. T \in [Slot -> AnyTask \cup {None}] /\ current \in Slot
    BY DEF Schedulable, Fit
  <1>2. R = [s \in Slot |-> IF Is(T[s], "Terminated") /\ s # current THEN None ELSE T[s]]
    BY DEF Reaped
  <1>3. R \in [Slot -> AnyTask \cup {None}] /\ R[current] = T[current]
    BY <1>1, <1>2
  <1>4. Present(R) = Present(T) \ Doomed(T) /\ \A s \in Present(R) : R[s] = T[s]
    BY <1>2 DEF Present, Doomed, In
  <1>5. \A s \in Present(R) : s \in Present(T) /\ (T[s].state # "Terminated" \/ s = current)
    BY <1>4 DEF Doomed, In, Is, Present
  <1>6. Named(R) /\ Waits(R)
    BY <1>4, <1>5 DEF Named, Waits, Schedulable, Fit
  <1>7. IdleWaits(R)
    <2>1. IDLE_SLOT \in Present(T) \ Doomed(T)
      BY DEF Schedulable, Fit, IdleWaits, Doomed, In, Is
    <2> QED
      BY <1>4, <2>1 DEF IdleWaits, Schedulable, Fit
  <1>8. In(R, "Running") \subseteq {current}
    BY <1>2 DEF In, Is, Schedulable
  <1>9. Schedulable(R)
    BY <1>1, <1>3, <1>6, <1>7, <1>8 DEF Schedulable, Fit
  <1>10. \A s \in Present(R) : T[s].wait # 0
    BY <1>5 DEF NonePassed, Schedulable
  <1> QED
    BY <1>3, <1>4, <1>9, <1>10

(* ... which destroys the address spaces whose last task it takes, ...     *)
LEMMA DestroyedExact ==
    ASSUME NEW T, Schedulable(T), NonePassed(T)
    PROVE  SpacesOf(Reaped(T)) = SpacesOf(T) \ Destroyed(T)
  <1>1. Present(Reaped(T)) = Present(T) \ Doomed(T) /\ \A s \in Present(Reaped(T)) : Reaped(T)[s] = T[s]
    BY ReapedFit
  <1>2. Present(T) \subseteq Slot /\ Slots \in Nat /\ Slot = 0 .. Slots - 1 /\ Slots - 1 \in Nat /\ Doomed(T) \subseteq Present(T)
    BY SchedAssumption DEF Present, Slot, Doomed, In, Is
  <1>3. ASSUME NEW c \in SpacesOf(T), c \notin Destroyed(T) PROVE c \in SpacesOf(Reaped(T))
    <2> DEFINE S == {s \in Present(T) : T[s].cr3 = c}
    <2>1. S # {} /\ S \in SUBSET (0 .. (Slots - 1)) /\ c # Kernel
      BY <1>2 DEF SpacesOf
    <2>2. PICK m \in S : \A s \in S : s <= m
      <3> HIDE DEF S
      <3> QED
        BY <1>2, <2>1, Greatest
    <2>3. ~(m \in Doomed(T) /\ LastOut(T, m))
      BY <1>3, <2>1 DEF Destroyed
    <2>4. PICK r \in S : r \notin Doomed(T)
      <3>1. CASE m \in Doomed(T)
        <4>1. PICK r \in Present(T) \ {m} : T[r].cr3 = T[m].cr3 /\ ~(r \in Doomed(T) /\ r < m)
          BY <2>3, <3>1 DEF LastOut
        <4>2. r \in S /\ r < m
          BY <1>2, <2>2, <4>1
        <4> QED
          BY <4>1, <4>2
      <3> QED
        BY <3>1
    <2>5. r \in Present(Reaped(T)) /\ Reaped(T)[r].cr3 = c
      BY <1>1, <2>4
    <2> QED
      BY <2>1, <2>5 DEF SpacesOf
  <1>4. ASSUME NEW c \in SpacesOf(Reaped(T)) PROVE c \in SpacesOf(T) /\ c \notin Destroyed(T)
    <2>1. PICK s \in Present(T) \ Doomed(T) : T[s].cr3 = c /\ c # Kernel
      BY <1>1 DEF SpacesOf
    <2>2. ASSUME NEW r \in Doomed(T), LastOut(T, r) PROVE T[r].cr3 # c
      BY <2>1, <2>2 DEF LastOut
    <2> QED
      BY <2>1, <2>2 DEF SpacesOf, Destroyed
  <1> QED
    BY <1>3, <1>4

(* ... and the choice of who is next.                                      *)
LEMMA PickedFit ==
    ASSUME NEW T, Schedulable(T)
    PROVE  LET next == Picked(T) IN
           /\ next \in Present(T)
           /\ next = current => T[current].state = "Running"
           /\ next # current => T[next].state = "Ready"
           /\ next = IDLE_SLOT => /\ In(T, "Ready") \subseteq {IDLE_SLOT}
                                  /\ current # IDLE_SLOT => T[current].state # "Running"
  <1> DEFINE able == Eligible(T) \ {IDLE_SLOT}
  <1>1. able \subseteq Present(T) /\ Present(T) \subseteq Slot /\ current \in Slot
    BY DEF Eligible, In, Is, Present, Schedulable
  <1>2. IDLE_SLOT \in Present(T) /\ T[IDLE_SLOT] # None /\ T[IDLE_SLOT].state \in {"Ready", "Running"}
    BY DEF Schedulable, Fit, IdleWaits, Present
  <1>3. In(T, "Running") \subseteq {current} /\ T[current].state # "Ready" /\ T[current] # None
    BY DEF Schedulable
  <1>4. CASE able # {}
    <2>1. \A s \in able : Turn(s) \in Nat
      BY <1>1, SchedAssumption DEF Turn, Slot
    <2> DEFINE D == {Turn(s) : s \in able}
    <2>2. PICK d \in D : \A e \in D : d <= e
      <3>1. D \in SUBSET Nat /\ D # {}
        BY <1>4, <2>1
      <3> HIDE DEF D
      <3> QED
        BY <3>1, Least
    <2>3. \E s \in able : \A r \in able : Turn(s) <= Turn(r)
      BY <2>2
    <2>4. Picked(T) = CHOOSE s \in able : \A r \in able : Turn(s) <= Turn(r)
      BY <1>4 DEF Picked
    <2>5. Picked(T) \in able
      BY <2>3, <2>4
    <2> QED
      BY <1>1, <1>3, <2>5 DEF Eligible, In, Is
  <1>5. CASE able = {}
    <2>1. Picked(T) = IDLE_SLOT
      BY <1>2, <1>5 DEF Picked
    <2>2. IDLE_SLOT = current => T[current].state = "Running"
      BY <1>2, <1>3
    <2>3. IDLE_SLOT # current => T[IDLE_SLOT].state = "Ready"
      BY <1>1, <1>2, <1>3 DEF In, Is, Present
    <2>4. In(T, "Ready") \subseteq {IDLE_SLOT}
      BY <1>5 DEF Eligible
    <2>5. current # IDLE_SLOT => T[current].state # "Running"
      BY <1>1, <1>3, <1>5 DEF Eligible, In, Is
    <2> QED
      BY <1>2, <2>1, <2>2, <2>3, <2>4, <2>5
  <1> QED
    BY <1>4, <1>5

(* A table whose tasks have the states and deadlines of those of T.        *)
Alike(t, u) == Like(t, u) /\ u.state = t.state /\ u.wait = t.wait

LEMMA AlikeFit ==
    ASSUME NEW T, NEW U, Fit(T), NoneDue(T), U \in [Slot -> AnyTask \cup {None}],
           \A s \in Slot : U[s] = None <=> T[s] = None,
           \A s \in Present(T) : Alike(T[s], U[s])
    PROVE  /\ Fit(U) /\ NoneDue(U) /\ Present(U) = Present(T) /\ SpacesOf(U) = SpacesOf(T)
           /\ In(U, "Running") = In(T, "Running") /\ In(U, "Ready") = In(T, "Ready")
  <1>1. Present(U) = Present(T)
    BY DEF Present
  <1>2. Waits(U)
    BY <1>1 DEF Waits, Alike, Fit
  <1>3. IDLE_SLOT \in Present(T) /\ U[IDLE_SLOT].state \in {"Ready", "Running"}
    BY DEF Fit, IdleWaits, Alike
  <1>4. \A s \in Present(T) : Like(T[s], U[s])
    BY DEF Alike
  <1>5. Fit(U) /\ Present(U) = Present(T) /\ SpacesOf(U) = SpacesOf(T)
    BY <1>2, <1>3, <1>4, LikeFit
  <1>6. NoneDue(U)
    BY <1>1 DEF NoneDue, Alike
  <1>7. In(U, "Running") = In(T, "Running") /\ In(U, "Ready") = In(T, "Ready")
    BY DEF In, Is, Alike, Present
  <1> QED
    BY <1>5, <1>6, <1>7

(* The chosen task runs, and nothing else does.                            *)
LEMMA ChosenFit ==
    ASSUME NEW T, Schedulable(T), NoneDue(T)
    PROVE  LET next == Picked(T)  C == Chosen(T, next) IN
           /\ next \in Present(T)
           /\ Fit(C) /\ NoneDue(C) /\ Present(C) = Present(T) /\ SpacesOf(C) = SpacesOf(T)
           /\ In(C, "Running") = {next}
           /\ next = IDLE_SLOT => In(C, "Ready") = {}
           /\ \A s \in Present(T) : C[s].id = T[s].id /\ C[s].cr3 = T[s].cr3 /\ C[s].saved = T[s].saved
           /\ next = current => T[current].state = "Running"
           /\ T[current].state = "Terminated" => C[current].state = "Terminated"
  <1> DEFINE next == Picked(T)
  <1> DEFINE C == Chosen(T, next)
  <1>1. /\ next \in Present(T)
        /\ next = current => T[current].state = "Running"
        /\ next # current => T[next].state = "Ready"
        /\ next = IDLE_SLOT => /\ In(T, "Ready") \subseteq {IDLE_SLOT}
                               /\ current # IDLE_SLOT => T[current].state # "Running"
    BY PickedFit
  <1>2. /\ T \in [Slot -> AnyTask \cup {None}] /\ Fit(T) /\ Waits(T) /\ current \in Present(T)
        /\ T[current].state # "Ready" /\ In(T, "Running") \subseteq {current}
    BY DEF Schedulable, Fit, Present
  <1>3. \A s \in Present(T) : T[s] \in AnyTask /\ s \in Slot
    BY <1>2 DEF Present
  <1>4. IDLE_SLOT \in Present(T) /\ T[IDLE_SLOT].state \in {"Ready", "Running"}
    BY <1>2 DEF Fit, IdleWaits
  <1> HIDE DEF next
  <1>5. CASE next = current
    <2>1. C = T
      BY <1>5 DEF Chosen
    <2>2. In(T, "Running") = {next}
      BY <1>1, <1>2, <1>5, <1>3, NoneFacts DEF In, Is, Present
    <2>3. next = IDLE_SLOT => In(T, "Ready") = {}
      BY <1>1, <1>5 DEF In, Is
    <2> QED
      BY <1>1, <1>2, <2>1, <2>2, <2>3 DEF next
  <1>6. CASE next # current
    <2>1. C = [T EXCEPT ![current] = Preempted(T[current]), ![next].state = "Running"]
      BY <1>6 DEF Chosen
    <2>2. Preempted(T[current]) \in AnyTask /\ Like(T[current], Preempted(T[current])) /\ Preempted(T[current]).wait = T[current].wait
      BY <1>2, <1>3 DEF Preempted, AnyTask, Task, Like, State
    <2>3. [T[next] EXCEPT !.state = "Running"] \in AnyTask
      BY <1>1, <1>3 DEF AnyTask, Task, State
    <2>5. C[current] = Preempted(T[current]) /\ C[next] = [T[next] EXCEPT !.state = "Running"]
      BY <1>1, <1>2, <1>3, <1>6, <2>1
    <2>6. \A s \in Slot : s \notin {current, next} => C[s] = T[s]
      BY <1>2, <2>1
    <2>4. C \in [Slot -> AnyTask \cup {None}]
      <3>1. C = [s \in Slot |-> C[s]]
        BY <1>2, <2>1
      <3>2. \A s \in Slot : C[s] \in AnyTask \cup {None}
        BY <1>2, <2>2, <2>3, <2>5, <2>6
      <3> HIDE DEF C
      <3> QED
        BY <3>1, <3>2
    <2>7. ASSUME NEW s \in Present(T) PROVE Like(T[s], C[s]) /\ C[s].wait = T[s].wait /\ C[s] # None
      BY <1>1, <1>2, <1>3, <2>2, <2>3, <2>5, <2>6, NoneFacts DEF Like, AnyTask, Task
    <2>8. C[next].state = "Running"
      BY <1>1, <1>3, <2>5 DEF AnyTask, Task
    <2>9. C[current].state = IF T[current].state = "Running" THEN "Ready" ELSE T[current].state
      BY <1>2, <1>3, <2>5 DEF Preempted, AnyTask, Task
    <2>10. Waits(C)
      <3> SUFFICES ASSUME NEW s \in Present(C), C[s].state \in {"Ready", "Running"} PROVE C[s].wait = None
        BY DEF Waits
      <3>1. s \in Present(T)
        BY <1>1, <1>2, <2>6 DEF Present
      <3>2. T[s].state \in {"Ready", "Running"}
        BY <1>1, <1>6, <2>6, <2>9, <3>1, <1>3
      <3> QED
        BY <1>2, <2>7, <3>1, <3>2 DEF Waits
    <2>11. C[IDLE_SLOT].state \in {"Ready", "Running"}
      BY <1>3, <1>4, <2>6, <2>8, <2>9
    <2>12. \A s \in Slot : C[s] = None <=> T[s] = None
      BY <1>1, <1>2, <2>6, <2>7 DEF Present
    <2>13. Fit(C) /\ Present(C) = Present(T) /\ SpacesOf(C) = SpacesOf(T)
      <3> HIDE DEF C
      <3> QED
        BY <1>2, <2>4, <2>7, <2>10, <2>11, <2>12, LikeFit
    <2>14. NoneDue(C)
      BY <2>7, <2>13 DEF NoneDue
    <2>15. In(C, "Running") = {next}
      BY <1>1, <1>2, <1>3, <2>6, <2>7, <2>8, <2>9 DEF In, Is, Present
    <2>16. next = IDLE_SLOT => In(C, "Ready") = {}
      BY <1>1, <1>2, <1>3, <1>6, <2>6, <2>8, <2>9 DEF In, Is, Present
    <2> QED
      BY <1>1, <1>6, <2>7, <2>9, <2>13, <2>14, <2>15, <2>16 DEF next, Like
  <1> QED
    BY <1>5, <1>6

(* Saving the one context and taking up the other changes nothing else.    *)
LEMMA FinalFit ==
    ASSUME NEW T, Fit(T), NoneDue(T), current \in Present(T), stack = T[current].id,
           NEW next \in Present(T)
    PROVE  LET F == Resumed(Switched(T, next), next) IN
           /\ Fit(F) /\ NoneDue(F) /\ Present(F) = Present(T) /\ SpacesOf(F) = SpacesOf(T)
           /\ In(F, "Running") = In(T, "Running") /\ In(F, "Ready") = In(T, "Ready")
           /\ \A s \in Present(T) : Alike(T[s], F[s])
  <1> DEFINE S == Switched(T, next)
  <1> DEFINE F == Resumed(S, next)
  <1>1. T \in [Slot -> AnyTask \cup {None}] /\ \A s \in Present(T) : T[s] \in AnyTask /\ s \in Slot
    BY DEF Fit, Present
  <1>2. S \in [Slot -> AnyTask \cup {None}] /\ \A s \in Present(T) : Alike(T[s], S[s])
    <2>1. stack = T[current].saved
      BY DEF Fit, Named
    <2>2. CASE next = current
      BY <1>1, <2>2 DEF Switched, Alike, Like
    <2>3. CASE next # current
      <3>1. S = [T EXCEPT ![current].saved = stack]
        BY <2>3 DEF Switched
      <3>2. S[current] = [T[current] EXCEPT !.saved = stack] /\ \A s \in Slot \ {current} : S[s] = T[s]
        BY <1>1, <3>1
      <3>3. Alike(T[current], S[current])
        BY <1>1, <2>1, <3>2 DEF Alike, Like, AnyTask, Task
      <3>4. \A s \in Slot : S[s] \in AnyTask \cup {None}
        BY <1>1, <3>2, <3>3 DEF Alike, Like
      <3>5. S = [s \in Slot |-> S[s]]
        BY <1>1, <3>1
      <3>6. S \in [Slot -> AnyTask \cup {None}]
        <4> HIDE DEF S
        <4> QED
          BY <3>4, <3>5
      <3>7. \A s \in Present(T) : Alike(T[s], S[s])
        BY <1>1, <3>2, <3>3 DEF Alike, Like
      <3> QED
        BY <3>6, <3>7
    <2> QED
      BY <2>2, <2>3
  <1> HIDE DEF S
  <1>3. F[next] = [S[next] EXCEPT !.timedOut = FALSE] /\ \A s \in Slot \ {next} : F[s] = S[s]
    BY <1>1, <1>2 DEF Resumed
  <1>4. Alike(T[next], F[next])
    BY <1>2, <1>3, ZenonT(60) DEF Alike, Like, AnyTask, Task
  <1>5. \A s \in Present(T) : Alike(T[s], F[s])
    BY <1>1, <1>2, <1>3, <1>4
  <1>6. F = [s \in Slot |-> F[s]]
    BY <1>2 DEF Resumed
  <1>7. \A s \in Slot : F[s] \in AnyTask \cup {None}
    BY <1>2, <1>3, <1>4 DEF Alike, Like
  <1> HIDE DEF F
  <1>8. F \in [Slot -> AnyTask \cup {None}]
    BY <1>6, <1>7
  <1>9. \A s \in Slot : F[s] = None <=> T[s] = None
    <2> SUFFICES ASSUME NEW s \in Slot PROVE F[s] = None <=> T[s] = None
      OBVIOUS
    <2>1. CASE s \in Present(T)
      BY <1>5, <2>1, NoneFacts DEF Alike, Like, Present
    <2>2. CASE s \notin Present(T)
      <3>1. F[s] = S[s] /\ T[s] = None
        BY <1>3, <2>2 DEF Present
      <3>2. S[s] = T[s]
        <4>1. s # current /\ s # next
          BY <2>2
        <4> QED
          BY <1>1, <4>1 DEF S, Switched
      <3> QED
        BY <3>1, <3>2
    <2> QED
      BY <2>1, <2>2
  <1>10. /\ Fit(F) /\ NoneDue(F) /\ Present(F) = Present(T) /\ SpacesOf(F) = SpacesOf(T)
         /\ In(F, "Running") = In(T, "Running") /\ In(F, "Ready") = In(T, "Ready")
    BY <1>5, <1>8, <1>9, AlikeFit
  <1> QED
    BY <1>5, <1>10 DEF F, S

(* The dead of table T are dead or gone after the step.                    *)
Buried(T) == \A s \in In(T, "Terminated") : tasks'[s] # None => tasks'[s].state = "Terminated"

(* The sweep destroys only what tasks have.                                *)
LEMMA SweepLeaves ==
    ASSUME NEW T, Owned = SpacesOf(T), LeftBehind, built' = built \ Destroyed(T), orphans' = orphans
    PROVE  Owned' = SpacesOf(T) \ Destroyed(T) /\ LeftBehind'
  <1>1. Destroyed(T) \subseteq SpacesOf(T)
    BY DEF Destroyed, SpacesOf, Doomed, Present, In, Is
  <1> QED
    BY <1>1 DEF Owned, LeftBehind

(* What the caller of schedule() finds when it goes on: the invariant.     *)
LEMMA ScheduleStep ==
    ASSUME NEW T, NEW here, Schedulable(T), Schedule(T, here),
           stack = T[current].id, cr3 = T[current].cr3, Owned = SpacesOf(T),
           LeftBehind, orphans' = orphans,
           Rest, word' \in [Space -> [Word -> {0, 1}]], nextId' = nextId,
           here = "run" \/ T[current].state # "Running"
    PROVE  IInv' /\ Buried(T)
  <1> DEFINE E == Expired(T)
  <1> DEFINE L == Reaped(E)
  <1> DEFINE next == Picked(L)
  <1> DEFINE C == Chosen(L, next)
  <1> DEFINE F == Resumed(Switched(C, next), next)
  <1>1. /\ built' = built \ Destroyed(E) /\ tasks' = F /\ current' = next
        /\ IF next = current
           THEN pc' = here /\ UNCHANGED <<stack, cr3>>
           ELSE pc' = "run" /\ stack' = L[next].saved /\ cr3' = L[next].cr3
    BY DEF Schedule
  <1>2. /\ Schedulable(E) /\ NonePassed(E) /\ Present(E) = Present(T)
        /\ SpacesOf(E) = SpacesOf(T) /\ E[current] = T[current]
        /\ In(E, "Terminated") = In(T, "Terminated")
    BY ExpiredFit
  <1>3. /\ Schedulable(L) /\ L[current] = E[current]
        /\ \A s \in Present(L) : L[s] = E[s] /\ E[s].wait # 0
        /\ Present(L) = Present(E) \ Doomed(E)
    <2> HIDE DEF E
    <2> QED
      BY <1>2, ReapedFit
  <1>4. SpacesOf(L) = SpacesOf(E) \ Destroyed(E)
    <2> HIDE DEF E
    <2> QED
      BY <1>2, DestroyedExact
  <1>5. NoneDue(L) /\ current \in Present(L)
    BY <1>3 DEF NoneDue, Schedulable, Present
  <1>6. /\ next \in Present(L)
        /\ Fit(C) /\ NoneDue(C) /\ Present(C) = Present(L) /\ SpacesOf(C) = SpacesOf(L)
        /\ In(C, "Running") = {next}
        /\ next = IDLE_SLOT => In(C, "Ready") = {}
        /\ \A s \in Present(L) : C[s].id = L[s].id /\ C[s].cr3 = L[s].cr3 /\ C[s].saved = L[s].saved
        /\ next = current => L[current].state = "Running"
        /\ L[current].state = "Terminated" => C[current].state = "Terminated"
    <2> HIDE DEF L
    <2> QED
      BY <1>3, <1>5, ChosenFit
  <1>7. /\ Fit(F) /\ NoneDue(F) /\ Present(F) = Present(C) /\ SpacesOf(F) = SpacesOf(C)
        /\ In(F, "Running") = In(C, "Running") /\ In(F, "Ready") = In(C, "Ready")
        /\ \A s \in Present(C) : Alike(C[s], F[s])
    <2>1. stack = C[current].id /\ current \in Present(C) /\ next \in Present(C)
      BY <1>2, <1>3, <1>5, <1>6
    <2> HIDE DEF C, next
    <2> QED
      BY <1>6, <2>1, FinalFit
  <1> HIDE DEF E, L, C, F, next
  <1>8. next \in Slot /\ F[next] # None
    BY <1>6, <1>7 DEF Present
  <1>9. Owned' = SpacesOf(F) /\ LeftBehind'
    BY <1>1, <1>2, <1>4, <1>6, <1>7, SweepLeaves
  <1>10. pc' = "run" /\ stack' = F[next].id /\ cr3' = F[next].cr3
    <2>1. L[next].saved = L[next].id
      BY <1>3, <1>6 DEF Schedulable, Fit, Named
    <2>2. F[next].id = C[next].id /\ F[next].cr3 = C[next].cr3
      BY <1>6, <1>7 DEF Alike, Like
    <2>3. CASE next = current
      BY <1>1, <1>2, <1>3, <1>6, <2>2, <2>3
    <2>4. CASE next # current
      BY <1>1, <1>6, <2>1, <2>2, <2>4
    <2> QED
      BY <2>3, <2>4
  <1>11. Placed'
    BY <1>1, <1>6, <1>7, <1>10 DEF Placed, Me
  <1>12. Fit(tasks)'
    BY <1>1, <1>7 DEF Fit, Named, Waits, IdleWaits, Present
  <1>13. NoneDue(tasks)' /\ (Owned = SpacesOf(tasks))' /\ LeftBehind'
    BY <1>1, <1>7, <1>9 DEF NoneDue, SpacesOf, Present
  <1>14. Rest'
    <2>1. F[next] \in AnyTask
      BY <1>7, <1>8 DEF Fit
    <2> QED
      BY <1>10, <2>1 DEF Rest, AnyTask, Task
  <1>15. ASSUME NEW s \in In(T, "Terminated"), F[s] # None PROVE F[s].state = "Terminated"
    <2>1. s \in In(E, "Terminated") /\ s \in Slot
      BY <1>2 DEF In
    <2>2. s \in Present(L)
      BY <1>6, <1>7, <1>15, <2>1 DEF Present
    <2>3. s = current /\ L[current].state = "Terminated"
      BY <1>3, <2>1, <2>2 DEF Doomed, In, Is
    <2>4. C[current].state = "Terminated" /\ current \in Present(C)
      BY <1>5, <1>6, <2>3
    <2> QED
      BY <1>7, <2>3, <2>4 DEF Alike
  <1> QED
    BY <1>1, <1>8, <1>11, <1>12, <1>13, <1>14, <1>15 DEF IInv, Buried

-----------------------------------------------------------------------------
(* The tables the actions make.                                            *)

LEMMA Running ==
    ASSUME IInv, pc = "run"
    PROVE  /\ Schedulable(tasks) /\ current \in Present(tasks) /\ Me \in AnyTask
           /\ Me.state = "Running" /\ Me.wait = None
           /\ stack = Me.id /\ cr3 = Me.cr3 /\ Owned = SpacesOf(tasks)
           /\ Me.cr3 # Kernel \/ Me.id # IdleId => current # IDLE_SLOT
  <1>1. /\ Fit(tasks) /\ current \in Slot /\ tasks[current] # None /\ In(tasks, "Running") = {current}
        /\ stack = Me.id /\ cr3 = Me.cr3 /\ Owned = SpacesOf(tasks)
    BY DEF IInv, Placed
  <1>2. Me.state = "Running" /\ current \in Present(tasks) /\ Me \in AnyTask
    BY <1>1 DEF In, Is, Me, Present, Fit
  <1>3. Me.wait = None
    BY <1>1, <1>2 DEF Fit, Waits, Me
  <1>4. Me.cr3 # Kernel \/ Me.id # IdleId => current # IDLE_SLOT
    BY <1>1 DEF Fit, IdleWaits, Me
  <1> QED
    BY <1>1, <1>2, <1>3, <1>4, NoneFacts DEF Schedulable, Me

LEMMA TickedFit ==
    ASSUME IInv, pc \in {"run", "exit"}
    PROVE  LET T == TickedDown(tasks) IN
           /\ Schedulable(T) /\ SpacesOf(T) = SpacesOf(tasks) /\ T[current] = tasks[current]
           /\ In(T, "Terminated") = In(tasks, "Terminated")
  <1> DEFINE T == TickedDown(tasks)
  <1>1. /\ Fit(tasks) /\ tasks \in [Slot -> AnyTask \cup {None}] /\ current \in Slot /\ tasks[current] # None
        /\ Me.wait = None /\ Me.state # "Ready" /\ In(tasks, "Running") \subseteq {current}
    BY Running DEF IInv, Fit, Placed
  <1>2. T = [s \in Slot |-> IF tasks[s] # None /\ tasks[s].wait \in Nat \ {0}
                           THEN [tasks[s] EXCEPT !.wait = tasks[s].wait - 1] ELSE tasks[s]]
    BY DEF TickedDown
  <1>3. ASSUME NEW s \in Slot
        PROVE  /\ T[s] \in AnyTask \cup {None} /\ (T[s] = None <=> tasks[s] = None)
               /\ tasks[s] # None => /\ Like(tasks[s], T[s]) /\ T[s].state = tasks[s].state
                                     /\ tasks[s].wait = None => T[s] = tasks[s]
    <2>1. CASE tasks[s] # None /\ tasks[s].wait \in Nat \ {0}
      <3>1. tasks[s] \in AnyTask /\ tasks[s].wait \in 1 .. MaxWait /\ MaxWait \in Nat
        BY <1>1, <2>1, SchedAssumption DEF AnyTask, Task
      <3>2. T[s] = [tasks[s] EXCEPT !.wait = tasks[s].wait - 1] /\ tasks[s].wait - 1 \in 0 .. MaxWait
        BY <1>2, <2>1, <3>1
      <3>3. T[s] \in AnyTask /\ Like(tasks[s], T[s]) /\ T[s].state = tasks[s].state
        BY <3>1, <3>2 DEF AnyTask, Task, Like
      <3> QED
        BY <2>1, <3>3, NoneFacts
    <2>2. CASE ~(tasks[s] # None /\ tasks[s].wait \in Nat \ {0})
      <3>1. T[s] = tasks[s]
        BY <1>2, <2>2
      <3> QED
        BY <1>1, <3>1 DEF Like
    <2> QED
      BY <2>1, <2>2
  <1>4. T \in [Slot -> AnyTask \cup {None}]
    BY <1>2, <1>3
  <1> HIDE DEF T
  <1>5. Waits(T)
    BY <1>1, <1>3 DEF Waits, Fit, Present
  <1>6. T[IDLE_SLOT].state \in {"Ready", "Running"}
    BY <1>1, <1>3 DEF Fit, IdleWaits, Present
  <1>7. Fit(T) /\ SpacesOf(T) = SpacesOf(tasks)
    BY <1>1, <1>3, <1>4, <1>5, <1>6, LikeFit DEF Present
  <1>8. T[current] = tasks[current]
    BY <1>1, <1>3 DEF Me
  <1>9. In(T, "Running") \subseteq {current} /\ In(T, "Terminated") = In(tasks, "Terminated")
    BY <1>1, <1>3 DEF In, Is
  <1> QED
    BY <1>1, <1>7, <1>8, <1>9, NoneFacts DEF Schedulable, Me, T

LEMMA TickStep == ASSUME IInv, Undisturbed, Tick PROVE IInv' /\ Buried(tasks)
  <1>1. pc \in {"run", "exit"}
    BY DEF Tick, Interruptible, Undisturbed, IInv, Placed
  <1>2. /\ Schedulable(TickedDown(tasks)) /\ SpacesOf(TickedDown(tasks)) = SpacesOf(tasks)
        /\ TickedDown(tasks)[current] = tasks[current]
        /\ In(TickedDown(tasks), "Terminated") = In(tasks, "Terminated")
    BY <1>1, TickedFit
  <1>3. Schedule(TickedDown(tasks), pc) /\ UNCHANGED <<word, nextId, orphans>>
    BY DEF Tick
  <1>4. stack = Me.id /\ cr3 = Me.cr3 /\ Owned = SpacesOf(tasks) /\ LeftBehind /\ Rest
    BY <1>1 DEF IInv, Placed
  <1>5. pc = "run" \/ Me.state # "Running"
    BY <1>1 DEF IInv, Placed
  <1>6. word' \in [Space -> [Word -> {0, 1}]] /\ nextId' = nextId /\ orphans' = orphans
    BY <1>3, <1>4 DEF Rest
  <1> QED
    BY <1>2, <1>3, <1>4, <1>5, <1>6, ScheduleStep DEF Me, Buried

(* A running task that blocks, with a deadline still to come or none.      *)
LEMMA BlockedFit ==
    ASSUME IInv, User \/ KernelThread, NEW w \in Word \cup {None},
           NEW ticks \in (1 .. MaxWait) \cup {None}
    PROVE  LET T == BlockedOn(w, ticks) IN
           /\ Schedulable(T) /\ SpacesOf(T) = SpacesOf(tasks)
           /\ T[current].id = Me.id /\ T[current].cr3 = Me.cr3
           /\ In(tasks, "Terminated") \subseteq In(T, "Terminated")
  <1> DEFINE T == BlockedOn(w, ticks)
  <1>1. /\ Schedulable(tasks) /\ current \in Present(tasks) /\ Me \in AnyTask
        /\ current # IDLE_SLOT
    BY Running DEF User, KernelThread
  <1>2. Fit(tasks) /\ tasks \in [Slot -> AnyTask \cup {None}] /\ current \in Slot
    BY <1>1 DEF Schedulable, Fit
  <1>3. /\ T[current] = [Me EXCEPT !.state = "Blocked", !.addr = w, !.wait = ticks, !.timedOut = FALSE]
        /\ \A s \in Slot \ {current} : T[s] = tasks[s]
        /\ T = [s \in Slot |-> T[s]]
    BY <1>2 DEF BlockedOn, Me
  <1>4. T[current] \in AnyTask /\ Like(Me, T[current]) /\ T[current].state = "Blocked" /\ T[current].wait # 0
    <2>1. ticks \in (0 .. MaxWait) \cup {None} /\ ticks # 0
      BY NoneFacts, SchedAssumption
    <2>2. T[current].wait = ticks /\ T[current].state = "Blocked"
      BY <1>1, <1>3 DEF AnyTask, Task
    <2>3. Like(Me, T[current])
      BY <1>1, <1>3, <2>1 DEF AnyTask, Task, State, Like
    <2> QED
      BY <2>1, <2>2, <2>3 DEF Like
  <1> HIDE DEF T
  <1>5. T \in [Slot -> AnyTask \cup {None}]
    BY <1>2, <1>3, <1>4
  <1>6. \A s \in Slot : T[s] = None <=> tasks[s] = None
    BY <1>1, <1>3, <1>4, NoneFacts DEF Present
  <1>7. \A s \in Present(tasks) : Like(tasks[s], T[s])
    BY <1>2, <1>3, <1>4 DEF Present, Like, Me
  <1>8. Waits(T) /\ T[IDLE_SLOT].state \in {"Ready", "Running"}
    BY <1>1, <1>2, <1>3, <1>4, <1>6 DEF Waits, Fit, IdleWaits, Present
  <1>9. Fit(T) /\ SpacesOf(T) = SpacesOf(tasks)
    BY <1>2, <1>5, <1>6, <1>7, <1>8, LikeFit
  <1>10. In(T, "Running") \subseteq {current}
    BY <1>1, <1>3 DEF In, Is, Schedulable
  <1>11. In(tasks, "Terminated") \subseteq In(T, "Terminated")
    <2>1. Me.state = "Running"
      BY Running DEF User, KernelThread
    <2> QED
      BY <1>3, <2>1 DEF In, Is, Me
  <1> QED
    BY <1>2, <1>4, <1>9, <1>10, <1>11, NoneFacts DEF Schedulable, Like, T

(* A table in which waiting tasks are woken.                               *)
LEMMA WokenFit ==
    ASSUME NEW T, Fit(T), NoneDue(T), NEW w, NEW max
    PROVE  LET U == Woken(T, w, max) IN
           /\ Fit(U) /\ NoneDue(U) /\ Present(U) = Present(T) /\ SpacesOf(U) = SpacesOf(T)
           /\ In(U, "Running") = In(T, "Running")
           /\ \A s \in Present(T) : Like(T[s], U[s]) /\ (T[s].state # "Blocked" => U[s] = T[s])
  <1> DEFINE U == Woken(T, w, max)
  <1>1. T \in [Slot -> AnyTask \cup {None}]
    BY DEF Fit
  <1>2. ASSUME NEW s \in Slot
        PROVE  /\ U[s] \in AnyTask \cup {None} /\ (U[s] = None <=> T[s] = None)
               /\ T[s] # None => Like(T[s], U[s]) /\ (T[s].state # "Blocked" => U[s] = T[s])
               /\ U[s] = T[s] \/ (T[s] # None /\ T[s].state = "Blocked" /\ U[s].state = "Ready" /\ U[s].wait = None)
    <2>1. U[s] = T[s] \/ (Is(T[s], "Blocked") /\
                          U[s] = [T[s] EXCEPT !.state = "Ready", !.addr = None, !.wait = None, !.timedOut = FALSE])
      BY DEF Woken, In
    <2>2. CASE U[s] = T[s]
      BY <1>1, <2>2 DEF Like
    <2>3. CASE U[s] # T[s]
      <3>1. T[s] \in AnyTask /\ T[s].state = "Blocked" /\ T[s] # None
        BY <1>1, <2>1, <2>3 DEF Is
      <3>2. Like(T[s], U[s]) /\ U[s].state = "Ready" /\ U[s].wait = None
        BY <2>1, <2>3, <3>1, WokenTask
      <3> QED
        BY <3>1, <3>2, NoneFacts DEF Like
    <2> QED
      BY <2>2, <2>3
  <1>3. U = [s \in Slot |-> U[s]]
    BY DEF Woken
  <1> HIDE DEF U
  <1>4. U \in [Slot -> AnyTask \cup {None}]
    BY <1>2, <1>3
  <1>5. Waits(U) /\ U[IDLE_SLOT].state \in {"Ready", "Running"}
    BY <1>2 DEF Waits, Fit, IdleWaits, Present
  <1>6. Fit(U) /\ Present(U) = Present(T) /\ SpacesOf(U) = SpacesOf(T)
    BY <1>2, <1>4, <1>5, LikeFit DEF Present
  <1>7. NoneDue(U)
    BY <1>2, <1>6, NoneFacts DEF NoneDue, Present
  <1>8. In(U, "Running") = In(T, "Running")
    BY <1>2 DEF In, Is
  <1> QED
    BY <1>2, <1>6, <1>7, <1>8 DEF U, Present

(* The table a task leaves when it exits.                                  *)
LEMMA ExitedFit ==
    ASSUME NEW T, Fit(T), NoneDue(T), current \in Present(T), current # IDLE_SLOT,
           T[current].wait = None, In(T, "Running") \subseteq {current}
    PROVE  LET U == Exited(T) IN
           /\ Fit(U) /\ NoneDue(U) /\ Schedulable(U)
           /\ Present(U) = Present(T) /\ SpacesOf(U) = SpacesOf(T)
           /\ In(U, "Running") = {}
           /\ U[current].state = "Terminated" /\ U[current].wait = None
           /\ U[current].id = T[current].id /\ U[current].cr3 = T[current].cr3
           /\ \A s \in Present(T) : T[s].state = "Terminated" => U[s].state = "Terminated"
  <1> DEFINE G == [T EXCEPT ![current].state = "Terminated", ![current].tid = None]
  <1> DEFINE U == Exited(T)
  <1>1. T \in [Slot -> AnyTask \cup {None}] /\ current \in Slot /\ T[current] \in AnyTask /\ T[current] # None
    BY DEF Fit, Present
  <1>2. /\ G[current] = [T[current] EXCEPT !.state = "Terminated", !.tid = None]
        /\ \A s \in Slot \ {current} : G[s] = T[s]
        /\ G = [s \in Slot |-> G[s]]
    BY <1>1
  <1>3. Like(T[current], G[current]) /\ G[current].state = "Terminated" /\ G[current].wait = None
    BY <1>1, <1>2 DEF Like, AnyTask, Task, State
  <1>4. U = G \/ U = Woken(G, Me.tid, Slots)
    BY DEF Exited
  <1> HIDE DEF G, U
  <1>5. G \in [Slot -> AnyTask \cup {None}]
    BY <1>1, <1>2, <1>3 DEF Like
  <1>6. \A s \in Slot : G[s] = None <=> T[s] = None
    BY <1>1, <1>2, <1>3, NoneFacts DEF Like
  <1>7. \A s \in Present(T) : Like(T[s], G[s])
    BY <1>1, <1>2, <1>3 DEF Present, Like
  <1>8. Waits(G) /\ G[IDLE_SLOT].state \in {"Ready", "Running"}
    BY <1>2, <1>3, <1>6 DEF Waits, Fit, IdleWaits, Present
  <1>9. Fit(G) /\ Present(G) = Present(T) /\ SpacesOf(G) = SpacesOf(T)
    BY <1>5, <1>6, <1>7, <1>8, LikeFit
  <1>10. NoneDue(G)
    BY <1>1, <1>2, <1>3, <1>9, NoneFacts DEF NoneDue, Present
  <1>11. In(G, "Running") = {} /\ \A s \in Present(T) : T[s].state = "Terminated" => G[s].state = "Terminated"
    <2>1. ASSUME NEW s \in Slot, Is(G[s], "Running") PROVE FALSE
      <3>1. CASE s = current
        BY <1>3, <2>1, <3>1 DEF Is
      <3>2. CASE s # current
        BY <1>2, <2>1, <3>2 DEF In
      <3> QED
        BY <3>1, <3>2
    <2>2. \A s \in Present(T) : T[s].state = "Terminated" => G[s].state = "Terminated"
      BY <1>2, <1>3 DEF Present
    <2> QED
      BY <2>1, <2>2 DEF In
  <1>12. /\ Fit(U) /\ NoneDue(U) /\ Present(U) = Present(G) /\ SpacesOf(U) = SpacesOf(G)
         /\ In(U, "Running") = In(G, "Running")
         /\ \A s \in Present(G) : Like(G[s], U[s]) /\ (G[s].state # "Blocked" => U[s] = G[s])
    <2>1. CASE U = G
      BY <1>5, <1>9, <1>10, <2>1 DEF Like, Present
    <2>2. CASE U = Woken(G, Me.tid, Slots)
      BY <1>9, <1>10, <2>2, WokenFit
    <2> QED
      BY <1>4, <2>1, <2>2
  <1>13. U[current] = G[current] /\ U[current] # None
    BY <1>3, <1>9, <1>12 DEF Present
  <1>14. Schedulable(U)
    BY <1>1, <1>3, <1>11, <1>12, <1>13, NoneFacts DEF Schedulable
  <1> QED
    BY <1>3, <1>9, <1>11, <1>12, <1>13, <1>14 DEF U, Like

-----------------------------------------------------------------------------
(* The actions.                                                            *)

LEMMA Clears ==
    ASSUME IInv, User
    PROVE  Cleared \in [Space -> [Word -> {0, 1}]]
  <1>1. Me \in AnyTask /\ cr3 = Me.cr3 /\ cr3 \in Space \cup {Kernel} /\ word \in [Space -> [Word -> {0, 1}]]
    BY Running DEF User, IInv, Rest
  <1>2. cr3 \in Space
    BY <1>1 DEF User
  <1>3. CASE Me.tid = None
    BY <1>1, <1>3 DEF Cleared
  <1>4. CASE Me.tid # None
    <2>1. Cleared = [word EXCEPT ![cr3] = [word[cr3] EXCEPT ![Me.tid] = 0]]
      BY <1>4 DEF Cleared
    <2>2. [word[cr3] EXCEPT ![Me.tid] = 0] \in [Word -> {0, 1}]
      BY <1>1, <1>2
    <2> QED
      BY <1>1, <1>2, <2>1, <2>2
  <1> QED
    BY <1>3, <1>4

LEMMA YieldStep == ASSUME IInv, Yield PROVE IInv' /\ Buried(tasks)
  <1>1. pc = "run" /\ Schedule(tasks, "run") /\ UNCHANGED <<word, nextId, orphans>>
    BY DEF Yield, User, KernelThread
  <1>2. Schedulable(tasks) /\ stack = Me.id /\ cr3 = Me.cr3 /\ Owned = SpacesOf(tasks)
    BY <1>1, Running
  <1> QED
    BY <1>1, <1>2, ScheduleStep DEF IInv, Rest, Me

LEMMA BlockStep ==
    ASSUME IInv, User \/ KernelThread, NEW w \in Word \cup {None},
           NEW ticks \in (1 .. MaxWait) \cup {None},
           Schedule(BlockedOn(w, ticks), "run"), UNCHANGED <<word, nextId, orphans>>
    PROVE  IInv' /\ Buried(tasks)
  <1> DEFINE T == BlockedOn(w, ticks)
  <1>1. /\ Schedulable(T) /\ SpacesOf(T) = SpacesOf(tasks)
        /\ T[current].id = Me.id /\ T[current].cr3 = Me.cr3
        /\ In(tasks, "Terminated") \subseteq In(T, "Terminated")
    BY BlockedFit
  <1>2. stack = Me.id /\ cr3 = Me.cr3 /\ Owned = SpacesOf(tasks)
    BY Running DEF User, KernelThread
  <1> HIDE DEF T
  <1>3. Schedule(T, "run")
    BY DEF T
  <1> QED
    BY <1>1, <1>2, <1>3, ScheduleStep DEF IInv, Rest, Buried

LEMMA WakeStep ==
    ASSUME IInv, NEW w \in Word, NEW max, FutexWake(w, max)
    PROVE  IInv' /\ Buried(tasks)
  <1>1. /\ pc = "run" /\ tasks' = Woken(tasks, w, max) /\ Me.cr3 # Kernel
        /\ UNCHANGED <<current, stack, cr3, pc, built, word, nextId, orphans>>
    BY DEF FutexWake, User
  <1>2. /\ Fit(tasks') /\ NoneDue(tasks') /\ Present(tasks') = Present(tasks) /\ SpacesOf(tasks') = SpacesOf(tasks)
        /\ In(tasks', "Running") = In(tasks, "Running")
        /\ \A s \in Present(tasks) :
              Like(tasks[s], tasks'[s]) /\ (tasks[s].state # "Blocked" => tasks'[s] = tasks[s])
    BY <1>1, WokenFit DEF IInv
  <1>3. Fit(tasks)'
    BY <1>1, <1>2 DEF Fit, Named, Waits, IdleWaits
  <1>4. current # IDLE_SLOT /\ current \in Present(tasks)
    BY <1>1, Running
  <1>5. Placed'
    BY <1>1, <1>2, <1>4 DEF IInv, Placed, Me, Like
  <1>6. Buried(tasks)
    BY <1>2 DEF Buried, In, Is, Present
  <1> QED
    BY <1>1, <1>2, <1>3, <1>4, <1>5, <1>6 DEF IInv, Rest, Owned, LeftBehind, Present

LEMMA GroupFit ==
    ASSUME IInv, User
    PROVE  LET T == GroupKilled IN
           /\ Fit(T) /\ NoneDue(T) /\ Present(T) = Present(tasks) /\ SpacesOf(T) = SpacesOf(tasks)
           /\ T[current] = Me /\ In(T, "Running") \subseteq {current}
           /\ \A s \in Present(tasks) :
                 s # current /\ tasks[s].cr3 = Me.cr3 => T[s].state = "Terminated"
           /\ \A s \in In(tasks, "Terminated") : T[s].state = "Terminated"
  <1> DEFINE T == GroupKilled
  <1>1. Fit(tasks) /\ NoneDue(tasks) /\ tasks \in [Slot -> AnyTask \cup {None}] /\ current \in Slot
    BY DEF IInv, Fit
  <1>2. Me.cr3 # Kernel /\ In(tasks, "Running") \subseteq {current}
    BY Running DEF User, Schedulable
  <1>3. ASSUME NEW s \in Slot
        PROVE  /\ T[s] \in AnyTask \cup {None} /\ (T[s] = None <=> tasks[s] = None)
               /\ tasks[s] # None => Like(tasks[s], T[s]) /\ T[s].wait = tasks[s].wait
               /\ T[s] = tasks[s] \/ (tasks[s] # None /\ s # current /\ tasks[s].cr3 = Me.cr3 /\ T[s].state = "Terminated")
               /\ tasks[s] # None /\ s # current /\ tasks[s].cr3 = Me.cr3 => T[s].state = "Terminated"
    <2>1. CASE tasks[s] # None /\ s # current /\ tasks[s].cr3 = Me.cr3
      <3>1. T[s] = [tasks[s] EXCEPT !.state = "Terminated"] /\ tasks[s] \in AnyTask
        BY <1>1, <2>1 DEF GroupKilled
      <3>2. Like(tasks[s], T[s]) /\ T[s].wait = tasks[s].wait /\ T[s].state = "Terminated"
        BY <3>1 DEF Like, AnyTask, Task, State
      <3> QED
        BY <2>1, <3>2, NoneFacts DEF Like
    <2>2. CASE ~(tasks[s] # None /\ s # current /\ tasks[s].cr3 = Me.cr3)
      <3>1. T[s] = tasks[s]
        BY <2>2 DEF GroupKilled
      <3> QED
        BY <1>1, <2>2, <3>1 DEF Like
    <2> QED
      BY <2>1, <2>2
  <1>4. T = [s \in Slot |-> T[s]]
    BY DEF GroupKilled
  <1> HIDE DEF T
  <1>5. T \in [Slot -> AnyTask \cup {None}]
    BY <1>3, <1>4
  <1>6. Waits(T)
    BY <1>1, <1>3 DEF Waits, Fit, Present
  <1>7. T[IDLE_SLOT].state \in {"Ready", "Running"}
    BY <1>1, <1>2, <1>3 DEF Fit, IdleWaits, Present
  <1>8. Fit(T) /\ Present(T) = Present(tasks) /\ SpacesOf(T) = SpacesOf(tasks)
    BY <1>1, <1>3, <1>5, <1>6, <1>7, LikeFit DEF Present
  <1>9. NoneDue(T)
    BY <1>1, <1>3, <1>8 DEF NoneDue, Present
  <1>10. In(T, "Running") \subseteq {current} /\ T[current] = Me
    BY <1>1, <1>2, <1>3 DEF In, Is, Me
  <1>11. \A s \in In(tasks, "Terminated") : T[s].state = "Terminated"
    BY <1>3 DEF In, Is
  <1> QED
    BY <1>3, <1>8, <1>9, <1>10, <1>11 DEF T, Present

LEMMA ExitStep ==
    ASSUME IInv, User, NEW T, T = tasks \/ T = GroupKilled,
           Schedule(Exited(T), "halt"), word' = Cleared, nextId' = nextId, orphans' = orphans
    PROVE  /\ IInv' /\ Buried(tasks)
           /\ T = GroupKilled =>
                 \A s \in Present(tasks) : tasks[s].cr3 = Me.cr3 /\ tasks'[s] # None => tasks'[s].state = "Terminated"
  <1>1. /\ stack = Me.id /\ cr3 = Me.cr3 /\ Owned = SpacesOf(tasks) /\ current \in Present(tasks)
        /\ current # IDLE_SLOT /\ Me.wait = None /\ In(tasks, "Running") \subseteq {current}
    BY Running DEF User, Schedulable
  <1>2. /\ Fit(T) /\ NoneDue(T) /\ Present(T) = Present(tasks) /\ SpacesOf(T) = SpacesOf(tasks)
        /\ T[current] = Me /\ In(T, "Running") \subseteq {current}
        /\ \A s \in In(tasks, "Terminated") : T[s].state = "Terminated"
    BY <1>1, GroupFit DEF IInv, Me, In, Is
  <1> DEFINE U == Exited(T)
  <1>3. /\ Schedulable(U) /\ SpacesOf(U) = SpacesOf(T) /\ U[current].state = "Terminated"
        /\ U[current].id = T[current].id /\ U[current].cr3 = T[current].cr3
        /\ Present(U) = Present(T) /\ \A s \in Present(T) : T[s].state = "Terminated" => U[s].state = "Terminated"
    BY <1>1, <1>2, ExitedFit
  <1>4. Schedule(U, "halt") /\ word' \in [Space -> [Word -> {0, 1}]]
    BY Clears
  <1> HIDE DEF U
  <1>5. IInv' /\ Buried(U)
    BY <1>1, <1>2, <1>3, <1>4, ScheduleStep DEF IInv
  <1>6. Buried(tasks)
    BY <1>2, <1>3, <1>5 DEF Buried, In, Is, Present
  <1>7. ASSUME T = GroupKilled, NEW s \in Present(tasks), tasks[s].cr3 = Me.cr3
        PROVE  s \in In(U, "Terminated")
    <2>1. s # current => T[s].state = "Terminated"
      BY <1>7, GroupFit
    <2>2. U[s].state = "Terminated" /\ s \in Present(U)
      BY <1>2, <1>3, <2>1
    <2> QED
      BY <2>2 DEF In, Is, Present
  <1> QED
    BY <1>5, <1>6, <1>7 DEF Buried

LEMMA KernelExitStep == ASSUME IInv, KernelExit PROVE IInv' /\ Buried(tasks)
  <1>1. /\ KernelThread /\ tasks' = Exited(tasks) /\ pc' = "exit"
        /\ UNCHANGED <<current, stack, cr3, built, word, nextId, orphans>>
    BY DEF KernelExit
  <1>2. /\ stack = Me.id /\ cr3 = Me.cr3 /\ Owned = SpacesOf(tasks) /\ current \in Present(tasks)
        /\ current # IDLE_SLOT /\ Me.wait = None /\ In(tasks, "Running") \subseteq {current}
    BY <1>1, Running DEF KernelThread, Schedulable
  <1>3. /\ Fit(tasks') /\ NoneDue(tasks')
        /\ Present(tasks') = Present(tasks) /\ SpacesOf(tasks') = SpacesOf(tasks)
        /\ In(tasks', "Running") = {}
        /\ tasks'[current].state = "Terminated" /\ tasks'[current].wait = None
        /\ tasks'[current].id = Me.id /\ tasks'[current].cr3 = Me.cr3
        /\ \A s \in Present(tasks) : tasks[s].state = "Terminated" => tasks'[s].state = "Terminated"
    BY <1>1, <1>2, ExitedFit DEF IInv, Me
  <1>4. Fit(tasks)'
    BY <1>1, <1>3 DEF Fit, Named, Waits, IdleWaits
  <1>5. Placed'
    BY <1>1, <1>2, <1>3 DEF Placed, Me
  <1>6. Buried(tasks)
    BY <1>3 DEF Buried, In, Is, Present
  <1> QED
    BY <1>1, <1>2, <1>3, <1>4, <1>5, <1>6 DEF IInv, Rest, Owned, LeftBehind, Present

LEMMA KillStep == ASSUME IInv, Undisturbed, NEW s \in Slot, Kill(s) PROVE IInv' /\ Buried(tasks)
  <1>1. /\ KernelThread /\ s \in Present(tasks) /\ s # current /\ Kind(tasks[s]) \in Mortal
        /\ tasks' = [tasks EXCEPT ![s].state = "Terminated"]
        /\ UNCHANGED <<current, stack, cr3, pc, built, word, nextId, orphans>>
    BY DEF Kill
  <1>2. /\ current \in Present(tasks) /\ current # IDLE_SLOT /\ pc = "run"
        /\ Fit(tasks) /\ tasks \in [Slot -> AnyTask \cup {None}]
    BY <1>1, Running DEF KernelThread, Schedulable, Fit
  <1>3. s # IDLE_SLOT
    BY <1>1, <1>2 DEF Undisturbed, Kind, Fit, IdleWaits
  <1>4. /\ tasks'[s] = [tasks[s] EXCEPT !.state = "Terminated"] /\ tasks[s] \in AnyTask
        /\ \A r \in Slot \ {s} : tasks'[r] = tasks[r]
        /\ tasks' = [r \in Slot |-> tasks'[r]]
    BY <1>1, <1>2 DEF Present
  <1>5. Like(tasks[s], tasks'[s]) /\ tasks'[s].state = "Terminated" /\ tasks'[s].wait = tasks[s].wait
    BY <1>4 DEF Like, AnyTask, Task, State
  <1>6. tasks' \in [Slot -> AnyTask \cup {None}] /\ \A r \in Slot : tasks'[r] = None <=> tasks[r] = None
    BY <1>1, <1>2, <1>4, <1>5, NoneFacts DEF Like, Present
  <1>7. \A r \in Present(tasks) : Like(tasks[r], tasks'[r])
    BY <1>2, <1>4, <1>5 DEF Like, Present
  <1>8. Waits(tasks') /\ tasks'[IDLE_SLOT].state \in {"Ready", "Running"}
    BY <1>2, <1>3, <1>4, <1>5, <1>6 DEF Waits, Fit, IdleWaits, Present
  <1>9. Fit(tasks') /\ Present(tasks') = Present(tasks) /\ SpacesOf(tasks') = SpacesOf(tasks)
    BY <1>2, <1>6, <1>7, <1>8, LikeFit
  <1>10. NoneDue(tasks')
    BY <1>1, <1>4, <1>5, <1>9 DEF NoneDue, IInv, Present
  <1>11. In(tasks', "Running") = {current}
    BY <1>1, <1>2, <1>4, <1>5 DEF In, Is, IInv, Placed
  <1>12. tasks'[current] = Me
    BY <1>1, <1>2, <1>4 DEF Me, Present
  <1>13. Placed'
    BY <1>1, <1>2, <1>11, <1>12 DEF Placed, IInv, Me
  <1>14. Fit(tasks)'
    <2>1. nextId' = nextId
      BY <1>1
    <2> QED
      BY <1>9, <2>1 DEF Fit, Named, Waits, IdleWaits
  <1>15. Buried(tasks)
    BY <1>4, <1>5 DEF Buried, In, Is
  <1> QED
    BY <1>1, <1>9, <1>10, <1>12, <1>13, <1>14, <1>15 DEF IInv, Rest, Owned, LeftBehind, Me

(* A task in a free slot, of an address space that there is from now on.   *)
LEMMA SpawnStep ==
    ASSUME IInv, User \/ KernelThread, NEW space \in Space \cup {Kernel}, NEW w \in Word \cup {None},
           Spawn(tasks, space, w), built' = built \cup ({space} \ {Kernel}),
           orphans' = orphans, space \notin orphans,
           word' \in [Space -> [Word -> {0, 1}]]
    PROVE  IInv' /\ Buried(tasks)
  <1> DEFINE t == NewTask(nextId, space, w)
  <1>1. PICK s \in Slot \ Present(tasks) : tasks' = [tasks EXCEPT ![s] = t]
    BY DEF Spawn
  <1>2. nextId \in 2 .. MaxId /\ nextId < MaxId /\ nextId' = nextId + 1 /\ UNCHANGED <<current, stack, cr3, pc>>
    BY DEF Spawn, IInv, Rest
  <1>3. /\ current \in Present(tasks) /\ current # IDLE_SLOT /\ pc = "run"
        /\ Fit(tasks) /\ NoneDue(tasks) /\ tasks \in [Slot -> AnyTask \cup {None}]
        /\ In(tasks, "Running") = {current} /\ Owned = SpacesOf(tasks)
    BY Running DEF User, KernelThread, IInv, Fit, Placed
  <1>4. /\ t \in AnyTask /\ t.id = nextId /\ t.saved = nextId /\ t.cr3 = space
        /\ t.state = "Ready" /\ t.wait = None
    BY <1>2, SchedAssumption DEF NewTask, AnyTask, Task, State
  <1> HIDE DEF t
  <1>5. tasks'[s] = t /\ \A r \in Slot \ {s} : tasks'[r] = tasks[r]
    BY <1>1, <1>3
  <1>6. tasks' \in [Slot -> AnyTask \cup {None}]
    BY <1>1, <1>3, <1>4
  <1>7. Present(tasks') = Present(tasks) \cup {s} /\ s \notin Present(tasks)
    BY <1>1, <1>4, <1>5, NoneFacts DEF Present
  <1>8. nextId \in Nat /\ \A r \in Present(tasks) : tasks'[r] = tasks[r] /\ tasks[r].id \in Nat /\ tasks[r].id < nextId
    BY <1>2, <1>3, <1>5, <1>7, SchedAssumption DEF Fit, Named, Present, AnyTask, Task
  <1>9. Named(tasks)'
    <2>1. \A r \in Present(tasks)' : tasks'[r].id < nextId' /\ tasks'[r].saved = tasks'[r].id
      BY <1>2, <1>3, <1>4, <1>5, <1>7, <1>8 DEF Fit, Named
    <2>2. \A q, r \in Present(tasks)' : tasks'[q].id = tasks'[r].id => q = r
      BY <1>3, <1>4, <1>5, <1>7, <1>8 DEF Fit, Named
    <2> QED
      BY <2>1, <2>2 DEF Named
  <1>10. Waits(tasks') /\ NoneDue(tasks')
    BY <1>3, <1>4, <1>5, <1>7, <1>8, NoneFacts DEF Waits, Fit, NoneDue
  <1>11. IdleWaits(tasks')
    BY <1>3, <1>7, <1>8 DEF Fit, IdleWaits
  <1>12. Fit(tasks)'
    BY <1>6, <1>9, <1>10, <1>11 DEF Fit, Named, Waits, IdleWaits
  <1>13. Owned' = SpacesOf(tasks') /\ LeftBehind'
    <2>1. Owned' = Owned \cup ({space} \ {Kernel}) /\ LeftBehind'
      BY DEF IInv, Owned, LeftBehind
    <2> QED
      BY <1>3, <1>4, <1>5, <1>7, <1>8, <2>1 DEF SpacesOf
  <1>14. tasks'[current] = Me
    BY <1>3, <1>8 DEF Me
  <1>15. In(tasks', "Running") = {current}
    <2>1. ASSUME NEW r \in Slot, Is(tasks'[r], "Running") PROVE r = current
      BY <1>3, <1>4, <1>5, <2>1 DEF In, Is
    <2>2. Is(tasks'[current], "Running") /\ current \in Slot
      BY <1>3, <1>14 DEF In, Is, Me
    <2> QED
      BY <2>1, <2>2 DEF In
  <1>16. Placed'
    BY <1>2, <1>3, <1>14, <1>15 DEF Placed, IInv, Me
  <1>17. Rest' /\ current' \in Slot /\ tasks'[current'] # None
    BY <1>2, <1>3, <1>14, SchedAssumption DEF IInv, Rest, Me, Present
  <1>18. Buried(tasks)
    BY <1>8 DEF Buried, In, Is, Present
  <1> QED
    BY <1>10, <1>12, <1>13, <1>16, <1>17, <1>18 DEF IInv, NoneDue, SpacesOf, Present

(* A program that was not started: no task has its address space.          *)
LEMMA LoadFailsStep == ASSUME IInv, NEW space \in Space, LoadFails(space) PROVE IInv' /\ Buried(tasks)
  <1>1. /\ space \notin built /\ built' = built \cup {space} /\ orphans' = orphans \cup {space}
        /\ UNCHANGED <<tasks, current, stack, cr3, pc, word, nextId>>
    BY DEF LoadFails
  <1>2. Owned' = Owned /\ LeftBehind'
    BY <1>1 DEF IInv, Owned, LeftBehind
  <1>3. Fit(tasks)' /\ Placed' /\ Rest'
    BY <1>1 DEF IInv, Fit, Named, Waits, IdleWaits, Placed, Rest, Present, In, Is, Me
  <1> QED
    BY <1>1, <1>2, <1>3 DEF IInv, NoneDue, SpacesOf, Present, Buried, In, Is

(* The exit of a kernel thread: schedule() under the lock, ...             *)
LEMMA ExitPicksStep == ASSUME IInv, ExitPicks PROVE IInv' /\ Buried(tasks)
  <1> DEFINE E == Expired(tasks)
  <1> DEFINE L == Reaped(E)
  <1> DEFINE next == Picked(L)
  <1> DEFINE C == Chosen(L, next)
  <1>1. /\ pc = "exit" /\ built' = built \ Destroyed(E) /\ tasks' = C /\ current' = next
        /\ pc' = IF next = current THEN "halt" ELSE "switch"
        /\ UNCHANGED <<stack, cr3, word, nextId, orphans>>
    BY DEF ExitPicks
  <1>2. /\ Schedulable(tasks) /\ Me.state = "Terminated" /\ stack = Me.id /\ cr3 = Me.cr3
        /\ Owned = SpacesOf(tasks) /\ LeftBehind
    BY <1>1, NoneFacts DEF IInv, Placed, Schedulable, Me
  <1>3. /\ Schedulable(E) /\ NonePassed(E) /\ SpacesOf(E) = SpacesOf(tasks) /\ E[current] = Me
        /\ In(E, "Terminated") = In(tasks, "Terminated")
    BY <1>2, ExpiredFit DEF Me
  <1>4. /\ Schedulable(L) /\ L[current] = E[current]
        /\ \A s \in Present(L) : L[s] = E[s] /\ E[s].wait # 0
        /\ Present(L) = Present(E) \ Doomed(E)
    <2> HIDE DEF E
    <2> QED
      BY <1>3, ReapedFit
  <1>5. SpacesOf(L) = SpacesOf(E) \ Destroyed(E)
    <2> HIDE DEF E
    <2> QED
      BY <1>3, DestroyedExact
  <1>6. NoneDue(L) /\ current \in Present(L)
    BY <1>4 DEF NoneDue, Schedulable, Present
  <1>7. /\ next \in Present(L)
        /\ Fit(C) /\ NoneDue(C) /\ Present(C) = Present(L) /\ SpacesOf(C) = SpacesOf(L)
        /\ In(C, "Running") = {next}
        /\ next = IDLE_SLOT => In(C, "Ready") = {}
        /\ \A s \in Present(L) : C[s].id = L[s].id /\ C[s].cr3 = L[s].cr3 /\ C[s].saved = L[s].saved
        /\ next = current => L[current].state = "Running"
        /\ L[current].state = "Terminated" => C[current].state = "Terminated"
    <2> HIDE DEF L
    <2> QED
      BY <1>4, <1>6, ChosenFit
  <1> HIDE DEF E, L, C, next
  <1>8. next \in Slot /\ C[next] # None /\ pc' = "switch"
    BY <1>1, <1>2, <1>3, <1>4, <1>7 DEF Present
  <1>9. C[current].id = stack /\ C[current].cr3 = cr3 /\ current \in Present(C)
    BY <1>2, <1>3, <1>4, <1>6, <1>7
  <1>10. Placed'
    BY <1>1, <1>7, <1>8, <1>9 DEF Placed, Me
  <1>11. Fit(tasks)'
    BY <1>1, <1>7 DEF Fit, Named, Waits, IdleWaits
  <1>12. Owned' = SpacesOf(tasks') /\ LeftBehind'
    BY <1>1, <1>2, <1>3, <1>5, <1>7, SweepLeaves
  <1>13. ASSUME NEW s \in In(tasks, "Terminated"), C[s] # None PROVE C[s].state = "Terminated"
    <2>1. s \in In(E, "Terminated") /\ s \in Slot
      BY <1>3 DEF In
    <2>2. s \in Present(L)
      BY <1>7, <1>13, <2>1 DEF Present
    <2>3. s = current
      BY <1>4, <2>1, <2>2 DEF Doomed
    <2> QED
      BY <1>2, <1>3, <1>4, <1>7, <2>3
  <1> QED
    BY <1>1, <1>7, <1>8, <1>10, <1>11, <1>12, <1>13 DEF IInv, Rest, NoneDue, SpacesOf, Present, Buried

(* ... and the switch, if it is what comes next.                           *)
LEMMA ExitSwitchesStep == ASSUME IInv, ExitSwitches PROVE IInv' /\ Buried(tasks)
  <1>1. /\ pc = "switch" /\ tasks' = Resumed(tasks, current) /\ stack' = Me.saved /\ cr3' = Me.cr3
        /\ pc' = "run" /\ UNCHANGED <<current, built, word, nextId, orphans>>
    BY DEF ExitSwitches
  <1>2. Fit(tasks) /\ NoneDue(tasks) /\ tasks \in [Slot -> AnyTask \cup {None}] /\ current \in Slot /\ Me # None /\ Me \in AnyTask
    BY DEF IInv, Fit, Me
  <1>3. tasks'[current] = [Me EXCEPT !.timedOut = FALSE] /\ \A s \in Slot \ {current} : tasks'[s] = tasks[s]
    BY <1>1, <1>2 DEF Resumed, Me
  <1>4. Alike(Me, tasks'[current]) /\ tasks'[current] # None
    BY <1>2, <1>3, NoneFacts DEF Alike, Like, AnyTask, Task
  <1>5. tasks' \in [Slot -> AnyTask \cup {None}]
    <2>1. tasks' = [s \in Slot |-> tasks'[s]]
      BY <1>1, <1>2 DEF Resumed
    <2>2. \A s \in Slot : tasks'[s] \in AnyTask \cup {None}
      BY <1>2, <1>3, <1>4 DEF Alike, Like
    <2> QED
      BY <2>1, <2>2
  <1>6. /\ \A s \in Slot : tasks'[s] = None <=> tasks[s] = None
        /\ \A s \in Present(tasks) : Alike(tasks[s], tasks'[s])
    BY <1>2, <1>3, <1>4 DEF Alike, Like, Me, Present
  <1>7. /\ Fit(tasks') /\ NoneDue(tasks') /\ Present(tasks') = Present(tasks) /\ SpacesOf(tasks') = SpacesOf(tasks)
        /\ In(tasks', "Running") = In(tasks, "Running") /\ In(tasks', "Ready") = In(tasks, "Ready")
    BY <1>2, <1>5, <1>6, AlikeFit
  <1>8. Me.saved = Me.id /\ tasks'[current].id = Me.id /\ tasks'[current].cr3 = Me.cr3
    BY <1>2, <1>4 DEF Fit, Named, Alike, Like, Me, Present
  <1>9. Placed'
    BY <1>1, <1>7, <1>8 DEF IInv, Placed, Me
  <1>10. Fit(tasks)'
    BY <1>1, <1>7 DEF Fit, Named, Waits, IdleWaits
  <1>11. Rest'
    BY <1>1, <1>2 DEF IInv, Rest, AnyTask, Task
  <1>12. Buried(tasks)
    BY <1>6 DEF Buried, In, Is, Alike, Present
  <1> QED
    BY <1>1, <1>4, <1>7, <1>9, <1>10, <1>11, <1>12 DEF IInv, Owned, LeftBehind, NoneDue, SpacesOf, Present

-----------------------------------------------------------------------------
LEMMA InitIInv == Init => IInv
  <1> SUFFICES ASSUME Init PROVE IInv
    OBVIOUS
  <1> DEFINE shell == [NewTask(ShellId, Kernel, None) EXCEPT !.state = "Running"]
  <1> DEFINE idle == NewTask(IdleId, Kernel, None)
  <1>1. /\ shell \in AnyTask /\ shell.id = 0 /\ shell.saved = 0 /\ shell.cr3 = Kernel
        /\ shell.state = "Running" /\ shell.wait = None
    BY SchedAssumption DEF NewTask, AnyTask, Task, State, ShellId
  <1>2. /\ idle \in AnyTask /\ idle.id = 1 /\ idle.saved = 1 /\ idle.cr3 = Kernel
        /\ idle.state = "Ready" /\ idle.wait = None
    BY SchedAssumption DEF NewTask, AnyTask, Task, State, IdleId
  <1>3. tasks = [s \in Slot |-> IF s = 0 THEN shell ELSE IF s = IDLE_SLOT THEN idle ELSE None]
    BY DEF Init
  <1> HIDE DEF shell, idle
  <1>4. 0 \in Slot /\ 1 \in Slot /\ IDLE_SLOT = 1
    BY SchedAssumption DEF Slot, IDLE_SLOT
  <1>5. tasks[0] = shell /\ tasks[1] = idle /\ \A s \in Slot \ {0, 1} : tasks[s] = None
    BY <1>3, <1>4
  <1>6. Present(tasks) = {0, 1}
    BY <1>1, <1>2, <1>4, <1>5, NoneFacts DEF Present
  <1>7. tasks \in [Slot -> AnyTask \cup {None}]
    BY <1>1, <1>2, <1>3
  <1>8. current = 0 /\ stack = 0 /\ cr3 = Kernel /\ pc = "run" /\ built = {} /\ orphans = {} /\ nextId = 2
    BY DEF Init, ShellId
  <1>9. Named(tasks) /\ Waits(tasks) /\ IdleWaits(tasks) /\ NoneDue(tasks)
    BY <1>1, <1>2, <1>4, <1>5, <1>6, <1>8, NoneFacts DEF Named, Waits, IdleWaits, NoneDue, IdleId
  <1>10. SpacesOf(tasks) = {}
    BY <1>1, <1>2, <1>5, <1>6 DEF SpacesOf
  <1>11. In(tasks, "Running") = {current}
    BY <1>1, <1>2, <1>4, <1>5, <1>8, NoneFacts DEF In, Is
  <1>12. Placed
    BY <1>1, <1>4, <1>5, <1>8, <1>11 DEF Placed, Me
  <1>13. Rest
    BY <1>8, SchedAssumption DEF Init, Rest
  <1> QED
    BY <1>1, <1>4, <1>5, <1>7, <1>8, <1>9, <1>10, <1>12, <1>13, NoneFacts DEF IInv, Owned, LeftBehind, Fit

LEMMA NextIInv == Undisturbed /\ IInv /\ [Next]_vars => IInv' /\ Buried(tasks)
  <1> SUFFICES ASSUME Undisturbed, IInv, [Next]_vars PROVE IInv' /\ Buried(tasks)
    OBVIOUS
  <1>1. CASE Tick
    BY <1>1, TickStep
  <1>2. CASE SpawnKernel
    <2>1. word' \in [Space -> [Word -> {0, 1}]] /\ built' = built \cup ({Kernel} \ {Kernel}) /\ Kernel \notin orphans
      BY <1>2, SchedAssumption DEF SpawnKernel, IInv, Rest, LeftBehind
    <2> QED
      BY <1>2, <2>1, SpawnStep DEF SpawnKernel
  <1>3. CASE SpawnThread
    <2>1. pc = "run"
      BY <1>3 DEF SpawnThread, User
    <2>2. Me \in AnyTask /\ Me.cr3 \in SpacesOf(tasks) \cup {Kernel} /\ Owned = SpacesOf(tasks)
      BY <2>1, Running DEF SpacesOf, Me
    <2>3. Me.cr3 \in Space \cup {Kernel}
      BY <2>2 DEF AnyTask, Task
    <2>4. word' \in [Space -> [Word -> {0, 1}]] /\ built' = built \cup ({Me.cr3} \ {Kernel}) /\ Me.cr3 \notin orphans
      BY <1>3, <2>2, SchedAssumption DEF SpawnThread, IInv, Rest, Owned, LeftBehind
    <2> QED
      BY <1>3, <2>3, <2>4, SpawnStep DEF SpawnThread
  <1>4. CASE Yield
    BY <1>4, YieldStep
  <1>5. CASE Exit
    BY <1>5, ExitStep DEF Exit
  <1>6. CASE ExitGroup
    BY <1>6, ExitStep DEF ExitGroup
  <1>7. CASE KernelExit
    BY <1>7, KernelExitStep
  <1>8. ASSUME NEW space \in Space, SpawnUser(space) PROVE IInv' /\ Buried(tasks)
    <2>1. word' \in [Space -> [Word -> {0, 1}]] /\ built' = built \cup ({space} \ {Kernel}) /\ space \notin orphans
      BY <1>8, SchedAssumption DEF SpawnUser, IInv, Rest, LeftBehind
    <2> QED
      BY <1>8, <2>1, SpawnStep DEF SpawnUser
  <1>9. ASSUME NEW w \in Word, Clone(w) PROVE IInv' /\ Buried(tasks)
    <2>1. pc = "run" /\ Me.cr3 # Kernel
      BY <1>9 DEF Clone, User
    <2>2. Me \in AnyTask /\ Me.cr3 \in SpacesOf(tasks) /\ Owned = SpacesOf(tasks) /\ cr3 = Me.cr3
      BY <2>1, Running DEF SpacesOf, Me
    <2>3. cr3 \in Space
      BY <2>1, <2>2 DEF AnyTask, Task
    <2>4. word' \in [Space -> [Word -> {0, 1}]]
      <3>1. word' = [word EXCEPT ![cr3] = [word[cr3] EXCEPT ![w] = 1]]
        BY <1>9 DEF Clone
      <3>2. [word[cr3] EXCEPT ![w] = 1] \in [Word -> {0, 1}]
        BY <2>3 DEF IInv, Rest
      <3> QED
        BY <2>3, <3>1, <3>2 DEF IInv, Rest
    <2>5. built' = built \cup ({cr3} \ {Kernel}) /\ cr3 \notin orphans
      BY <1>9, <2>2 DEF Clone, Owned
    <2> QED
      BY <1>9, <2>3, <2>4, <2>5, SpawnStep DEF Clone
  <1>10. ASSUME NEW ticks \in 1 .. MaxWait, Sleep(ticks) PROVE IInv' /\ Buried(tasks)
    BY <1>10, BlockStep DEF Sleep
  <1>11. ASSUME NEW w \in Word, NEW ticks \in (1 .. MaxWait) \cup {None}, FutexWait(w, ticks) PROVE IInv' /\ Buried(tasks)
    BY <1>11, BlockStep DEF FutexWait
  <1>12. ASSUME NEW w \in Word, NEW max \in {1, Slots}, FutexWake(w, max) PROVE IInv' /\ Buried(tasks)
    BY <1>12, WakeStep
  <1>13. ASSUME NEW s \in Slot, Kill(s) PROVE IInv' /\ Buried(tasks)
    BY <1>13, KillStep
  <1>14. CASE ExitPicks
    BY <1>14, ExitPicksStep
  <1>15. CASE ExitSwitches
    BY <1>15, ExitSwitchesStep
  <1>16. CASE UNCHANGED vars
    <2>1. UNCHANGED <<tasks, current, stack, cr3, pc, built, word, nextId, orphans>>
      BY <1>16 DEF vars
    <2>2. Fit(tasks)' /\ Placed' /\ Rest'
      BY <2>1 DEF IInv, Fit, Named, Waits, IdleWaits, Placed, Rest, Present, In, Is, Me
    <2> QED
      BY <2>1, <2>2 DEF IInv, Owned, LeftBehind, NoneDue, SpacesOf, Present, Buried, In, Is
  <1>17. ASSUME NEW space \in Space, LoadFails(space) PROVE IInv' /\ Buried(tasks)
    BY <1>17, LoadFailsStep
  <1> QED
    BY <1>1, <1>2, <1>3, <1>4, <1>5, <1>6, <1>7, <1>8, <1>9, <1>10, <1>11, <1>12, <1>13, <1>14, <1>15, <1>16, <1>17
    DEF Next, Process, Exiting

-----------------------------------------------------------------------------
(* What the invariant says of the properties.                              *)
LEMMA NoneDueTyped ==
    ASSUME NEW T, Fit(T), NoneDue(T) PROVE T \in [Slot -> Task(1 .. MaxWait) \cup {None}]
  <1>1. T \in [Slot -> AnyTask \cup {None}]
    BY DEF Fit
  <1>2. ASSUME NEW s \in Slot, T[s] # None PROVE T[s] \in Task(1 .. MaxWait)
    <2>1. T[s] \in AnyTask /\ T[s].wait # 0
      BY <1>1, <1>2 DEF NoneDue, Present
    <2>2. \A i \in 0 .. MaxWait : i # 0 => i \in 1 .. MaxWait
      BY SchedAssumption
    <2>3. T[s].wait \in (1 .. MaxWait) \cup {None}
      BY <2>1, <2>2 DEF AnyTask, Task
    <2> QED
      BY <2>1, <2>3 DEF AnyTask, Task
  <1> QED
    BY <1>1, <1>2

LEMMA IInvImplies ==
    ASSUME IInv
    PROVE  TypeOK /\ OnOwnStack /\ OneRuns /\ SpacesExact
  <1>1. /\ Fit(tasks) /\ NoneDue(tasks) /\ Placed /\ Rest /\ Owned = SpacesOf(tasks) /\ LeftBehind
        /\ current \in Present(tasks) /\ Present(tasks) \subseteq Slot
    BY DEF IInv, Present
  <1>2. \A s \in Present(tasks) : tasks[s] \in AnyTask
    BY <1>1 DEF Fit, Present
  <1>3. TypeOK
    <2>1. tasks \in [Slot -> Task(1 .. MaxWait) \cup {None}]
      BY <1>1, NoneDueTyped
    <2>2. built \subseteq Space /\ orphans \subseteq Space
      BY <1>1, <1>2 DEF Owned, LeftBehind, SpacesOf, AnyTask, Task
    <2> QED
      BY <1>1, <2>1, <2>2 DEF TypeOK, Rest, Placed, Place
  <1>4. OnOwnStack
    <2>1. \E s \in Present(tasks) : tasks[s].id = stack
      BY <1>1 DEF Placed, Me
    <2> QED
      BY <1>1, <2>1 DEF OnOwnStack, Placed, Fit, Named, Me, Present
  <1>5. OneRuns
    BY <1>1 DEF OneRuns, Placed
  <1>6. SpacesExact
    <2>1. \E s \in Present(tasks) : tasks[s].cr3 = cr3
      BY <1>1 DEF Placed, Me
    <2>2. cr3 \in Owned \cup {Kernel}
      BY <1>1, <2>1 DEF SpacesOf
    <2> QED
      BY <1>1, <2>2 DEF SpacesExact, SpacesOf, Owned, LeftBehind, Placed
  <1> QED
    BY <1>3, <1>4, <1>5, <1>6

LEMMA SpecIInv == Undisturbed => (Spec => []IInv)
  <1> SUFFICES ASSUME Undisturbed PROVE Spec => []IInv
    OBVIOUS
  <1>1. Init => IInv
    BY InitIInv
  <1>2. IInv /\ [Next]_vars => IInv'
    BY NextIInv
  <1> QED
    BY <1>1, <1>2, PTL DEF Spec

(* The table is what task.rs declares it to be, and no step of the         *)
(* scheduler leaves a deadline behind that has passed.                     *)
THEOREM Typing == Undisturbed => (Spec => []TypeOK)
  <1>1. IInv => TypeOK
    BY IInvImplies
  <1> QED
    BY <1>1, SpecIInv, PTL

(* schedule(), task_exit and the sweep never free the stack the CPU is on, *)
(* and never save one task's context as another's.                         *)
THEOREM StacksAreKept == Undisturbed => (Spec => []OnOwnStack)
  <1>1. IInv => OnOwnStack
    BY IInvImplies
  <1> QED
    BY <1>1, SpecIInv, PTL

(* The current task is the one task in state Running: nothing blocked or   *)
(* terminated goes on executing; and it is the idle task only when no      *)
(* other task could run.                                                   *)
THEOREM OneTaskRuns == Undisturbed => (Spec => []OneRuns)
  <1>1. IInv => OneRuns
    BY IInvImplies
  <1> QED
    BY <1>1, SpecIInv, PTL

(* The sweep destroys an address space exactly with its last task: none is *)
(* destroyed that a task has, or the CPU has loaded, and none is left over *)
(* but those of programs that the loader did not get to start.             *)
THEOREM SpacesAreExact == Undisturbed => (Spec => []SpacesExact)
  <1>1. IInv => SpacesExact
    BY IInvImplies
  <1> QED
    BY <1>1, SpecIInv, PTL

(* A dead task never comes back, and exit_group leaves none of its group.  *)
THEOREM TheDeadStayDead == Undisturbed => (Spec => DeadStayDead)
  <1> SUFFICES ASSUME Undisturbed PROVE Spec => DeadStayDead
    OBVIOUS
  <1>1. ASSUME IInv, [Next]_vars
        PROVE  [/\ \A s \in In(tasks, "Terminated") : StaysDead(s)
                /\ ExitGroup => \A s \in Present(tasks) : tasks[s].cr3 = Me.cr3 => StaysDead(s)]_vars
    <2>1. \A s \in In(tasks, "Terminated") : StaysDead(s)
      BY <1>1, NextIInv DEF Buried, StaysDead
    <2>2. ASSUME ExitGroup, NEW s \in Present(tasks), tasks[s].cr3 = Me.cr3 PROVE StaysDead(s)
      BY <1>1, <2>2, ExitStep DEF ExitGroup, StaysDead
    <2> QED
      BY <2>1, <2>2
  <1> QED
    BY <1>1, SpecIInv, PTL DEF Spec, DeadStayDead

-----------------------------------------------------------------------------
(* Who waits in pthread_join has a thread to wait for, as long as no       *)
(* thread is killed by itself (see MCSchedJoin).                           *)

ThreadsLive == Undisturbed /\ "thread" \notin Mortal

Live(T) == Present(T) \ In(T, "Terminated")
Held(T, c, w) == \E r \in Live(T) : T[r].cr3 = c /\ T[r].tid = w
Joining(t) == t.state = "Blocked" /\ t.addr # None /\ t.wait = None

(* In table T each joiner's word is some live thread's; in a space that    *)
(* still has a live task, so is every word of W that holds a tid, which is *)
(* what FUTEX_WAIT goes by; and kernel threads have no word to clear.      *)
Joined(T) == \A s \in Present(T) : Joining(T[s]) => Held(T, T[s].cr3, T[s].addr)
WordsHeld(T, W) ==
    \A s \in Live(T) : T[s].cr3 # Kernel =>
        \A w \in Word : W[T[s].cr3][w] = 1 => Held(T, T[s].cr3, w)
OnlyUsers(T) == \A s \in Present(T) : T[s].cr3 = Kernel => T[s].tid = None
Provided(T, W) == Joined(T) /\ WordsHeld(T, W) /\ OnlyUsers(T)

(* What schedule() does to the tasks: it takes dead ones away, wakes some, *)
(* and lets none but the living and none but the joining be so.            *)
Kept(t, u) ==
    /\ u.cr3 = t.cr3 /\ u.tid = t.tid
    /\ u.state = "Terminated" <=> t.state = "Terminated"
    /\ Joining(u) => Joining(t) /\ u.addr = t.addr
Tame(T, U) ==
    \A s \in Slot :
        /\ U[s] # None => T[s] # None /\ Kept(T[s], U[s])
        /\ T[s] # None /\ T[s].state # "Terminated" => U[s] # None

LEMMA Tamely ==
    ASSUME NEW T, NEW U, NEW V, Tame(T, U), Tame(U, V) PROVE Tame(T, V)
  <1> SUFFICES ASSUME NEW s \in Slot
               PROVE  /\ V[s] # None => T[s] # None /\ Kept(T[s], V[s])
                      /\ T[s] # None /\ T[s].state # "Terminated" => V[s] # None
    BY DEF Tame
  <1>1. V[s] # None => U[s] # None /\ Kept(U[s], V[s])
    BY DEF Tame
  <1>2. U[s] # None => T[s] # None /\ Kept(T[s], U[s])
    BY DEF Tame
  <1>3. /\ T[s] # None /\ T[s].state # "Terminated" => U[s] # None
        /\ U[s] # None /\ U[s].state # "Terminated" => V[s] # None
    BY DEF Tame
  <1> QED
    BY <1>1, <1>2, <1>3 DEF Kept

LEMMA TameHeld ==
    ASSUME NEW T, NEW U, Tame(T, U)
    PROVE  /\ Live(U) = Live(T)
           /\ \A c, w : Held(T, c, w) => Held(U, c, w)
  <1>1. \A s \in Slot : U[s] # None => T[s] # None /\ Kept(T[s], U[s])
    BY DEF Tame
  <1>2. Live(U) = Live(T)
    BY <1>1 DEF Tame, Kept, Live, Present, In, Is
  <1>3. \A s \in Live(T) : T[s].cr3 = U[s].cr3 /\ T[s].tid = U[s].tid
    BY <1>1, <1>2 DEF Kept, Live, Present
  <1> QED
    BY <1>2, <1>3 DEF Held

LEMMA TameProvided ==
    ASSUME NEW T, NEW U, NEW W, Tame(T, U), Provided(T, W)
    PROVE  Provided(U, W)
  <1>1. Live(U) = Live(T) /\ \A c, w : Held(T, c, w) => Held(U, c, w)
    BY TameHeld
  <1>2. \A s \in Present(U) : s \in Present(T) /\ Kept(T[s], U[s])
    BY DEF Tame, Present
  <1>3. Joined(U)
    BY <1>1, <1>2 DEF Provided, Joined, Kept
  <1>4. WordsHeld(U, W)
    <2>1. \A s \in Live(U) : s \in Live(T) /\ U[s].cr3 = T[s].cr3
      BY <1>1, <1>2 DEF Live, Kept
    <2> QED
      BY <1>1, <2>1 DEF Provided, WordsHeld
  <1>5. OnlyUsers(U)
    BY <1>2 DEF Provided, OnlyUsers, Kept
  <1> QED
    BY <1>3, <1>4, <1>5 DEF Provided

(* A task made ready by a time-out or a wake.                              *)
LEMMA KeptWoken ==
    ASSUME NEW t \in AnyTask, NEW b \in BOOLEAN, t.state = "Blocked"
    PROVE  Kept(t, [t EXCEPT !.state = "Ready", !.addr = None, !.wait = None, !.timedOut = b])
  BY DEF AnyTask, Task, State, Kept, Joining

LEMMA ExpiredTame == ASSUME NEW T, T \in [Slot -> AnyTask \cup {None}] PROVE Tame(T, Expired(T))
  <1> SUFFICES ASSUME NEW s \in Slot
               PROVE  /\ Expired(T)[s] # None => T[s] # None /\ Kept(T[s], Expired(T)[s])
                      /\ T[s] # None /\ T[s].state # "Terminated" => Expired(T)[s] # None
    BY DEF Tame
  <1>1. CASE Is(T[s], "Blocked") /\ T[s].wait = 0
    <2>1. /\ Expired(T)[s] = [T[s] EXCEPT !.state = "Ready", !.addr = None, !.wait = None, !.timedOut = TRUE]
          /\ T[s] \in AnyTask /\ T[s].state = "Blocked" /\ T[s] # None
      BY <1>1 DEF Expired, Is
    <2>2. Kept(T[s], Expired(T)[s])
      BY <2>1, KeptWoken
    <2>3. Expired(T)[s] \in AnyTask
      BY <2>1 DEF AnyTask, Task, State
    <2> QED
      BY <2>1, <2>2, <2>3, NoneFacts
  <1>2. CASE ~(Is(T[s], "Blocked") /\ T[s].wait = 0)
    <2>1. Expired(T)[s] = T[s]
      BY <1>2 DEF Expired
    <2> QED
      BY <2>1 DEF Kept
  <1> QED
    BY <1>1, <1>2

LEMMA WokenTame ==
    ASSUME NEW T, T \in [Slot -> AnyTask \cup {None}], NEW w, NEW max
    PROVE  Tame(T, Woken(T, w, max))
  <1> DEFINE U == Woken(T, w, max)
  <1> SUFFICES ASSUME NEW s \in Slot
               PROVE  /\ U[s] # None => T[s] # None /\ Kept(T[s], U[s])
                      /\ T[s] # None /\ T[s].state # "Terminated" => U[s] # None
    BY DEF Tame
  <1>1. U[s] = T[s] \/ (Is(T[s], "Blocked") /\
                        U[s] = [T[s] EXCEPT !.state = "Ready", !.addr = None, !.wait = None, !.timedOut = FALSE])
    BY DEF Woken, In
  <1>2. CASE U[s] = T[s]
    BY <1>2 DEF Kept
  <1>3. CASE U[s] # T[s]
    <2>1. T[s] \in AnyTask /\ T[s].state = "Blocked" /\ T[s] # None
      BY <1>1, <1>3 DEF Is
    <2>2. Kept(T[s], U[s])
      BY <1>1, <1>3, <2>1, KeptWoken
    <2>3. U[s] \in AnyTask
      BY <1>1, <1>3, <2>1 DEF AnyTask, Task, State
    <2> QED
      BY <2>1, <2>2, <2>3, NoneFacts
  <1> QED
    BY <1>2, <1>3

LEMMA ReapedTame == ASSUME NEW T PROVE Tame(T, Reaped(T))
  <1> SUFFICES ASSUME NEW s \in Slot
               PROVE  /\ Reaped(T)[s] # None => T[s] # None /\ Kept(T[s], Reaped(T)[s])
                      /\ T[s] # None /\ T[s].state # "Terminated" => Reaped(T)[s] # None
    BY DEF Tame
  <1>1. Reaped(T)[s] = IF Is(T[s], "Terminated") /\ s # current THEN None ELSE T[s]
    BY DEF Reaped
  <1> QED
    BY <1>1 DEF Kept, Is

LEMMA ChosenTame ==
    ASSUME NEW T, Schedulable(T) PROVE Tame(T, Chosen(T, Picked(T)))
  <1> DEFINE next == Picked(T)
  <1> DEFINE C == Chosen(T, next)
  <1>1. /\ next \in Present(T)
        /\ next # current => T[next].state = "Ready"
        /\ current \in Present(T) /\ T \in [Slot -> AnyTask \cup {None}]
    BY PickedFit DEF Schedulable, Fit, Present
  <1> HIDE DEF next
  <1>2. T[next] \in AnyTask /\ T[current] \in AnyTask /\ next \in Slot /\ current \in Slot
    BY <1>1 DEF Present
  <1>3. CASE next = current
    <2>1. C = T
      BY <1>3 DEF Chosen
    <2> QED
      BY <2>1 DEF Tame, Kept, next
  <1>4. CASE next # current
    <2>1. /\ C[current] = Preempted(T[current]) /\ C[next] = [T[next] EXCEPT !.state = "Running"]
          /\ \A s \in Slot \ {current, next} : C[s] = T[s]
      BY <1>1, <1>2, <1>4 DEF Chosen
    <2> HIDE DEF C
    <2>2. Kept(T[next], C[next])
      BY <1>1, <1>2, <1>4, <2>1 DEF Kept, Joining, AnyTask, Task
    <2>3. Kept(T[current], C[current])
      BY <1>2, <2>1 DEF Kept, Joining, Preempted, AnyTask, Task
    <2>4. C[current] \in AnyTask /\ C[next] \in AnyTask
      BY <1>2, <2>1 DEF Preempted, AnyTask, Task, State
    <2>5. \A s \in Slot : s # current /\ s # next => C[s] = T[s]
      BY <2>1
    <2>6. ASSUME NEW s \in Slot
          PROVE  /\ C[s] # None => T[s] # None /\ Kept(T[s], C[s])
                 /\ T[s] # None /\ T[s].state # "Terminated" => C[s] # None
      <3>1. CASE s = current
        BY <1>1, <1>2, <2>3, <2>4, <3>1, NoneFacts
      <3>2. CASE s = next
        BY <1>1, <1>2, <2>2, <2>4, <3>2, NoneFacts
      <3>3. CASE s # current /\ s # next
        BY <2>5, <3>3 DEF Kept
      <3> QED
        BY <3>1, <3>2, <3>3
    <2> QED
      BY <2>6 DEF Tame, C, next
  <1> QED
    BY <1>3, <1>4

LEMMA FinalTame ==
    ASSUME NEW T, T \in [Slot -> AnyTask \cup {None}], current \in Present(T), stack \in Nat,
           NEW next \in Present(T)
    PROVE  Tame(T, Resumed(Switched(T, next), next))
  <1> DEFINE S == Switched(T, next)
  <1> DEFINE F == Resumed(S, next)
  <1>1. T[current] \in AnyTask /\ T[next] \in AnyTask /\ current \in Slot /\ next \in Slot
    BY DEF Present
  <1>2. /\ S[current] \in AnyTask /\ Kept(T[current], S[current])
        /\ \A s \in Slot \ {current} : S[s] = T[s]
        /\ DOMAIN S = Slot
    <2>1. CASE next = current
      BY <1>1, <2>1 DEF Switched, Kept
    <2>2. CASE next # current
      <3>1. S = [T EXCEPT ![current].saved = stack]
        BY <2>2 DEF Switched
      <3>2. /\ S[current] = [T[current] EXCEPT !.saved = stack]
            /\ \A s \in Slot \ {current} : S[s] = T[s] /\ DOMAIN S = Slot
        BY <1>1, <3>1
      <3>3. S[current] \in AnyTask /\ Kept(T[current], S[current])
        BY <1>1, <3>2 DEF Kept, Joining, AnyTask, Task
      <3>4. DOMAIN S = Slot
        BY <3>1
      <3> HIDE DEF S
      <3> QED
        BY <3>2, <3>3, <3>4
    <2> QED
      BY <2>1, <2>2
  <1>3. S[next] \in AnyTask /\ Kept(T[next], S[next])
    <2> HIDE DEF S
    <2> QED
      BY <1>1, <1>2 DEF Kept
  <1>4. F[next] = [S[next] EXCEPT !.timedOut = FALSE] /\ \A s \in Slot \ {next} : F[s] = S[s]
    BY <1>1, <1>2 DEF Resumed
  <1> HIDE DEF S
  <1>5. F[next] \in AnyTask /\ Kept(S[next], F[next])
    BY <1>3, <1>4 DEF Kept, Joining, AnyTask, Task
  <1> HIDE DEF F
  <1>6. ASSUME NEW s \in Slot
        PROVE  /\ F[s] # None => T[s] # None /\ Kept(T[s], F[s])
               /\ T[s] # None /\ T[s].state # "Terminated" => F[s] # None
    <2>1. CASE s = next
      BY <1>1, <1>3, <1>5, <2>1, NoneFacts DEF Kept
    <2>2. CASE s # next /\ s = current
      <3>1. F[current] = S[current]
        BY <1>1, <1>4, <2>2
      <3> QED
        BY <1>1, <1>2, <2>2, <3>1, NoneFacts
    <2>3. CASE s # next /\ s # current
      <3>1. F[s] = T[s]
        BY <1>2, <1>4, <2>3
      <3> QED
        BY <3>1 DEF Kept
    <2> QED
      BY <2>1, <2>2, <2>3
  <1> QED
    BY <1>6 DEF Tame, F, S

(* All of schedule().                                                      *)
LEMMA PassTame ==
    ASSUME NEW T, Schedulable(T)
    PROVE  LET L == Reaped(Expired(T)) IN
           /\ Schedulable(L) /\ NoneDue(L) /\ Tame(T, Chosen(L, Picked(L)))
  <1> DEFINE E == Expired(T)
  <1> DEFINE L == Reaped(E)
  <1>1. Schedulable(E) /\ NonePassed(E)
    BY ExpiredFit
  <1>2. Schedulable(L) /\ \A s \in Present(L) : L[s] = E[s] /\ E[s].wait # 0
    <2> HIDE DEF E
    <2> QED
      BY <1>1, ReapedFit
  <1>3. Tame(T, E)
    BY ExpiredTame DEF Schedulable, Fit
  <1>4. Tame(E, L)
    BY ReapedTame
  <1> HIDE DEF E, L
  <1>5. Tame(L, Chosen(L, Picked(L)))
    BY <1>2, ChosenTame
  <1>6. NoneDue(L)
    BY <1>2 DEF NoneDue
  <1> QED
    BY <1>2, <1>3, <1>4, <1>5, <1>6, Tamely DEF E, L

LEMMA ScheduleTame ==
    ASSUME NEW T, NEW here, Schedulable(T), Schedule(T, here), stack \in Nat
    PROVE  Tame(T, tasks')
  <1> DEFINE L == Reaped(Expired(T))
  <1> DEFINE next == Picked(L)
  <1> DEFINE C == Chosen(L, next)
  <1>1. tasks' = Resumed(Switched(C, next), next)
    BY DEF Schedule
  <1>2. Schedulable(L) /\ NoneDue(L) /\ Tame(T, C)
    BY PassTame
  <1> HIDE DEF L
  <1>3. next \in Present(C) /\ Fit(C) /\ Present(C) = Present(L)
    BY <1>2, ChosenFit
  <1>4. current \in Present(C) /\ C \in [Slot -> AnyTask \cup {None}]
    BY <1>2, <1>3 DEF Schedulable, Present, Fit
  <1> HIDE DEF C, next
  <1> QED
    BY <1>1, <1>2, <1>3, <1>4, FinalTame, Tamely

(* The end of a wait wakes every waiter, however many there are.           *)
LEMMA WakesAll ==
    ASSUME NEW T, NEW w, NEW s \in Slot, Is(T[s], "Blocked"), T[s].addr = w, T[s] \in AnyTask
    PROVE  Woken(T, w, Slots)[s].state = "Ready"
  <1> DEFINE waiting == {r \in In(T, "Blocked") : T[r].addr = w}
  <1> DEFINE before == {r \in waiting : r < s}
  <1>1. s \in Nat /\ s < Slots /\ Slots \in Nat
    BY SchedAssumption DEF Slot
  <1>2. before \subseteq 0 .. (s - 1)
    BY <1>1 DEF In, Slot
  <1>3. IsFiniteSet(0 .. (s - 1)) /\ Cardinality(0 .. (s - 1)) = s
    <2>1. PICK b \in Int : b = s - 1
      BY <1>1
    <2>2. PICK a \in Int : a = 0
      OBVIOUS
    <2>3. IsFiniteSet(a .. b) /\ Cardinality(a .. b) = IF a > b THEN 0 ELSE b - a + 1
      BY FS_Interval, Zenon
    <2>4. (IF a > b THEN 0 ELSE b - a + 1) = s
      BY <1>1, <2>1, <2>2
    <2> QED
      BY <2>1, <2>2, <2>3, <2>4, Zenon
  <1> HIDE DEF before
  <1>4. Cardinality(before) <= s /\ Cardinality(before) \in Nat
    BY <1>2, <1>3, FS_Subset, FS_CardinalityType
  <1>5. Cardinality(before) < Slots
    BY <1>1, <1>4
  <1>6. s \in waiting
    BY DEF In
  <1>7. Woken(T, w, Slots)[s] =
           [T[s] EXCEPT !.state = "Ready", !.addr = None, !.wait = None, !.timedOut = FALSE]
    BY <1>5, <1>6 DEF Woken, before
  <1> QED
    BY <1>7 DEF AnyTask, Task

(* A table whose current task has just died, and its word cleared, is one  *)
(* where every joiner has a thread; it need not have held for the words of *)
(* the dying task's space, if that has nobody else alive.                  *)
LEMMA DeathProvides ==
    ASSUME NEW T, T \in [Slot -> AnyTask \cup {None}], current \in Present(T), T[current] = Me,
           NEW W \in [Space -> [Word -> {0, 1}]], NEW X,
           Joined(T), OnlyUsers(T),
           \A s \in Live(T) \ {current} : T[s].cr3 # Kernel =>
               \A w \in Word : W[T[s].cr3][w] = 1 => Held(T, T[s].cr3, w),
           X = IF Me.tid = None THEN W ELSE [W EXCEPT ![Me.cr3][Me.tid] = 0]
    PROVE  Provided(Exited(T), X)
  <1> DEFINE G == [T EXCEPT ![current].state = "Terminated", ![current].tid = None]
  <1> DEFINE U == Exited(T)
  <1>1. current \in Slot /\ Me \in AnyTask
    BY DEF Present
  <1>2. /\ G[current] = [Me EXCEPT !.state = "Terminated", !.tid = None]
        /\ \A s \in Slot \ {current} : G[s] = T[s]
        /\ G = [s \in Slot |-> G[s]]
    BY <1>1
  <1>3. U = IF Me.tid = None THEN G ELSE Woken(G, Me.tid, Slots)
    BY DEF Exited
  <1> HIDE DEF G, U
  <1>4. /\ G[current] \in AnyTask /\ G[current].state = "Terminated" /\ G[current].tid = None
        /\ G[current].cr3 = Me.cr3
    BY <1>1, <1>2 DEF AnyTask, Task, State
  <1>5. G \in [Slot -> AnyTask \cup {None}]
    BY <1>2, <1>4
  <1>6. Live(G) = Live(T) \ {current} /\ Present(G) = Present(T)
    <2>1. G[current] # None /\ T[current] # None
      BY <1>4, NoneFacts DEF Present
    <2>2. Present(G) = Present(T)
      BY <1>1, <1>2, <2>1 DEF Present
    <2>3. \A s \in Slot : s \in In(G, "Terminated") <=> s = current \/ s \in In(T, "Terminated")
      BY <1>1, <1>2, <1>4, <2>1 DEF In, Is
    <2> QED
      BY <2>2, <2>3 DEF Live, Present
  <1>7. ASSUME NEW c, NEW w, Held(T, c, w), w # None, <<c, w>> # <<Me.cr3, Me.tid>> PROVE Held(G, c, w)
    <2>1. PICK r \in Live(T) : T[r].cr3 = c /\ T[r].tid = w
      BY <1>7 DEF Held
    <2>2. r # current
      BY <1>7, <2>1
    <2> QED
      BY <1>2, <1>6, <2>1, <2>2 DEF Held, Live, Present
  <1>8. OnlyUsers(G)
    BY <1>2, <1>4, <1>6 DEF OnlyUsers, Present
  <1>9. ASSUME NEW s \in Present(G), Joining(G[s]), G[s].addr # Me.tid \/ G[s].cr3 # Me.cr3
        PROVE  Held(G, G[s].cr3, G[s].addr)
    <2>1. s # current /\ s \in Present(T) /\ G[s] = T[s]
      BY <1>2, <1>4, <1>6, <1>9 DEF Joining, Present
    <2>2. Held(T, T[s].cr3, T[s].addr) /\ T[s].addr # None
      BY <1>9, <2>1 DEF Joined, Joining
    <2> QED
      BY <1>7, <1>9, <2>1, <2>2
  <1>10. CASE Me.tid = None
    <2>1. U = G /\ X = W
      BY <1>3, <1>10
    <2>2. Joined(G)
      BY <1>9, <1>10 DEF Joined, Joining
    <2>3. WordsHeld(G, W)
      <3> SUFFICES ASSUME NEW s \in Live(G), G[s].cr3 # Kernel, NEW w \in Word, W[G[s].cr3][w] = 1
                   PROVE  Held(G, G[s].cr3, w)
        BY DEF WordsHeld
      <3>1. s \in Live(T) \ {current} /\ G[s] = T[s]
        BY <1>2, <1>6 DEF Live, Present
      <3>2. Held(T, T[s].cr3, w) /\ w # None
        BY <3>1, SchedAssumption
      <3> QED
        BY <1>7, <1>10, <3>1, <3>2
    <2> QED
      BY <1>8, <2>1, <2>2, <2>3 DEF Provided, U
  <1>11. CASE Me.tid # None
    <2>1. U = Woken(G, Me.tid, Slots) /\ X = [W EXCEPT ![Me.cr3][Me.tid] = 0]
      BY <1>3, <1>11
    <2>2. Me.cr3 \in Space /\ Me.tid \in Word
      BY <1>1, <1>11 DEF OnlyUsers, AnyTask, Task
    <2>3. Tame(G, U)
      BY <1>5, <2>1, WokenTame
    <2>4. Live(U) = Live(G) /\ \A c, w : Held(G, c, w) => Held(U, c, w)
      BY <2>3, TameHeld
    <2>5. \A s \in Present(U) : s \in Present(G) /\ Kept(G[s], U[s])
      BY <2>3 DEF Tame, Present
    <2>6. Joined(U)
      <3> SUFFICES ASSUME NEW s \in Present(U), Joining(U[s]) PROVE Held(U, U[s].cr3, U[s].addr)
        BY DEF Joined
      <3>1. s \in Present(G) /\ Joining(G[s]) /\ U[s].addr = G[s].addr /\ U[s].cr3 = G[s].cr3
        BY <2>5 DEF Kept
      <3>2. G[s].addr # Me.tid
        <4>1. SUFFICES ASSUME G[s].addr = Me.tid PROVE FALSE
          OBVIOUS
        <4>2. s \in Slot /\ G[s] \in AnyTask /\ Is(G[s], "Blocked")
          BY <1>5, <3>1 DEF Present, Joining, Is
        <4>3. U[s].state = "Ready"
          BY <2>1, <4>1, <4>2, WakesAll
        <4> QED
          BY <4>3 DEF Joining
      <3> QED
        BY <1>9, <2>4, <3>1, <3>2
    <2>7. WordsHeld(U, X)
      <3> SUFFICES ASSUME NEW s \in Live(U), U[s].cr3 # Kernel, NEW w \in Word, X[U[s].cr3][w] = 1
                   PROVE  Held(U, U[s].cr3, w)
        BY DEF WordsHeld
      <3>1. s \in Live(T) \ {current} /\ G[s] = T[s] /\ U[s].cr3 = T[s].cr3 /\ s \in Present(U)
        BY <1>2, <1>6, <2>4, <2>5 DEF Live, Present, Kept
      <3>2. T[s].cr3 \in Space
        BY <3>1 DEF Live, Present, AnyTask, Task
      <3>3. X = [W EXCEPT ![Me.cr3] = [W[Me.cr3] EXCEPT ![Me.tid] = 0]]
        BY <2>1
      <3>4. <<T[s].cr3, w>> # <<Me.cr3, Me.tid>>
        BY <2>2, <3>1, <3>2, <3>3
      <3>5. W[T[s].cr3][w] = 1
        BY <2>2, <3>1, <3>2, <3>3, <3>4
      <3>6. Held(T, T[s].cr3, w) /\ w # None
        BY <3>1, <3>5, SchedAssumption
      <3> QED
        BY <1>7, <2>4, <3>1, <3>4, <3>6
    <2>8. OnlyUsers(U)
      BY <1>8, <2>5 DEF OnlyUsers, Kept
    <2> QED
      BY <2>6, <2>7, <2>8 DEF Provided, U
  <1> QED
    BY <1>10, <1>11

LEMMA GroupProvides ==
    ASSUME IInv, User, Provided(tasks, word)
    PROVE  Provided(Exited(GroupKilled), Cleared)
  <1> DEFINE T == GroupKilled
  <1>1. /\ current \in Present(tasks) /\ Me \in AnyTask /\ Me.state = "Running" /\ cr3 = Me.cr3
        /\ Me.cr3 # Kernel
    BY Running DEF User
  <1>2. /\ T \in [Slot -> AnyTask \cup {None}] /\ Present(T) = Present(tasks) /\ T[current] = Me
        /\ \A s \in Present(tasks) : s # current /\ tasks[s].cr3 = Me.cr3 => T[s].state = "Terminated"
    BY GroupFit DEF Fit
  <1>3. /\ \A s \in Present(tasks) : T[s].cr3 = tasks[s].cr3 /\ T[s].tid = tasks[s].tid
        /\ \A s \in Present(tasks) : s = current \/ tasks[s].cr3 # Me.cr3 => T[s] = tasks[s]
    <2> SUFFICES ASSUME NEW s \in Present(tasks)
                 PROVE  /\ T[s].cr3 = tasks[s].cr3 /\ T[s].tid = tasks[s].tid
                        /\ s = current \/ tasks[s].cr3 # Me.cr3 => T[s] = tasks[s]
      OBVIOUS
    <2>1. tasks[s] \in AnyTask /\ tasks[s] # None /\ s \in Slot
      BY DEF IInv, Fit, Present
    <2>2. T[s] = IF s # current /\ tasks[s].cr3 = Me.cr3
                 THEN [tasks[s] EXCEPT !.state = "Terminated"] ELSE tasks[s]
      BY <2>1 DEF GroupKilled
    <2> QED
      BY <2>1, <2>2 DEF AnyTask, Task
  <1> HIDE DEF T
  <1>4. \A s \in Live(T) \ {current} : T[s] = tasks[s] /\ tasks[s].cr3 # Me.cr3 /\ s \in Live(tasks)
    BY <1>2, <1>3 DEF Live, In, Is, Present
  <1>5. ASSUME NEW c, NEW w, c # Me.cr3, Held(tasks, c, w) PROVE Held(T, c, w)
    BY <1>2, <1>3, <1>5 DEF Held, Live, In, Is, Present
  <1>6. OnlyUsers(T)
    BY <1>2, <1>3 DEF Provided, OnlyUsers
  <1>7. Joined(T)
    <2> SUFFICES ASSUME NEW s \in Present(T), Joining(T[s]) PROVE Held(T, T[s].cr3, T[s].addr)
      BY DEF Joined
    <2>1. s # current /\ s \in Live(T)
      BY <1>1, <1>2 DEF Joining, Live, In, Is
    <2>2. T[s] = tasks[s] /\ tasks[s].cr3 # Me.cr3 /\ s \in Present(tasks)
      BY <1>4, <2>1 DEF Live
    <2> QED
      BY <1>5, <2>2 DEF Provided, Joined
  <1>8. \A s \in Live(T) \ {current} : T[s].cr3 # Kernel =>
            \A w \in Word : word[T[s].cr3][w] = 1 => Held(T, T[s].cr3, w)
    BY <1>4, <1>5 DEF Provided, WordsHeld
  <1>9. Cleared = IF Me.tid = None THEN word ELSE [word EXCEPT ![Me.cr3][Me.tid] = 0]
    BY <1>1 DEF Cleared
  <1>10. current \in Present(T) /\ word \in [Space -> [Word -> {0, 1}]]
    BY <1>1, <1>2 DEF IInv, Rest
  <1> QED
    BY <1>2, <1>6, <1>7, <1>8, <1>9, <1>10, DeathProvides DEF T

LEMMA ExitProvides ==
    ASSUME IInv, pc = "run", Provided(tasks, word), NEW X,
           X = IF Me.tid = None THEN word ELSE [word EXCEPT ![Me.cr3][Me.tid] = 0]
    PROVE  Provided(Exited(tasks), X)
  <1>1. /\ tasks \in [Slot -> AnyTask \cup {None}] /\ current \in Present(tasks)
        /\ word \in [Space -> [Word -> {0, 1}]]
    BY Running DEF IInv, Fit, Rest
  <1>2. \A s \in Live(tasks) \ {current} : tasks[s].cr3 # Kernel =>
            \A w \in Word : word[tasks[s].cr3][w] = 1 => Held(tasks, tasks[s].cr3, w)
    BY DEF Provided, WordsHeld
  <1> QED
    BY <1>1, <1>2, DeathProvides DEF Provided, Me

(* A task that goes to sleep on a word does so on one a thread holds.      *)
LEMMA BlockProvides ==
    ASSUME IInv, User \/ KernelThread, Provided(tasks, word), NEW w \in Word \cup {None},
           NEW ticks \in (1 .. MaxWait) \cup {None},
           w # None => Me.cr3 # Kernel /\ word[Me.cr3][w] = 1
    PROVE  Provided(BlockedOn(w, ticks), word)
  <1> DEFINE T == BlockedOn(w, ticks)
  <1>1. /\ current \in Present(tasks) /\ Me \in AnyTask /\ Me.state = "Running" /\ cr3 = Me.cr3
        /\ current \in Slot /\ tasks \in [Slot -> AnyTask \cup {None}]
    BY Running DEF User, KernelThread, IInv, Fit
  <1>2. /\ T[current] = [Me EXCEPT !.state = "Blocked", !.addr = w, !.wait = ticks, !.timedOut = FALSE]
        /\ \A s \in Slot \ {current} : T[s] = tasks[s]
    BY <1>1 DEF BlockedOn, Me
  <1> HIDE DEF T
  <1>3. /\ T[current].state = "Blocked" /\ T[current].addr = w
        /\ T[current].cr3 = Me.cr3 /\ T[current].tid = Me.tid
    BY <1>1, <1>2 DEF AnyTask, Task
  <1>4. T[current] # None
    BY BlockedFit DEF T, Schedulable
  <1>5. Present(T) = Present(tasks) /\ Live(T) = Live(tasks)
    BY <1>1, <1>2, <1>3, <1>4, ZenonT(60) DEF Live, Present, In, Is, Me
  <1>6. \A s \in Present(T) : T[s].cr3 = tasks[s].cr3 /\ T[s].tid = tasks[s].tid
    BY <1>2, <1>3 DEF Present, Me
  <1>7. \A c, x : Held(tasks, c, x) => Held(T, c, x)
    BY <1>5, <1>6 DEF Held, Live
  <1>8. current \in Live(tasks)
    BY <1>1 DEF Live, In, Is, Me
  <1>9. Joined(T)
    <2> SUFFICES ASSUME NEW s \in Present(T), Joining(T[s]) PROVE Held(T, T[s].cr3, T[s].addr)
      BY DEF Joined
    <2>1. CASE s = current
      <3>1. w \in Word /\ Me.cr3 # Kernel /\ word[Me.cr3][w] = 1
        BY <1>3, <2>1 DEF Joining
      <3>2. Held(tasks, Me.cr3, w)
        BY <1>8, <3>1 DEF Provided, WordsHeld, Me
      <3> QED
        BY <1>3, <1>7, <2>1, <3>2
    <2>2. CASE s # current
      <3>1. T[s] = tasks[s] /\ s \in Present(tasks)
        BY <1>2, <1>5, <2>2 DEF Present
      <3> QED
        BY <1>7, <3>1 DEF Provided, Joined
    <2> QED
      BY <2>1, <2>2
  <1>10. WordsHeld(T, word)
    BY <1>5, <1>6, <1>7 DEF Provided, WordsHeld, Live
  <1>11. OnlyUsers(T)
    BY <1>5, <1>6 DEF Provided, OnlyUsers
  <1> QED
    BY <1>9, <1>10, <1>11 DEF Provided, T

(* A new task waits for nobody; its own word is its own to hold.           *)
LEMMA SpawnProvides ==
    ASSUME IInv, User \/ KernelThread, Provided(tasks, word),
           NEW space \in Space \cup {Kernel}, NEW w \in Word \cup {None},
           space = Kernel => w = None,
           Spawn(tasks, space, w),
           \A c \in Space, x \in Word : word'[c][x] = 1 =>
               \/ c = space /\ x = w
               \/ word[c][x] = 1 /\ (c = space => \E r \in Live(tasks) : tasks[r].cr3 = c)
    PROVE  Provided(tasks', word')
  <1> DEFINE t == NewTask(nextId, space, w)
  <1>1. PICK s \in Slot \ Present(tasks) : tasks' = [tasks EXCEPT ![s] = t]
    BY DEF Spawn
  <1>2. tasks \in [Slot -> AnyTask \cup {None}] /\ nextId \in Nat
    BY SchedAssumption DEF IInv, Fit, Rest
  <1>3. t \in AnyTask /\ t.cr3 = space /\ t.state = "Ready" /\ t.tid = w
    BY <1>2, SchedAssumption DEF NewTask, AnyTask, Task, State
  <1> HIDE DEF t
  <1>4. tasks'[s] = t /\ \A r \in Slot \ {s} : tasks'[r] = tasks[r]
    BY <1>1, <1>2
  <1>5. /\ Present(tasks') = Present(tasks) \cup {s} /\ Live(tasks') = Live(tasks) \cup {s}
        /\ \A r \in Present(tasks) : tasks'[r] = tasks[r]
        /\ Live(tasks) \subseteq Present(tasks)
    BY <1>1, <1>3, <1>4, NoneFacts DEF Live, Present, In, Is
  <1>6. \A c, x : Held(tasks, c, x) => Held(tasks', c, x)
    BY <1>5 DEF Held
  <1>7. Held(tasks', space, w)
    BY <1>3, <1>4, <1>5 DEF Held
  <1>8. Joined(tasks')
    <2> SUFFICES ASSUME NEW r \in Present(tasks'), Joining(tasks'[r])
                 PROVE  Held(tasks', tasks'[r].cr3, tasks'[r].addr)
      BY DEF Joined
    <2>1. r # s
      BY <1>3, <1>4 DEF Joining
    <2> QED
      BY <1>5, <1>6, <2>1 DEF Provided, Joined
  <1>9. WordsHeld(tasks', word')
    <2> SUFFICES ASSUME NEW r \in Live(tasks'), tasks'[r].cr3 # Kernel, NEW x \in Word,
                        word'[tasks'[r].cr3][x] = 1
                 PROVE  Held(tasks', tasks'[r].cr3, x)
      BY DEF WordsHeld
    <2> DEFINE c == tasks'[r].cr3
    <2>1. c \in Space
      <3>1. tasks'[r] \in AnyTask
        BY <1>2, <1>3, <1>4, <1>5 DEF Present
      <3> QED
        BY <3>1 DEF AnyTask, Task
    <2>2. CASE c = space /\ x = w
      BY <1>7, <2>2
    <2>3. CASE word[c][x] = 1 /\ (c = space => \E q \in Live(tasks) : tasks[q].cr3 = c)
      <3>1. PICK q \in Live(tasks) : tasks[q].cr3 = c
        BY <1>3, <1>4, <1>5, <2>3
      <3>2. Held(tasks, c, x)
        BY <2>3, <3>1 DEF Provided, WordsHeld
      <3> QED
        BY <1>6, <3>2
    <2> QED
      BY <2>1, <2>2, <2>3
  <1>10. OnlyUsers(tasks')
    BY <1>3, <1>4, <1>5 DEF Provided, OnlyUsers
  <1> QED
    BY <1>8, <1>9, <1>10 DEF Provided

(* Only who has no word to clear is killed by itself.                      *)
LEMMA KillProvides ==
    ASSUME IInv, ThreadsLive, Provided(tasks, word), NEW s \in Slot, Kill(s)
    PROVE  Provided(tasks', word')
  <1>1. /\ s \in Present(tasks) /\ Kind(tasks[s]) \in Mortal /\ word' = word
        /\ tasks' = [tasks EXCEPT ![s].state = "Terminated"]
        /\ tasks \in [Slot -> AnyTask \cup {None}]
    BY DEF Kill, IInv, Fit
  <1>2. tasks[s].tid = None
    BY <1>1 DEF ThreadsLive, Undisturbed, Kind
  <1>3. tasks[s] \in AnyTask
    BY <1>1 DEF Present
  <1>4. /\ tasks'[s] = [tasks[s] EXCEPT !.state = "Terminated"]
        /\ \A r \in Slot \ {s} : tasks'[r] = tasks[r]
    BY <1>1
  <1>5. /\ tasks'[s].state = "Terminated" /\ tasks'[s].cr3 = tasks[s].cr3 /\ tasks'[s].tid = tasks[s].tid
        /\ tasks'[s] # None
    <2>1. tasks'[s] \in AnyTask
      BY <1>3, <1>4 DEF AnyTask, Task, State
    <2> QED
      BY <1>3, <1>4, <2>1, NoneFacts DEF AnyTask, Task
  <1>6. /\ Present(tasks') = Present(tasks) /\ Live(tasks') = Live(tasks) \ {s}
        /\ \A r \in Live(tasks') : tasks'[r] = tasks[r] /\ r \in Live(tasks)
    BY <1>1, <1>4, <1>5 DEF Live, Present, In, Is
  <1>7. \A c, w : Held(tasks, c, w) /\ w # None => Held(tasks', c, w)
    BY <1>2, <1>6 DEF Held
  <1>8. Joined(tasks')
    <2> SUFFICES ASSUME NEW r \in Present(tasks'), Joining(tasks'[r])
                 PROVE  Held(tasks', tasks'[r].cr3, tasks'[r].addr)
      BY DEF Joined
    <2>1. r # s /\ tasks'[r] = tasks[r] /\ r \in Present(tasks)
      BY <1>4, <1>5, <1>6 DEF Joining, Present
    <2> QED
      BY <1>7, <2>1 DEF Provided, Joined, Joining
  <1>9. WordsHeld(tasks', word')
    <2>1. \A w \in Word : w # None
      BY SchedAssumption
    <2> QED
      BY <1>1, <1>6, <1>7, <2>1 DEF Provided, WordsHeld
  <1>10. OnlyUsers(tasks')
    <2>1. \A r \in Present(tasks) : tasks'[r].cr3 = tasks[r].cr3 /\ tasks'[r].tid = tasks[r].tid
      BY <1>4, <1>5 DEF Present
    <2> QED
      BY <1>6, <2>1 DEF Provided, OnlyUsers
  <1> QED
    BY <1>8, <1>9, <1>10 DEF Provided

JInv == IInv /\ Provided(tasks, word)

LEMMA InitJInv == Init => JInv
  <1> SUFFICES ASSUME Init PROVE Provided(tasks, word)
    BY InitIInv DEF JInv
  <1>1. word = [c \in Space |-> [w \in Word |-> 0]]
    BY DEF Init
  <1>2. \A s \in Present(tasks) : tasks[s].state # "Blocked" /\ tasks[s].cr3 = Kernel /\ tasks[s].tid = None
    BY DEF Init, Present, NewTask
  <1>3. Joined(tasks) /\ OnlyUsers(tasks)
    BY <1>2 DEF Joined, Joining, OnlyUsers
  <1>4. WordsHeld(tasks, word)
    BY <1>2 DEF WordsHeld, Live
  <1> QED
    BY <1>3, <1>4 DEF Provided

LEMMA NextProvides == ThreadsLive /\ JInv /\ [Next]_vars => Provided(tasks', word')
  <1> SUFFICES ASSUME ThreadsLive, JInv, [Next]_vars PROVE Provided(tasks', word')
    OBVIOUS
  <1>1. IInv /\ Provided(tasks, word) /\ Undisturbed /\ stack \in Nat /\ tasks \in [Slot -> AnyTask \cup {None}]
    BY DEF JInv, ThreadsLive, IInv, Rest, Fit
  <1>2. CASE Tick
    <2>1. pc \in {"run", "exit"}
      BY <1>1, <1>2 DEF Tick, Interruptible, Undisturbed, IInv, Placed
    <2> DEFINE T == TickedDown(tasks)
    <2>2. Schedulable(T) /\ Schedule(T, pc) /\ word' = word
      BY <1>1, <1>2, <2>1, TickedFit DEF Tick
    <2>3. Tame(tasks, T)
      <3> SUFFICES ASSUME NEW s \in Slot
                   PROVE  /\ T[s] # None => tasks[s] # None /\ Kept(tasks[s], T[s])
                          /\ tasks[s] # None /\ tasks[s].state # "Terminated" => T[s] # None
        BY DEF Tame
      <3>1. CASE tasks[s] # None /\ tasks[s].wait \in Nat \ {0}
        <4>1. tasks[s] \in AnyTask /\ tasks[s].wait - 1 \in 0 .. MaxWait
          BY <1>1, <3>1, SchedAssumption DEF AnyTask, Task
        <4>2. T[s] = [tasks[s] EXCEPT !.wait = tasks[s].wait - 1]
          BY <3>1 DEF TickedDown
        <4>3. T[s] \in AnyTask /\ Kept(tasks[s], T[s])
          BY <4>1, <4>2, NoneFacts DEF AnyTask, Task, Kept, Joining
        <4> QED
          BY <3>1, <4>3, NoneFacts
      <3>2. CASE ~(tasks[s] # None /\ tasks[s].wait \in Nat \ {0})
        <4>1. T[s] = tasks[s]
          BY <3>2 DEF TickedDown
        <4> QED
          BY <4>1 DEF Kept
      <3> QED
        BY <3>1, <3>2
    <2> HIDE DEF T
    <2> QED
      BY <1>1, <2>2, <2>3, ScheduleTame, Tamely, TameProvided
  <1>3. ASSUME SpawnKernel PROVE Provided(tasks', word')
    <2>1. Spawn(tasks, Kernel, None) /\ KernelThread /\ word' = word
      BY <1>3 DEF SpawnKernel
    <2>2. \A c \in Space : c # Kernel
      BY SchedAssumption
    <2> QED
      BY <1>1, <2>1, <2>2, SpawnProvides
  <1>4. ASSUME SpawnThread PROVE Provided(tasks', word')
    <2>1. Spawn(tasks, Me.cr3, None) /\ User /\ word' = word
      BY <1>4 DEF SpawnThread
    <2>2. Me \in AnyTask /\ Me.state = "Running" /\ current \in Present(tasks)
      BY <1>1, <2>1, Running DEF User
    <2>3. Me.cr3 \in Space \cup {Kernel} /\ current \in Live(tasks) /\ tasks[current].cr3 = Me.cr3
      BY <2>2 DEF AnyTask, Task, Live, In, Is, Me
    <2> QED
      BY <1>1, <2>1, <2>3, SpawnProvides
  <1>5. ASSUME Yield PROVE Provided(tasks', word')
    <2>1. pc = "run" /\ Schedule(tasks, "run") /\ word' = word
      BY <1>5 DEF Yield, User, KernelThread
    <2> QED
      BY <1>1, <2>1, Running, ScheduleTame, TameProvided
  <1>6. ASSUME Exit PROVE Provided(tasks', word')
    <2>1. User /\ pc = "run" /\ Schedule(Exited(tasks), "halt") /\ word' = Cleared
      BY <1>6 DEF Exit, User
    <2>2. /\ current \in Present(tasks) /\ current # IDLE_SLOT /\ Me.wait = None /\ cr3 = Me.cr3
          /\ In(tasks, "Running") \subseteq {current}
      BY <1>1, <2>1, Running DEF User, Schedulable
    <2>3. Schedulable(Exited(tasks))
      BY <1>1, <2>2, ExitedFit DEF IInv, Me
    <2>4. word' = IF Me.tid = None THEN word ELSE [word EXCEPT ![Me.cr3][Me.tid] = 0]
      BY <2>1, <2>2 DEF Cleared
    <2>5. Provided(Exited(tasks), word')
      BY <1>1, <2>1, <2>4, ExitProvides
    <2> QED
      BY <1>1, <2>1, <2>3, <2>5, ScheduleTame, TameProvided
  <1>7. ASSUME ExitGroup PROVE Provided(tasks', word')
    <2>1. User /\ pc = "run" /\ Schedule(Exited(GroupKilled), "halt") /\ word' = Cleared
      BY <1>7 DEF ExitGroup, User
    <2>2. current \in Present(tasks) /\ current # IDLE_SLOT /\ Me.wait = None
      BY <1>1, <2>1, Running DEF User
    <2>3. Schedulable(Exited(GroupKilled))
      BY <1>1, <2>1, <2>2, GroupFit, ExitedFit
    <2>4. Provided(Exited(GroupKilled), word')
      BY <1>1, <2>1, GroupProvides
    <2> QED
      BY <1>1, <2>1, <2>3, <2>4, ScheduleTame, TameProvided
  <1>8. ASSUME KernelExit PROVE Provided(tasks', word')
    <2>1. pc = "run" /\ Me.cr3 = Kernel /\ tasks' = Exited(tasks) /\ word' = word
      BY <1>8 DEF KernelExit, KernelThread
    <2>2. Me.tid = None
      BY <1>1, <2>1, Running DEF Provided, OnlyUsers, Me
    <2> QED
      BY <1>1, <2>1, <2>2, ExitProvides
  <1>9. ASSUME NEW space \in Space, SpawnUser(space) PROVE Provided(tasks', word')
    <2>1. KernelThread /\ space \notin built /\ Spawn(tasks, space, None)
      BY <1>9 DEF SpawnUser
    <2>2. word' = [word EXCEPT ![space] = [w \in Word |-> 0]] /\ word \in [Space -> [Word -> {0, 1}]]
      BY <1>1, <1>9 DEF SpawnUser, IInv, Rest
    <2>3. space # Kernel
      BY SchedAssumption
    <2>4. \A c \in Space, x \in Word : word'[c][x] = 1 => c # space /\ word[c][x] = 1
      BY <2>2
    <2> QED
      BY <1>1, <2>1, <2>3, <2>4, SpawnProvides
  <1>10. ASSUME NEW w \in Word, Clone(w) PROVE Provided(tasks', word')
    <2>1. User /\ Spawn(tasks, cr3, w) /\ word' = [word EXCEPT ![cr3][w] = 1]
      BY <1>10 DEF Clone
    <2>2. Me \in AnyTask /\ Me.state = "Running" /\ current \in Present(tasks) /\ cr3 = Me.cr3 /\ Me.cr3 # Kernel
      BY <1>1, <2>1, Running DEF User
    <2>3. cr3 \in Space /\ current \in Live(tasks) /\ tasks[current].cr3 = cr3 /\ cr3 # Kernel
      BY <2>2 DEF AnyTask, Task, Live, In, Is, Me
    <2>4. word' = [word EXCEPT ![cr3] = [word[cr3] EXCEPT ![w] = 1]] /\ word \in [Space -> [Word -> {0, 1}]]
      BY <1>1, <2>1 DEF IInv, Rest
    <2>5. \A c \in Space, x \in Word : word'[c][x] = 1 =>
               (c = cr3 /\ x = w) \/ word[c][x] = 1
      BY <2>3, <2>4
    <2>6. \A c \in Space, x \in Word : word'[c][x] = 1 =>
               \/ c = cr3 /\ x = w
               \/ word[c][x] = 1 /\ (c = cr3 => \E r \in Live(tasks) : tasks[r].cr3 = c)
      BY <2>3, <2>5
    <2>7. User /\ Spawn(tasks, cr3, w) /\ w \in Word \cup {None} /\ cr3 \in Space \cup {Kernel} /\ cr3 # Kernel
      BY <2>1, <2>3
    <2>8. IInv /\ Provided(tasks, word)
      BY <1>1
    <2> QED
      BY <2>6, <2>7, <2>8, SpawnProvides
  <1>11. ASSUME NEW ticks \in 1 .. MaxWait, Sleep(ticks) PROVE Provided(tasks', word')
    <2>1. (User \/ KernelThread) /\ Schedule(BlockedOn(None, ticks), "run") /\ word' = word
      BY <1>11 DEF Sleep
    <2>2. Schedulable(BlockedOn(None, ticks)) /\ Provided(BlockedOn(None, ticks), word)
      BY <1>1, <2>1, BlockedFit, BlockProvides
    <2> QED
      BY <1>1, <2>1, <2>2, ScheduleTame, TameProvided
  <1>12. ASSUME NEW w \in Word, NEW ticks \in (1 .. MaxWait) \cup {None}, FutexWait(w, ticks)
         PROVE  Provided(tasks', word')
    <2>1. User /\ word[cr3][w] = 1 /\ Schedule(BlockedOn(w, ticks), "run") /\ word' = word
      BY <1>12 DEF FutexWait
    <2>2. cr3 = Me.cr3 /\ Me.cr3 # Kernel
      BY <1>1, <2>1, Running DEF User
    <2>3. Schedulable(BlockedOn(w, ticks)) /\ Provided(BlockedOn(w, ticks), word)
      BY <1>1, <2>1, <2>2, BlockedFit, BlockProvides
    <2> QED
      BY <1>1, <2>1, <2>3, ScheduleTame, TameProvided
  <1>13. ASSUME NEW w \in Word, NEW max, FutexWake(w, max) PROVE Provided(tasks', word')
    <2>1. tasks' = Woken(tasks, w, max) /\ word' = word
      BY <1>13 DEF FutexWake
    <2> QED
      BY <1>1, <2>1, WokenTame, TameProvided
  <1>14. ASSUME NEW s \in Slot, Kill(s) PROVE Provided(tasks', word')
    BY <1>1, <1>14, KillProvides
  <1>15. ASSUME ExitPicks PROVE Provided(tasks', word')
    <2> DEFINE L == Reaped(Expired(tasks))
    <2>1. tasks' = Chosen(L, Picked(L)) /\ word' = word /\ pc = "exit"
      BY <1>15 DEF ExitPicks
    <2>2. Schedulable(tasks)
      BY <1>1, <2>1, NoneFacts DEF IInv, Placed, Schedulable, Me
    <2>3. Tame(tasks, tasks')
      BY <2>1, <2>2, PassTame
    <2> QED
      BY <1>1, <2>1, <2>3, TameProvided
  <1>16. ASSUME ExitSwitches PROVE Provided(tasks', word')
    <2>1. tasks' = Resumed(tasks, current) /\ word' = word /\ current \in Present(tasks)
      BY <1>1, <1>16 DEF ExitSwitches, IInv, Present
    <2>2. Switched(tasks, current) = tasks
      BY DEF Switched
    <2>3. Tame(tasks, tasks')
      BY <1>1, <2>1, <2>2, FinalTame
    <2> QED
      BY <1>1, <2>1, <2>3, TameProvided
  <1>17. CASE UNCHANGED vars
    BY <1>1, <1>17 DEF vars
  <1>18. ASSUME NEW space \in Space, LoadFails(space) PROVE Provided(tasks', word')
    BY <1>1, <1>18 DEF LoadFails
  <1> QED
    BY <1>2, <1>3, <1>4, <1>5, <1>6, <1>7, <1>8, <1>9, <1>10, <1>11, <1>12, <1>13, <1>14, <1>15, <1>16, <1>17, <1>18
    DEF Next, Process, Exiting

LEMMA NextJInv == ThreadsLive /\ JInv /\ [Next]_vars => JInv'
  <1> SUFFICES ASSUME ThreadsLive, JInv, [Next]_vars PROVE JInv'
    OBVIOUS
  <1>1. IInv'
    BY NextIInv DEF JInv, ThreadsLive
  <1>2. Provided(tasks', word')
    BY NextProvides
  <1>3. Provided(tasks, word)'
    BY <1>2 DEF Provided, Joined, WordsHeld, OnlyUsers, Held, Live, Present, In, Is
  <1> QED
    BY <1>1, <1>3 DEF JInv

(* A task asleep in pthread_join with no timeout waits for a thread that   *)
(* is still to exit, and so to wake it: futex_wait, clone, both exits and  *)
(* the sweep keep words and threads together, however many there are.      *)
THEOREM JoinersAreWoken == ThreadsLive => (Spec => []JoinersHaveThreads)
  <1> SUFFICES ASSUME ThreadsLive PROVE Spec => []JoinersHaveThreads
    OBVIOUS
  <1>1. Init => JInv
    BY InitJInv
  <1>2. JInv /\ [Next]_vars => JInv'
    BY NextJInv
  <1>3. JInv => JoinersHaveThreads
    BY DEF JInv, Provided, Joined, Joining, Held, Live, JoinersHaveThreads, In, Is, Present
  <1> QED
    BY <1>1, <1>2, <1>3, PTL DEF Spec
=============================================================================
