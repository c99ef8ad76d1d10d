-------------------------- MODULE SpinLocksProofs --------------------------
(***************************************************************************)
(* What SpinLocks promises, for any number of tasks and locks: proofs.     *)
(* The runs' InterruptSafe says nothing of how guards nest, so it is not   *)
(* inductive: the drop of a guard turns interrupts on, and that is right   *)
(* only if it is the guard of the oldest IrqSpinLock the task holds.       *)
(* Restoring says exactly that, and FlagExact when the flag is set.        *)
(***************************************************************************)
EXTENDS SpinLocks, SequenceTheorems, TLAPS

(* The flag is set while task t runs and holds no IrqSpinLock. *)
Interruptible(t) == t \notin Process \cap inKernel

LocksOf(s) == {s[i].lock : i \in DOMAIN s}

(* Which guards restore the flag: that of the oldest IrqSpinLock, if the   *)
(* task had the flag set before it.                                        *)
Restores(s, base) ==
    \A i \in DOMAIN s : s[i].restore_interrupts <=>
        (base /\ s[i].lock \in Irq /\ \A j \in DOMAIN s : j > i => s[j].lock \notin Irq)

Distinct(s) == \A i, j \in DOMAIN s : s[i].lock = s[j].lock => i = j

Owned ==
    /\ locked = UNION {LocksOf(guards[t]) : t \in Task}
    /\ \A t, u \in Task : t # u => LocksOf(guards[t]) \cap LocksOf(guards[u]) = {}
    /\ \A t \in Task : Distinct(guards[t])

(* Nobody who is not running holds, or waits for, an IrqSpinLock. *)
OthersPlain == \A t \in Task \ {running} : LocksOf(guards[t]) \cap Irq = {} /\ wants[t].lock \notin Irq

FlagExact == enabled <=> (/\ Interruptible(running)
                          /\ LocksOf(guards[running]) \cap Irq = {}
                          /\ wants[running].lock \notin Irq)

Restoring ==
    \A t \in Task :
        /\ Restores(guards[t], Interruptible(t))
        /\ wants[t] # NoGuard =>
               /\ wants[t].lock \notin LocksOf(guards[t])
               /\ wants[t].restore_interrupts <=>
                      (Interruptible(t) /\ wants[t].lock \in Irq /\ LocksOf(guards[t]) \cap Irq = {})

(* What a task that waits for a SpinLock holds. *)
PlainWaits ==
    \A t \in Task : wants[t] # NoGuard /\ wants[t].lock \in Plain =>
        IF t \in Process THEN wants[t].lock \in SyscallLocks /\ LocksOf(guards[t]) \cap Plain = {}
        ELSE LocksOf(guards[t]) = {}

IInv == TypeOK /\ Thread \subseteq inKernel /\ Owned /\ OthersPlain /\ FlagExact /\ Restoring /\ PlainWaits

-----------------------------------------------------------------------------
(* The guards as a sequence.                                               *)

(* A guard more, or the newest gone: which locks are held. *)
LEMMA Pushed ==
    ASSUME NEW g \in Guard, NEW s \in Seq(Guard)
    PROVE  LET p == <<g>> \o s
           IN  /\ p \in Seq(Guard) /\ Len(p) = Len(s) + 1
               /\ p[1] = g /\ \A i \in 1 .. Len(s) : p[i + 1] = s[i]
               /\ LocksOf(p) = {g.lock} \cup LocksOf(s)
<1> DEFINE p == <<g>> \o s
<1>1. <<g>> \in Seq(Guard) /\ Len(<<g>>) = 1 /\ <<g>>[1] = g
  OBVIOUS
<1>2. /\ p \in Seq(Guard) /\ Len(p) = 1 + Len(s)
      /\ \A i \in 1 .. 1 + Len(s) : p[i] = IF i <= 1 THEN <<g>>[i] ELSE s[i - 1]
  BY <1>1, ConcatProperties
<1>3. p[1] = g /\ \A i \in 1 .. Len(s) : p[i + 1] = s[i]
  BY <1>1, <1>2
<1>4. DOMAIN p = 1 .. Len(s) + 1 /\ DOMAIN s = 1 .. Len(s) /\ Len(s) \in Nat
  BY <1>2
<1>5. LocksOf(p) = {g.lock} \cup LocksOf(s)
  <2>1. ASSUME NEW x \in LocksOf(p) PROVE x \in {g.lock} \cup LocksOf(s)
    <3>1. PICK i \in 1 .. Len(s) + 1 : x = p[i].lock
      BY <1>4, <2>1 DEF LocksOf
    <3>2. CASE i = 1
      BY <3>1, <3>2, <1>3
    <3>3. CASE i # 1
      <4>1. i - 1 \in 1 .. Len(s) /\ p[i] = s[i - 1]
        BY <3>3, <1>2, <1>4
      <4> QED BY <4>1, <3>1, <1>4 DEF LocksOf
    <3> QED BY <3>2, <3>3
  <2>2. ASSUME NEW x \in LocksOf(s) PROVE x \in LocksOf(p)
    <3>1. PICK i \in 1 .. Len(s) : x = s[i].lock
      BY <1>4, <2>2 DEF LocksOf
    <3>2. i + 1 \in 1 .. Len(s) + 1 /\ p[i + 1] = s[i]
      BY <1>3, <1>4
    <3> QED BY <3>1, <3>2, <1>4 DEF LocksOf
  <2>3. g.lock \in LocksOf(p)
    BY <1>3, <1>4 DEF LocksOf
  <2> QED BY <2>1, <2>2, <2>3
<1> QED BY <1>2, <1>3, <1>5

LEMMA Popped ==
    ASSUME NEW s \in Seq(Guard), s # <<>>
    PROVE  /\ Head(s) \in Guard /\ Tail(s) \in Seq(Guard)
           /\ Head(s) = s[1] /\ Len(s) \in Nat \ {0} /\ Len(Tail(s)) = Len(s) - 1
           /\ \A i \in 1 .. Len(Tail(s)) : Tail(s)[i] = s[i + 1]
           /\ LocksOf(s) = {Head(s).lock} \cup LocksOf(Tail(s))
<1>1. /\ Head(s) \in Guard /\ Tail(s) \in Seq(Guard)
      /\ Len(Tail(s)) = Len(s) - 1
      /\ \A i \in 1 .. Len(Tail(s)) : Tail(s)[i] = s[i + 1]
  BY HeadTailProperties
<1>2. Head(s) = s[1] /\ Len(s) \in Nat \ {0} /\ DOMAIN s = 1 .. Len(s)
  BY EmptySeq
<1>3. DOMAIN Tail(s) = 1 .. Len(s) - 1
  BY <1>1, <1>2
<1>4. LocksOf(s) = {Head(s).lock} \cup LocksOf(Tail(s))
  <2>1. ASSUME NEW x \in LocksOf(s) PROVE x \in {Head(s).lock} \cup LocksOf(Tail(s))
    <3>1. PICK i \in 1 .. Len(s) : x = s[i].lock
      BY <2>1, <1>2 DEF LocksOf
    <3>2. CASE i = 1
      BY <3>1, <3>2, <1>2
    <3>3. CASE i # 1
      <4>1. i - 1 \in 1 .. Len(s) - 1 /\ Tail(s)[i - 1] = s[i]
        BY <3>3, <1>1, <1>2
      <4> QED BY <4>1, <3>1, <1>3 DEF LocksOf
    <3> QED BY <3>2, <3>3
  <2>2. ASSUME NEW x \in LocksOf(Tail(s)) PROVE x \in LocksOf(s)
    <3>1. PICK i \in 1 .. Len(s) - 1 : x = Tail(s)[i].lock
      BY <2>2, <1>3 DEF LocksOf
    <3>2. i + 1 \in 1 .. Len(s) /\ Tail(s)[i] = s[i + 1]
      BY <1>1, <1>2
    <3> QED BY <3>1, <3>2, <1>2 DEF LocksOf
  <2>3. Head(s).lock \in LocksOf(s)
    BY <1>2 DEF LocksOf
  <2> QED BY <2>1, <2>2, <2>3
<1> QED BY <1>1, <1>2, <1>4

LEMMA PushedDistinct ==
    ASSUME NEW g \in Guard, NEW s \in Seq(Guard), Distinct(s), g.lock \notin LocksOf(s)
    PROVE  Distinct(<<g>> \o s)
<1> DEFINE p == <<g>> \o s
<1>1. /\ Len(p) = Len(s) + 1 /\ p[1] = g /\ \A i \in 1 .. Len(s) : p[i + 1] = s[i]
      /\ p \in Seq(Guard)
  BY Pushed
<1>2. DOMAIN p = 1 .. Len(s) + 1 /\ DOMAIN s = 1 .. Len(s) /\ Len(s) \in Nat
  BY <1>1
<1>3. ASSUME NEW i \in 1 .. Len(s) PROVE p[i + 1].lock # g.lock
  BY <1>1, <1>2 DEF LocksOf
<1>4. \A i \in DOMAIN p : i = 1 \/ (i - 1 \in 1 .. Len(s) /\ p[i] = s[i - 1])
  BY <1>1, <1>2
<1> QED BY <1>1, <1>2, <1>3, <1>4 DEF Distinct, LocksOf

LEMMA PoppedDistinct ==
    ASSUME NEW s \in Seq(Guard), s # <<>>, Distinct(s)
    PROVE  Distinct(Tail(s)) /\ Head(s).lock \notin LocksOf(Tail(s))
<1>1. /\ Head(s) = s[1] /\ Len(s) \in Nat \ {0} /\ Len(Tail(s)) = Len(s) - 1
      /\ \A i \in 1 .. Len(Tail(s)) : Tail(s)[i] = s[i + 1] /\ Tail(s) \in Seq(Guard)
  BY Popped
<1>2. DOMAIN s = 1 .. Len(s) /\ DOMAIN Tail(s) = 1 .. Len(s) - 1
  BY <1>1
<1>3. \A i \in 1 .. Len(s) - 1 : i + 1 \in DOMAIN s /\ i + 1 # 1 /\ Tail(s)[i] = s[i + 1]
  BY <1>1, <1>2
<1> QED BY <1>1, <1>2, <1>3 DEF Distinct, LocksOf

(* The guard that is added restores the flag if it is the first of an      *)
(* IrqSpinLock; when it goes, the others stay right.                       *)
LEMMA PushedRestores ==
    ASSUME NEW g \in Guard, NEW s \in Seq(Guard), NEW base \in BOOLEAN, Restores(s, base),
           g.restore_interrupts <=> (base /\ g.lock \in Irq /\ LocksOf(s) \cap Irq = {})
    PROVE  Restores(<<g>> \o s, base)
<1> DEFINE p == <<g>> \o s
<1>1. /\ Len(p) = Len(s) + 1 /\ p[1] = g /\ \A i \in 1 .. Len(s) : p[i + 1] = s[i]
      /\ p \in Seq(Guard)
  BY Pushed
<1>2. DOMAIN p = 1 .. Len(s) + 1 /\ DOMAIN s = 1 .. Len(s) /\ Len(s) \in Nat
  BY <1>1
<1>3. \A i \in DOMAIN p : i = 1 \/ (i - 1 \in DOMAIN s /\ p[i] = s[i - 1])
  BY <1>1, <1>2
<1>4. \A j \in DOMAIN s : j + 1 \in DOMAIN p /\ p[j + 1] = s[j]
  BY <1>1, <1>2
<1>5. LocksOf(s) \cap Irq = {} <=> \A j \in DOMAIN p : j > 1 => p[j].lock \notin Irq
  <2>1. ASSUME LocksOf(s) \cap Irq = {}, NEW j \in DOMAIN p, j > 1 PROVE p[j].lock \notin Irq
    BY <2>1, <1>2, <1>3 DEF LocksOf
  <2>2. ASSUME \A j \in DOMAIN p : j > 1 => p[j].lock \notin Irq, NEW x \in LocksOf(s) PROVE x \notin Irq
    <3>1. PICK j \in DOMAIN s : x = s[j].lock
      BY <2>2 DEF LocksOf
    <3>2. j + 1 > 1 /\ j + 1 \in DOMAIN p
      BY <1>2, <1>4
    <3> QED BY <2>2, <3>1, <3>2, <1>4
  <2> QED BY <2>1, <2>2
<1>6. ASSUME NEW i \in DOMAIN p
      PROVE  p[i].restore_interrupts <=> (base /\ p[i].lock \in Irq /\ \A j \in DOMAIN p : j > i => p[j].lock \notin Irq)
  <2>1. CASE i = 1
    BY <2>1, <1>1, <1>5
  <2>2. CASE i # 1
    <3>1. i - 1 \in DOMAIN s /\ p[i] = s[i - 1]
      BY <2>2, <1>3
    <3>2. s[i - 1].restore_interrupts <=> (base /\ s[i - 1].lock \in Irq /\ \A j \in DOMAIN s : j > i - 1 => s[j].lock \notin Irq)
      BY <3>1 DEF Restores
    <3>3. (\A j \in DOMAIN s : j > i - 1 => s[j].lock \notin Irq) <=> (\A j \in DOMAIN p : j > i => p[j].lock \notin Irq)
      <4>1. ASSUME \A j \in DOMAIN s : j > i - 1 => s[j].lock \notin Irq, NEW j \in DOMAIN p, j > i
            PROVE  p[j].lock \notin Irq
        <5>1. j - 1 \in DOMAIN s /\ p[j] = s[j - 1] /\ j - 1 > i - 1
          BY <4>1, <1>2, <1>3
        <5> QED BY <4>1, <5>1
      <4>2. ASSUME \A j \in DOMAIN p : j > i => p[j].lock \notin Irq, NEW j \in DOMAIN s, j > i - 1
            PROVE  s[j].lock \notin Irq
        <5>1. j + 1 \in DOMAIN p /\ p[j + 1] = s[j] /\ j + 1 > i
          BY <4>2, <1>2, <1>4
        <5> QED BY <4>2, <5>1
      <4> QED BY <4>1, <4>2
    <3> QED BY <3>1, <3>2, <3>3
  <2> QED BY <2>1, <2>2
<1> QED BY <1>6 DEF Restores

LEMMA PoppedRestores ==
    ASSUME NEW s \in Seq(Guard), s # <<>>, NEW base \in BOOLEAN, Restores(s, base)
    PROVE  /\ Restores(Tail(s), base)
           /\ Head(s).restore_interrupts <=> (base /\ Head(s).lock \in Irq /\ LocksOf(Tail(s)) \cap Irq = {})
<1>1. /\ Head(s) = s[1] /\ Len(s) \in Nat \ {0} /\ Len(Tail(s)) = Len(s) - 1
      /\ \A i \in 1 .. Len(Tail(s)) : Tail(s)[i] = s[i + 1] /\ Tail(s) \in Seq(Guard)
  BY Popped
<1> DEFINE u == Tail(s)
<1>2. DOMAIN s = 1 .. Len(s) /\ DOMAIN u = 1 .. Len(s) - 1
  BY <1>1
<1>3. \A i \in DOMAIN u : i + 1 \in DOMAIN s /\ i + 1 > 1 /\ u[i] = s[i + 1]
  BY <1>1, <1>2
<1>4. \A j \in DOMAIN s : j = 1 \/ (j - 1 \in DOMAIN u /\ u[j - 1] = s[j])
  BY <1>1, <1>2
<1>5. LocksOf(u) \cap Irq = {} <=> \A j \in DOMAIN s : j > 1 => s[j].lock \notin Irq
  <2>1. ASSUME LocksOf(u) \cap Irq = {}, NEW j \in DOMAIN s, j > 1 PROVE s[j].lock \notin Irq
    <3>1. j - 1 \in DOMAIN u /\ u[j - 1] = s[j]
      BY <2>1, <1>2, <1>4
    <3>2. s[j].lock \in LocksOf(u)
      BY <3>1 DEF LocksOf
    <3> QED BY <2>1, <3>2
  <2>2. ASSUME \A j \in DOMAIN s : j > 1 => s[j].lock \notin Irq, NEW x \in LocksOf(u) PROVE x \notin Irq
    <3>1. PICK j \in DOMAIN u : x = u[j].lock
      BY <2>2 DEF LocksOf
    <3> QED BY <2>2, <3>1, <1>3
  <2> QED BY <2>1, <2>2
<1>6. Head(s).restore_interrupts <=> (base /\ Head(s).lock \in Irq /\ LocksOf(u) \cap Irq = {})
  BY <1>1, <1>2, <1>5 DEF Restores
<1>7. ASSUME NEW i \in DOMAIN u
      PROVE  u[i].restore_interrupts <=> (base /\ u[i].lock \in Irq /\ \A j \in DOMAIN u : j > i => u[j].lock \notin Irq)
  <2>1. i + 1 \in DOMAIN s /\ u[i] = s[i + 1]
    BY <1>3
  <2>2. s[i + 1].restore_interrupts <=> (base /\ s[i + 1].lock \in Irq /\ \A j \in DOMAIN s : j > i + 1 => s[j].lock \notin Irq)
    BY <2>1 DEF Restores
  <2>3. (\A j \in DOMAIN s : j > i + 1 => s[j].lock \notin Irq) <=> (\A j \in DOMAIN u : j > i => u[j].lock \notin Irq)
    <3>1. ASSUME \A j \in DOMAIN s : j > i + 1 => s[j].lock \notin Irq, NEW j \in DOMAIN u, j > i PROVE u[j].lock \notin Irq
      <4>1. j + 1 \in DOMAIN s /\ u[j] = s[j + 1] /\ j + 1 > i + 1
        BY <3>1, <1>2, <1>3
      <4> QED BY <3>1, <4>1
    <3>2. ASSUME \A j \in DOMAIN u : j > i => u[j].lock \notin Irq, NEW j \in DOMAIN s, j > i + 1 PROVE s[j].lock \notin Irq
      <4>1. j - 1 \in DOMAIN u /\ u[j - 1] = s[j] /\ j - 1 > i
        BY <3>2, <1>2, <1>4
      <4> QED BY <3>2, <4>1
    <3> QED BY <3>1, <3>2
  <2> QED BY <2>1, <2>2, <2>3
<1> QED BY <1>6, <1>7 DEF Restores
-----------------------------------------------------------------------------
(* The invariant.                                                          *)

LEMMA Initially == ASSUME Init PROVE IInv
<1>1. NoGuard.lock \notin Irq /\ NoGuard.lock \notin Plain
  BY LockAssumption DEF NoGuard, Lock
<1>2. \A t \in Task : guards[t] = <<>> /\ wants[t] = NoGuard
  BY DEF Init
<1>3. <<>> \in Seq(Guard) /\ DOMAIN <<>> = {} /\ LocksOf(<<>>) = {}
  BY DEF LocksOf
<1>4. TypeOK
  BY <1>3 DEF Init, TypeOK, Task
<1>5. running \in Task /\ Interruptible(running) /\ enabled
  BY LockAssumption DEF Init, Interruptible, Task
<1>6. Owned
  BY <1>2, <1>3 DEF Init, Owned, Distinct
<1>7. OthersPlain /\ FlagExact
  BY <1>1, <1>2, <1>3, <1>5 DEF OthersPlain, FlagExact
<1>8. Restoring
  BY <1>2, <1>3 DEF Restoring, Restores
<1>9. PlainWaits
  BY <1>2 DEF PlainWaits
<1> QED BY <1>4, <1>6, <1>7, <1>8, <1>9 DEF IInv, Init

(* Held, as the module says it, is LocksOf. *)
LEMMA HeldLocks == ASSUME NEW t \in Task PROVE Held(t) = LocksOf(guards[t])
BY DEF Held, LocksOf

(* A task that is between two critical sections holds and wants nothing. *)
LEMMA Nothing == LocksOf(<<>>) = {} /\ Distinct(<<>>) /\ (\A b \in BOOLEAN : Restores(<<>>, b)) /\ <<>> \in Seq(Guard)
BY DEF LocksOf, Distinct, Restores

LEMMA NoGuardPlain == NoGuard.lock \notin Irq /\ NoGuard.lock \notin Plain /\ NoGuard \notin Guard
BY LockAssumption DEF NoGuard, Lock, Guard

LEMMA EnterKeeps ==
    ASSUME IInv, NEW t \in Task, NEW l \in Lock, Enter(t, l)
    PROVE  IInv'
<1> DEFINE g == [lock |-> l, restore_interrupts |-> l \in Irq /\ enabled]
<1>1. /\ running = t /\ t \in inKernel /\ wants[t] = NoGuard /\ Nests(t, l)
      /\ wants' = [wants EXCEPT ![t] = g] /\ enabled' = (enabled /\ l \notin Irq)
      /\ running' = running /\ inKernel' = inKernel /\ guards' = guards /\ locked' = locked
  BY DEF Enter, Between
<1>2. TypeOK /\ enabled \in BOOLEAN /\ wants \in [Task -> Guard \cup {NoGuard}] /\ guards \in [Task -> Seq(Guard)]
  BY DEF IInv, TypeOK
<1>3. g \in Guard /\ g.lock = l /\ (g.restore_interrupts <=> l \in Irq /\ enabled)
  BY <1>2 DEF Guard
<1>4. wants'[t] = g /\ \A u \in Task \ {t} : wants'[u] = wants[u]
  BY <1>1, <1>2
<1>5. TypeOK'
  <2>1. wants' \in [Task -> Guard \cup {NoGuard}] /\ enabled' \in BOOLEAN
    BY <1>1, <1>2, <1>3
  <2>2. \A u \in Task \ inKernel : wants'[u] = NoGuard /\ guards[u] = <<>>
    BY <1>1, <1>2, <1>4 DEF TypeOK
  <2> QED BY <1>1, <1>2, <2>1, <2>2 DEF TypeOK
<1>6. Owned' /\ (Thread \subseteq inKernel)'
  BY <1>1 DEF IInv, Owned
<1>7. OthersPlain'
  BY <1>1, <1>4 DEF IInv, OthersPlain
<1>8. FlagExact'
  BY <1>1, <1>3, <1>4, NoGuardPlain DEF IInv, FlagExact, Interruptible
<1>9. Restoring'
  <2>1. l \notin LocksOf(guards[t])
    BY <1>1, HeldLocks DEF Nests
  <2>2. enabled <=> Interruptible(t) /\ LocksOf(guards[t]) \cap Irq = {}
    BY <1>1, NoGuardPlain DEF IInv, FlagExact
  <2>3. g.restore_interrupts <=> (Interruptible(t) /\ g.lock \in Irq /\ LocksOf(guards[t]) \cap Irq = {})
    BY <2>2, <1>3
  <2>4. \A u \in Task : Interruptible(u)' = Interruptible(u)
    BY <1>1 DEF Interruptible
  <2> QED BY <1>1, <1>3, <1>4, <2>1, <2>3, <2>4 DEF IInv, Restoring, Restores, Interruptible
<1>10. PlainWaits'
  <2>1. l \in Plain => IF t \in Process THEN l \in SyscallLocks /\ LocksOf(guards[t]) \cap Plain = {}
                        ELSE LocksOf(guards[t]) = {}
    BY <1>1, HeldLocks DEF Nests
  <2> QED BY <1>1, <1>3, <1>4, <2>1 DEF IInv, PlainWaits
<1> QED BY <1>5, <1>6, <1>7, <1>8, <1>9, <1>10 DEF IInv

LEMMA AcquireKeeps ==
    ASSUME IInv, NEW t \in Task, Acquire(t)
    PROVE  IInv'
<1> DEFINE g == wants[t]
<1>1. /\ running = t /\ g # NoGuard /\ g.lock \notin locked
      /\ locked' = locked \cup {g.lock} /\ guards' = [guards EXCEPT ![t] = <<g>> \o guards[t]]
      /\ wants' = [wants EXCEPT ![t] = NoGuard]
      /\ running' = running /\ enabled' = enabled /\ inKernel' = inKernel
  BY DEF Acquire
<1>2. TypeOK /\ wants \in [Task -> Guard \cup {NoGuard}] /\ guards \in [Task -> Seq(Guard)]
  BY DEF IInv, TypeOK
<1>3. g \in Guard /\ guards[t] \in Seq(Guard)
  BY <1>1, <1>2
<1>4. /\ <<g>> \o guards[t] \in Seq(Guard)
      /\ LocksOf(<<g>> \o guards[t]) = {g.lock} \cup LocksOf(guards[t])
  BY <1>3, Pushed
<1>5. /\ wants'[t] = NoGuard /\ \A u \in Task \ {t} : wants'[u] = wants[u]
      /\ guards'[t] = <<g>> \o guards[t] /\ \A u \in Task \ {t} : guards'[u] = guards[u]
  BY <1>1, <1>2
<1>6. \A u \in Task : LocksOf(guards[u]) \subseteq locked
  BY DEF IInv, Owned
<1>7. g.lock \notin LocksOf(guards[t]) /\ g.lock \in Lock
  BY <1>1, <1>3, <1>6 DEF Guard
<1>8. TypeOK'
  <2>1. wants' \in [Task -> Guard \cup {NoGuard}] /\ guards' \in [Task -> Seq(Guard)]
    BY <1>1, <1>2, <1>4
  <2>2. \A u \in Task \ inKernel : wants'[u] = NoGuard /\ guards'[u] = <<>>
    BY <1>1, <1>2, <1>5 DEF TypeOK
  <2>3. locked' \subseteq Lock
    BY <1>1, <1>2, <1>7 DEF TypeOK
  <2> QED BY <1>1, <1>2, <2>1, <2>2, <2>3 DEF TypeOK
<1>9. Owned'
  <2>1. locked' = UNION {LocksOf(guards'[u]) : u \in Task}
    <3>1. locked = UNION {LocksOf(guards[u]) : u \in Task}
      BY DEF IInv, Owned
    <3>2. \A x : x \in locked' <=> \E u \in Task : x \in LocksOf(guards'[u])
      BY <3>1, <1>1, <1>4, <1>5
    <3> QED BY <3>2
  <2>2. ASSUME NEW u \in Task, NEW v \in Task, u # v
        PROVE  LocksOf(guards'[u]) \cap LocksOf(guards'[v]) = {}
    <3>1. LocksOf(guards[u]) \cap LocksOf(guards[v]) = {}
      BY <2>2 DEF IInv, Owned
    <3>2. g.lock \notin LocksOf(guards[u]) /\ g.lock \notin LocksOf(guards[v])
      BY <1>1, <1>6
    <3>3. CASE u = t
      BY <3>1, <3>2, <3>3, <2>2, <1>4, <1>5
    <3>4. CASE v = t
      BY <3>1, <3>2, <3>4, <2>2, <1>4, <1>5
    <3>5. CASE u # t /\ v # t
      BY <3>1, <3>5, <1>5
    <3> QED BY <3>3, <3>4, <3>5
  <2>3. Distinct(<<g>> \o guards[t])
    BY <1>3, <1>7, PushedDistinct DEF IInv, Owned
  <2>4. \A u \in Task : Distinct(guards'[u])
    BY <2>3, <1>5 DEF IInv, Owned
  <2> QED BY <2>1, <2>2, <2>4 DEF Owned
<1>10. OthersPlain'
  BY <1>1, <1>5 DEF IInv, OthersPlain
<1>11. FlagExact'
  <2>1. enabled <=> (Interruptible(t) /\ LocksOf(guards[t]) \cap Irq = {} /\ g.lock \notin Irq)
    BY <1>1 DEF IInv, FlagExact
  <2>2. enabled <=> (Interruptible(t) /\ LocksOf(guards'[t]) \cap Irq = {} /\ wants'[t].lock \notin Irq)
    BY <2>1, <1>4, <1>5, NoGuardPlain
  <2> QED BY <2>2, <1>1 DEF FlagExact, Interruptible
<1>12. Restoring'
  <2>1. \A u \in Task : Interruptible(u)' = Interruptible(u) /\ Interruptible(u) \in BOOLEAN
    BY <1>1 DEF Interruptible
  <2>2. Restores(<<g>> \o guards[t], Interruptible(t))
    BY <1>1, <1>3, <2>1, PushedRestores DEF IInv, Restoring
  <2>3. \A u \in Task : Restores(guards'[u], Interruptible(u))
    BY <2>2, <1>5 DEF IInv, Restoring
  <2> QED BY <1>5, <2>1, <2>3 DEF IInv, Restoring, Restores, Interruptible
<1>13. PlainWaits'
  BY <1>5 DEF IInv, PlainWaits
<1>14. (Thread \subseteq inKernel)'
  BY <1>1 DEF IInv
<1> QED BY <1>8, <1>9, <1>10, <1>11, <1>12, <1>13, <1>14 DEF IInv

LEMMA DropKeeps ==
    ASSUME IInv, NEW t \in Task, Drop(t)
    PROVE  IInv'
<1> DEFINE h == Head(guards[t])
           rest == Tail(guards[t])
<1>1. /\ running = t /\ t \in inKernel /\ wants[t] = NoGuard /\ guards[t] # <<>>
      /\ locked' = locked \ {h.lock} /\ guards' = [guards EXCEPT ![t] = rest]
      /\ enabled' = (enabled \/ h.restore_interrupts)
      /\ running' = running /\ inKernel' = inKernel /\ wants' = wants
  BY DEF Drop, Between
<1>2. TypeOK /\ enabled \in BOOLEAN /\ guards \in [Task -> Seq(Guard)] /\ guards[t] \in Seq(Guard)
  BY DEF IInv, TypeOK
<1>3. /\ h \in Guard /\ rest \in Seq(Guard)
      /\ LocksOf(guards[t]) = {h.lock} \cup LocksOf(rest)
  BY <1>1, <1>2, Popped
<1>4. Distinct(rest) /\ h.lock \notin LocksOf(rest)
  BY <1>1, <1>2, PoppedDistinct DEF IInv, Owned
<1>5. guards'[t] = rest /\ \A u \in Task \ {t} : guards'[u] = guards[u]
  BY <1>1, <1>2
<1>6. Interruptible(t) \in BOOLEAN /\ \A u \in Task : Interruptible(u)' = Interruptible(u)
  BY <1>1 DEF Interruptible
<1>7. /\ Restores(rest, Interruptible(t))
      /\ h.restore_interrupts <=> (Interruptible(t) /\ h.lock \in Irq /\ LocksOf(rest) \cap Irq = {})
  BY <1>1, <1>2, <1>6, PoppedRestores DEF IInv, Restoring
<1>8. TypeOK'
  <2>1. guards' \in [Task -> Seq(Guard)] /\ enabled' \in BOOLEAN
    BY <1>1, <1>2, <1>3 DEF Guard
  <2>2. \A u \in Task \ inKernel : wants[u] = NoGuard /\ guards'[u] = <<>>
    BY <1>1, <1>2, <1>5 DEF TypeOK
  <2> QED BY <1>1, <1>2, <2>1, <2>2 DEF TypeOK
<1>9. Owned'
  <2>1. \A u \in Task \ {t} : h.lock \notin LocksOf(guards[u])
    BY <1>3 DEF IInv, Owned
  <2>2. locked' = UNION {LocksOf(guards'[u]) : u \in Task}
    <3>1. locked = UNION {LocksOf(guards[u]) : u \in Task}
      BY DEF IInv, Owned
    <3>2. \A x : x \in locked' <=> \E u \in Task : x \in LocksOf(guards'[u])
      BY <3>1, <2>1, <1>1, <1>3, <1>4, <1>5, ZenonT(60)
    <3> QED BY <3>2
  <2>3. \A u \in Task : LocksOf(guards'[u]) \subseteq LocksOf(guards[u])
    BY <1>3, <1>5
  <2>4. \A u, v \in Task : u # v => LocksOf(guards'[u]) \cap LocksOf(guards'[v]) = {}
    BY <2>3 DEF IInv, Owned
  <2>5. \A u \in Task : Distinct(guards'[u])
    BY <1>4, <1>5 DEF IInv, Owned
  <2> QED BY <2>2, <2>4, <2>5 DEF Owned
<1>10. OthersPlain'
  BY <1>1, <1>5 DEF IInv, OthersPlain
<1>11. FlagExact'
  <2>1. enabled <=> (Interruptible(t) /\ LocksOf(guards[t]) \cap Irq = {})
    BY <1>1, NoGuardPlain DEF IInv, FlagExact
  <2>2. LocksOf(guards[t]) \cap Irq = {} <=> (h.lock \notin Irq /\ LocksOf(rest) \cap Irq = {})
    BY <1>3
  <2>3. enabled' <=> (Interruptible(t) /\ LocksOf(rest) \cap Irq = {})
    BY <2>1, <2>2, <1>1, <1>2, <1>7
  <2> QED BY <2>3, <1>1, <1>5, <1>6, NoGuardPlain DEF FlagExact, Interruptible
<1>12. Restoring'
  <2>1. \A u \in Task : Restores(guards'[u], Interruptible(u))
    BY <1>5, <1>7 DEF IInv, Restoring
  <2>2. \A u \in Task : wants[u] # NoGuard => u # t
    BY <1>1
  <2> QED BY <1>1, <1>5, <1>6, <2>1, <2>2 DEF IInv, Restoring, Restores, Interruptible
<1>13. PlainWaits'
  BY <1>1, <1>5 DEF IInv, PlainWaits
<1>14. (Thread \subseteq inKernel)'
  BY <1>1 DEF IInv
<1> QED BY <1>8, <1>9, <1>10, <1>11, <1>12, <1>13, <1>14 DEF IInv

(* The entry of a system call and the return from it: the task holds and   *)
(* waits for nothing, so only its own flag changes.                        *)
LEMMA CrossingKeeps ==
    ASSUME IInv, NEW t \in Task, Syscall(t) \/ Return(t)
    PROVE  IInv'
<1>1. /\ running = t /\ t \in Process
      /\ running' = running /\ wants' = wants /\ guards' = guards /\ locked' = locked
      /\ \A u \in Task \ {t} : u \in inKernel' <=> u \in inKernel
      /\ enabled' \in BOOLEAN /\ inKernel' \subseteq inKernel \cup {t}
      /\ enabled' <=> t \notin inKernel'
  BY DEF Syscall, Return, Between
<1>2. TypeOK /\ wants[t] = NoGuard /\ guards[t] = <<>>
  <2>1. CASE Syscall(t)
    BY <2>1 DEF IInv, TypeOK, Syscall
  <2>2. CASE Return(t)
    BY <2>2 DEF IInv, Return, Between
  <2> QED BY <2>1, <2>2
<1>3. \A u \in Task \ {t} : Interruptible(u)' = Interruptible(u)
  BY <1>1 DEF Interruptible
<1>4. enabled' <=> Interruptible(t)'
  BY <1>1 DEF Interruptible
<1>5. TypeOK'
  BY <1>1, <1>2 DEF TypeOK
<1>6. (Thread \subseteq inKernel)'
  BY <1>1, LockAssumption DEF IInv, Task
<1>7. Owned' /\ OthersPlain' /\ PlainWaits'
  BY <1>1 DEF IInv, Owned, OthersPlain, PlainWaits
<1>8. FlagExact'
  <2>1. LocksOf(guards[t]) \cap Irq = {} /\ wants[t].lock \notin Irq
    BY <1>2, Nothing, NoGuardPlain
  <2> QED BY <2>1, <1>1, <1>4 DEF FlagExact, Interruptible
<1>9. Restoring'
  <2>1. Restores(guards[t], Interruptible(t)')
    BY <1>2, Nothing DEF Restores
  <2> QED BY <2>1, <1>1, <1>2, <1>3 DEF IInv, Restoring, Restores, Interruptible
<1> QED BY <1>5, <1>6, <1>7, <1>8, <1>9 DEF IInv

(* A switch away from a task that holds, and waits for, no IrqSpinLock.    *)
LEMMA SwitchKeeps ==
    ASSUME IInv, NEW u \in Task, SwitchTo(u),
           LocksOf(guards[running]) \cap Irq = {}, wants[running].lock \notin Irq,
           UNCHANGED <<inKernel, wants, guards, locked>>
    PROVE  IInv'
<1>1. /\ running' = u /\ enabled' = (u \notin Process \cap inKernel)
      /\ inKernel' = inKernel /\ wants' = wants /\ guards' = guards /\ locked' = locked
  BY DEF SwitchTo
<1>2. \A v \in Task : LocksOf(guards[v]) \cap Irq = {} /\ wants[v].lock \notin Irq
  BY DEF IInv, OthersPlain
<1>3. TypeOK'
  BY <1>1 DEF IInv, TypeOK
<1>4. Owned' /\ PlainWaits' /\ (Thread \subseteq inKernel)'
  BY <1>1 DEF IInv, Owned, PlainWaits
<1>5. Restoring'
  BY <1>1 DEF IInv, Restoring, Restores, Interruptible
<1>6. OthersPlain'
  BY <1>1, <1>2 DEF OthersPlain
<1>7. FlagExact'
  BY <1>1, <1>2 DEF FlagExact, Interruptible
<1> QED BY <1>3, <1>4, <1>5, <1>6, <1>7 DEF IInv

LEMMA StepKeeps == ASSUME IInv, [Next]_vars PROVE IInv'
<1>1. CASE Tick
  <2>1. PICK u \in Task : SwitchTo(u)
    BY <1>1 DEF Tick
  <2>2. LocksOf(guards[running]) \cap Irq = {} /\ wants[running].lock \notin Irq
    BY <1>1 DEF Tick, IInv, FlagExact
  <2>3. UNCHANGED <<inKernel, wants, guards, locked>>
    BY <1>1 DEF Tick
  <2> QED BY <2>1, <2>2, <2>3, SwitchKeeps
<1>2. ASSUME NEW t \in Task, Acquire(t) PROVE IInv'
  BY <1>2, AcquireKeeps
<1>3. ASSUME NEW t \in Task, Drop(t) PROVE IInv'
  BY <1>3, DropKeeps
<1>4. ASSUME NEW t \in Task, Syscall(t) \/ Return(t) PROVE IInv'
  BY <1>4, CrossingKeeps
<1>5. ASSUME NEW t \in Task, Sleep(t) PROVE IInv'
  <2>1. /\ running = t /\ wants[t] = NoGuard /\ guards[t] = <<>>
        /\ UNCHANGED <<inKernel, wants, guards, locked>>
    BY <1>5 DEF Sleep, Between
  <2>2. PICK u \in Task : SwitchTo(u)
    BY <1>5 DEF Sleep
  <2>3. LocksOf(guards[running]) \cap Irq = {} /\ wants[running].lock \notin Irq
    BY <2>1, Nothing, NoGuardPlain
  <2> QED BY <2>1, <2>2, <2>3, SwitchKeeps
<1>6. ASSUME NEW t \in Task, NEW l \in Lock, Enter(t, l) PROVE IInv'
  BY <1>6, EnterKeeps
<1>7. CASE UNCHANGED vars
  <2>1. /\ running' = running /\ enabled' = enabled /\ inKernel' = inKernel
        /\ wants' = wants /\ guards' = guards /\ locked' = locked
    BY <1>7 DEF vars
  <2>2. TypeOK' /\ (Thread \subseteq inKernel)'
    BY <2>1 DEF IInv, TypeOK
  <2>3. Owned' /\ OthersPlain' /\ FlagExact' /\ PlainWaits'
    BY <2>1 DEF IInv, Owned, OthersPlain, FlagExact, PlainWaits, Interruptible
  <2>4. Restoring'
    BY <2>1 DEF IInv, Restoring, Restores, Interruptible
  <2> QED BY <2>2, <2>3, <2>4 DEF IInv
<1> QED BY <1>1, <1>2, <1>3, <1>4, <1>5, <1>6, <1>7 DEF Next, Step

LEMMA Inductive == Spec => []IInv
<1>1. Init => IInv
  BY Initially
<1>2. IInv /\ [Next]_vars => IInv'
  BY StepKeeps
<1> QED BY <1>1, <1>2, PTL DEF Spec

-----------------------------------------------------------------------------
(* The theorems.                                                           *)

(* Whatever the tasks and the locks, the lock state is what sync.rs        *)
(* declares, and a task has or waits for a lock only in kernel code.       *)
THEOREM TypeCorrect == Spec => []TypeOK
<1>1. IInv => TypeOK
  BY DEF IInv
<1> QED BY <1>1, Inductive, PTL

(* The timer interrupt never finds TASKS, or any IrqSpinLock, locked: the  *)
(* flag is clear for as long as any task holds one.                        *)
THEOREM InterruptsFindNoLock == Spec => []InterruptSafe
<1>1. ASSUME IInv PROVE InterruptSafe
  <2>1. ASSUME enabled, NEW l \in locked PROVE l \notin Irq
    <3>1. \A t \in Task : LocksOf(guards[t]) \cap Irq = {}
      BY <1>1, <2>1 DEF IInv, FlagExact, OthersPlain
    <3>2. PICK t \in Task : l \in LocksOf(guards[t])
      BY <1>1, <2>1 DEF IInv, Owned
    <3> QED BY <3>1, <3>2
  <2> QED BY <2>1 DEF InterruptSafe
<1>2. IInv => InterruptSafe
  BY <1>1
<1> QED BY <1>2, Inductive, PTL

(* Once a task has dropped its last IrqSpinLock its interrupt flag is what *)
(* it was before the first: the guards restore it exactly once.            *)
THEOREM FlagComesBack == Spec => []FlagRestored
<1>1. ASSUME IInv PROVE FlagRestored
  <2>1. running \in Task /\ enabled \in BOOLEAN
    BY <1>1 DEF IInv, TypeOK
  <2>2. ASSUME wants[running] = NoGuard, Held(running) \subseteq Plain
        PROVE  enabled = (running \notin Process \cap inKernel)
    <3>1. LocksOf(guards[running]) \cap Irq = {} /\ wants[running].lock \notin Irq
      BY <2>1, <2>2, HeldLocks, NoGuardPlain, LockAssumption
    <3>2. enabled <=> (running \notin Process \cap inKernel)
      BY <1>1, <3>1 DEF IInv, FlagExact, Interruptible
    <3> QED BY <2>1, <3>2
  <2> QED BY <2>2 DEF FlagRestored
<1>2. IInv => FlagRestored
  BY <1>1
<1> QED BY <1>2, Inductive, PTL

(* A locked lock belongs to exactly one task, and a task that is switched  *)
(* away holds no IrqSpinLock.                                              *)
THEOREM EveryLockHasOneGuard == Spec => []OneGuard
<1>1. ASSUME IInv PROVE OneGuard
  <2>1. \A t \in Task : Held(t) = LocksOf(guards[t])
    BY HeldLocks
  <2>2. locked = UNION {Held(t) : t \in Task}
    BY <1>1, <2>1 DEF IInv, Owned
  <2>3. \A t, u \in Task : t # u => Held(t) \cap Held(u) = {}
    BY <1>1, <2>1 DEF IInv, Owned
  <2>4. \A t \in Task \ {running} : Held(t) \cap Irq = {}
    BY <1>1, <2>1 DEF IInv, OthersPlain
  <2> QED BY <2>2, <2>3, <2>4 DEF OneGuard
<1>2. IInv => OneGuard
  BY <1>1
<1> QED BY <1>2, Inductive, PTL

(* Whatever SpinLocks system calls take, only a system call that takes one *)
(* of them can spin with interrupts off, and whoever has the lock is not   *)
(* spinning itself: no other way of using the locks can hang the machine.  *)
THEOREM OnlySuchCallsHang == Spec => []OnlySyscallsHang
<1>1. ASSUME IInv PROVE OnlySyscallsHang
  <2> DEFINE l == wants[running].lock
  <2>1. SUFFICES ASSUME wants[running] # NoGuard, l \in locked
                 PROVE  /\ enabled \/ (running \in Process /\ l \in SyscallLocks)
                        /\ \A t \in Task : l \in Held(t) => t # running /\ wants[t] = NoGuard
    BY DEF OnlySyscallsHang
  <2>2. running \in Task /\ wants[running] \in Guard /\ l \in Lock
    BY <1>1, <2>1 DEF IInv, TypeOK, Guard
  <2>3. l \notin LocksOf(guards[running])
    BY <1>1, <2>1, <2>2 DEF IInv, Restoring
  <2>4. l \in Plain
    <3>1. PICK t \in Task : l \in LocksOf(guards[t])
      BY <1>1, <2>1 DEF IInv, Owned
    <3>2. l \notin Irq
      BY <1>1, <2>3, <3>1 DEF IInv, OthersPlain
    <3> QED BY <2>2, <3>2 DEF Lock
  <2>5. enabled \/ (running \in Process /\ l \in SyscallLocks)
    <3>1. running \in Process => l \in SyscallLocks
      BY <1>1, <2>1, <2>2, <2>4 DEF IInv, PlainWaits
    <3>2. ASSUME running \notin Process PROVE enabled
      <4>1. LocksOf(guards[running]) = {}
        BY <1>1, <2>1, <2>2, <2>4, <3>2 DEF IInv, PlainWaits
      <4> QED BY <1>1, <2>4, <3>2, <4>1, LockAssumption DEF IInv, FlagExact, Interruptible
    <3> QED BY <3>1, <3>2
  <2>6. ASSUME NEW t \in Task, l \in LocksOf(guards[t]) PROVE t # running /\ wants[t] = NoGuard
    <3>1. t # running
      BY <2>3, <2>6
    <3>2. wants[t] # NoGuard => wants[t].lock \in Plain
      BY <1>1, <3>1 DEF IInv, TypeOK, OthersPlain, Guard, Lock
    <3>3. wants[t] # NoGuard => LocksOf(guards[t]) \cap Plain = {}
      BY <1>1, <3>2 DEF IInv, PlainWaits
    <3> QED BY <2>4, <2>6, <3>1, <3>3
  <2> QED BY <2>5, <2>6, HeldLocks
<1>2. IInv => OnlySyscallsHang
  BY <1>1
<1> QED BY <1>2, Inductive, PTL
=============================================================================
