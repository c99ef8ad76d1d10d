---------------------------- MODULE MCSpinLocks ----------------------------
(* The spinlocks for TLC. *)
EXTENDS SpinLocks, TLC

Symmetry == Permutations(Thread) \cup Permutations(Process)
=============================================================================
