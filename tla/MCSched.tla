------------------------------ MODULE MCSched ------------------------------
(* The scheduler for TLC: small sets, and symmetric ones where no liveness *)
(* property is checked.                                                    *)
EXTENDS Sched, TLC

Symmetry == Permutations(Space) \cup Permutations(Word)
=============================================================================
