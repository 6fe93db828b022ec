----------------------------- MODULE MCPreempt -----------------------------
(* Instances of Preempt for TLC. *)
EXTENDS Preempt

\* Boot-time task sets: the priority of slots 1, 2, ..., -1 for a free slot.
BootTwo == <<1, 1>>
BootMixed == <<1, 2>>
BootOneFree == <<1, -1>>
=============================================================================
