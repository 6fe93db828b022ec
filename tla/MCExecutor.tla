----------------------------- MODULE MCExecutor -----------------------------
(* Instances of Timers for TLC. *)
EXTENDS Timers, Sequences

\* Three tasks, of which the first two share a priority.
ThreeTasks == {1, 2, 3}
SharedPriority == <<1, 1, 0>>
=============================================================================
