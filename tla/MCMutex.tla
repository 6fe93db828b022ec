------------------------------ MODULE MCMutex ------------------------------
(* Instances of Mutex for TLC. *)
EXTENDS Mutex, TLC

\* Boot-time tasks of different priorities.
BootLowHigh == <<1, 2>>

\* Of the same priority: a tick goes from one to the other.
BootEqual == <<1, 1>>

\* What a later step can still tell apart.  A task's mutex and deadline mean
\* something only while it is in a lock call, and no dispatch compares the stamp
\* of the executor's task, alone at its priority, or of a task that is isolated.
View ==
  <<[k EXCEPT !.seq = [t \in Tasks |-> IF t \in faulted \cup {IDLE} THEN 0 ELSE @[t]]],
    pc, armed, isr, ready, halted, faulted,
    locked, owner, waiters, poisoned, held, unboosted,
    late \cap {t \in Tasks \ faulted : Waiting(t)},
    [t \in {u \in Tasks : pc[u] \in MutexLabels \ {"unlocked"}} |->
       <<want[t], IF t \in faulted THEN "none" ELSE dl[t]>>]>>

\* No task prefers one mutex to another.
Symmetry == Permutations(Mutexes)
=============================================================================
