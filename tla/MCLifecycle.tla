---------------------------- MODULE MCLifecycle -----------------------------
(* Instances of Lifecycle for TLC. *)
EXTENDS Lifecycle

\* Boot-time tasks: a spawner and a joiner of one priority; one slot is free.
BootTwins == <<1, 1, -1>>

\* A manager that shares its priority with no other task.
Alone(m) ==
  BootTasks[m] \notin ChildPrios /\ \A u \in Tasks \ {IDLE, m} : BootTasks[u] # BootTasks[m]

\* The stop flags, which no step of the kernel reads, tell no states apart, nor
\* do the stamps of the executor's task and of a manager that is alone at its
\* priority.
View ==
  <<[k EXCEPT !.seq = [t \in Tasks |-> IF t = IDLE \/ (t \in Managers /\ Alone(t))
                                       THEN 0 ELSE @[t]]],
    pc, armed, isr, ready, halted, faulted, [tcb EXCEPT !.stop = {}], pool, loc>>
=============================================================================
