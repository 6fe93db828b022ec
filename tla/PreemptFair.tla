---------------------------- MODULE PreemptFair ----------------------------
(***************************************************************************)
(* Preempt with a history of overtaking: overtook[t] is the set of tasks   *)
(* dispatched at task t's effective priority since t began its present     *)
(* wait in the ready queue.                                                *)
(***************************************************************************)
EXTENDS Preempt

VARIABLE overtook

fvars == <<vars, overtook>>

\* Task t waits in the ready queue of scheduler record s.
Waits(s, t) ==
  t \in s.used /\ s.state[t] = "READY" /\ \A h \in Harts : s.current[h] # t

\* This step switches some hart to task c.
Dispatched(c) == \E h \in Harts : k'.current[h] = c /\ k.current[h] # c

FInit == Init /\ overtook = [t \in Tasks |-> {}]

FNext ==
  /\ Next
  /\ overtook' = [t \in Tasks |->
       IF Waits(k, t) /\ Waits(k', t)
       THEN overtook[t] \cup {c \in Tasks : Dispatched(c) /\ k.eff[c] = k.eff[t]}
       ELSE {}]

FSpec == FInit /\ [][FNext]_fvars /\ IrqFairness

\* Bounded waiting: while a task waits, no task of its priority is dispatched
\* twice ahead of it, on however many harts.  A waiting task is overtaken at
\* most once by each rival (the fairness argument in DISPATCH_SEQ's docs).
OvertakenAtMostOnce ==
  [][\A t, c \in Tasks :
       Waits(k, t) /\ Waits(k', t) /\ Dispatched(c) /\ k.eff[c] = k.eff[t]
         => c \notin overtook[t]]_fvars

=============================================================================
