------------------------------ MODULE MCPorts ------------------------------
(***************************************************************************)
(* Every port under the same tasks and the same kernel: the build is       *)
(* chosen in the first state.                                              *)
(***************************************************************************)
EXTENDS Riscv, CortexM, CortexM0, Xtensa

\* The ports as their boards are built, and the RV32 port for two harts.
Builds == {[arch |-> "riscv", harts |-> 2], [arch |-> "cortex_m", harts |-> 1],
           [arch |-> "cortex_m0", harts |-> 1], [arch |-> "xtensa", harts |-> 1]}

\* The ESP32-S3 with both cores.
TwoCores == {[arch |-> "xtensa", harts |-> 2]}

Init ==
  /\ MachineInit /\ RvInit /\ CmInit /\ XtInit
  /\ board.arch # "riscv" => \A h \in Harts : mie[h] # {}
  /\ \/ board.arch = "riscv" /\ RvTasks
     \/ board.arch = "cortex_m" /\ CmTasks
     \/ board.arch = "cortex_m0" /\ M0Tasks
     \/ board.arch = "xtensa" /\ XtTasks

Next ==
  \/ board.arch = "riscv" /\ RvNext /\ UNCHANGED <<cortex_m, xtensa>>
  \/ board.arch = "cortex_m" /\ CmNext /\ UNCHANGED <<riscv, xtensa>>
  \/ board.arch = "cortex_m0" /\ M0Next /\ UNCHANGED <<riscv, cortex_m, xtensa>>
  \/ board.arch = "xtensa" /\ XtNext /\ UNCHANGED <<riscv, cortex_m>>

\* What a later step can still tell apart: not the frame of a task that will not
\* run again or has none yet, how far a task got that is done, a handler's frame
\* out of use, interrupts mie never lets through, nor which of the interchangeable
\* indices a bootstrap record has.  How far a task got counts only against the
\* register files that hold it, those a handler failed to save included.
Framed(t) ==
  \/ t \in spawned \ done
  \/ \E h \in Harts : current[h] = t
  \/ \E u \in Tasks : window[u][2] = t
SpView(s) == IF s[1] = "bootstrap" THEN <<boots[s[2]], Contains(free, s[2])>> ELSE s
Behind(r) == IF r.task \in Tasks THEN [r EXCEPT !.at = (at[r.task] - @) % LAPS] ELSE r
View ==
  << board, spawned, done, current, [h \in Harts |-> Behind(regs[h])],
     phase, masked, refused,
     [h \in Harts |-> IF board.arch = "riscv" THEN pend[h] \cap mie[h] ELSE pend[h]],
     [t \in Tasks |-> IF t \in spawned \ done THEN SpView(sp[t]) ELSE <<"none">>],
     [h \in Harts |-> SpView(resume[h])],
     [t \in Tasks |-> IF Framed(t) THEN Behind(frame[t]) ELSE Lost],
     riscv, cortex_m, next, Len(free), intenable, routed,
     [h \in Harts |-> IF OnTaskStack(h) THEN <<Behind(save_frame[h]), tid[h]>> ELSE <<Lost, NONE>>] >>

\* Handlers of two harts have stacks of their own, and so have two tasks.
StacksAreSeparate == IsrStacksDisjoint /\ StacksSeparated

Spec == Init /\ [][Next]_<<machine, riscv, cortex_m, xtensa>>
=============================================================================
