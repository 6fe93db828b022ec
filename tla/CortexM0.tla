------------------------------ MODULE CortexM0 ------------------------------
(***************************************************************************)
(* The ARMv6-M port: one hart, a context switch is a PendSV that moves the *)
(* process stack pointer, and there is no MPU, so that spawn writes the    *)
(* new task's frame where it stands.                                       *)
(***************************************************************************)
EXTENDS Machine

\* init_task_stack_impl: r0 = arg, lr = rivet_task_exit, pc = entry.
m0_init_task_stack_impl(f, t) == [f EXCEPT ![t] = Fresh(t)]

\* __rivet_arch_init: one priority for all, handlers do not nest.
M0Taken(h, source) == phase[h] = "task" /\ h \notin masked /\ source \in pend[h]

\* The boot tasks' frames.
M0Tasks ==
  /\ sp = [t \in Tasks |-> <<"frame", t>>]
  /\ frame = [t \in Tasks |-> IF t \in BootTasks THEN Fresh(t) ELSE Lost]

\* start_first_task: the entry and its argument out of the frame, with the link
\* register as it is; then interrupts are enabled.
M0Start(h) ==
  /\ \E c \in Tasks :
       /\ StartsWith(h, c)
       /\ regs' = [regs EXCEPT ![h] = [frame[c] EXCEPT !.ret = "none"]]
  /\ phase' = [phase EXCEPT ![h] = "task"]
  /\ UNCHANGED <<board, spawned, done, sp, resume, at, masked, pend, frame>>

M0Execute(h) ==
  /\ Execute(h)
  /\ UNCHANGED <<kernel, phase, masked, pend, frame>>

\* spawn in its critical section: init_task_stack, and the task is registered.
M0Spawn(h, c) ==
  /\ Running(h) /\ h \in masked /\ c \notin spawned
  /\ spawned' = spawned \cup {c}
  /\ frame' = m0_init_task_stack_impl(frame, c)
  /\ sp' = [sp EXCEPT ![c] = <<"frame", c>>]
  /\ UNCHANGED <<board, done, current, resume, at, regs, phase, masked, pend>>

\* SysTick: the tick counts, expired timers wake their tasks, PendSV is set
\* pending.
M0SysTick(h) ==
  /\ M0Taken(h, "timer")
  /\ pend' = [pend EXCEPT ![h] = (@ \ {"timer"}) \cup {"soft"}]
  /\ UNCHANGED <<kernel, at, regs, phase, masked, frame>>

\* PendSV up to its call: the hardware has stacked one half of the registers,
\* r4 to r11 follow, the high ones through the low.
M0PendSV(h) ==
  /\ M0Taken(h, "soft")
  /\ pend' = [pend EXCEPT ![h] = @ \ {"soft"}]
  /\ frame' = [frame EXCEPT ![regs[h].task] = regs[h]]
  /\ phase' = [phase EXCEPT ![h] = "pendsv"]
  /\ UNCHANGED <<kernel, at, regs, masked>>

\* rivet_pendsv_rust: the decision, with nothing to reprogram for the next task.
m0_rivet_pendsv_rust(h) ==
  /\ phase[h] = "pendsv"
  /\ OnTick(h, <<"frame", current[h]>>)
  /\ phase' = [phase EXCEPT ![h] = "unstack"]
  /\ UNCHANGED <<board, spawned, at, regs, masked, pend, frame>>

\* PendSV from its call on: both halves of the frame it answered with.
M0Unstack(h) ==
  /\ phase[h] = "unstack"
  /\ regs' = [regs EXCEPT ![h] = frame[resume[h][2]]]
  /\ resume' = [resume EXCEPT ![h] = <<"none">>]
  /\ phase' = [phase EXCEPT ![h] = "task"]
  /\ UNCHANGED <<board, spawned, done, current, sp, at, masked, pend, frame>>

M0Next ==
  \E h \in Harts :
    \/ TaskCode(h)
    \/ \E i \in {"timer", "soft"} : Raise(h, i)
    \/ M0Start(h) \/ M0Execute(h)
    \/ \E c \in Tasks : M0Spawn(h, c)
    \/ M0SysTick(h) \/ M0PendSV(h) \/ m0_rivet_pendsv_rust(h) \/ M0Unstack(h)
=============================================================================
