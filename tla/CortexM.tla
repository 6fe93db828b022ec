------------------------------ MODULE CortexM ------------------------------
(***************************************************************************)
(* The ARMv7-M port: one hart, a context switch is a PendSV that moves the *)
(* process stack pointer, and the MPU denies the stack pool (region 6) but *)
(* for the running task's stack (region 7).                                *)
(***************************************************************************)
EXTENDS Machine

VARIABLES
  deny,      \* region 6 is enabled
  region7,   \* the task whose stack region 7 opens
  window     \* a spawn in progress: how far it got, and the slot it is for

cortex_m == <<deny, region7, window>>

NoSpawn == <<"none", NONE>>

\* init_task_stack_impl: r0 = arg, lr = rivet_task_exit, pc = entry.
init_task_stack_impl(f, t) == [f EXCEPT ![t] = Fresh(t)]

CmTasks ==
  /\ sp = [t \in Tasks |-> <<"frame", t>>]
  /\ frame = [t \in Tasks |-> IF t \in BootTasks THEN Fresh(t) ELSE Lost]

\* mpu::init: region 6 denies the pool, region 7 opens nothing.
mpu_init == deny = TRUE /\ region7 = NONE

CmInit ==
  /\ mpu_init
  /\ window = [t \in Tasks |-> NoSpawn]

\* __rivet_arch_init gives every interrupt one priority, the lowest: a handler is
\* entered from a task and from no other handler.
Taken(h, source) == phase[h] = "task" /\ h \notin masked /\ source \in pend[h]

\* The task of the hart is not between the two ends of a spawn.
NotSpawning(h) == Running(h) /\ window[regs[h].task] = NoSpawn

-----------------------------------------------------------------------------
\* on_switch_to, set_current_stack: region 7 opens the stack of the next task.
set_current_stack(t) == t

\* start_first_task: it reads the entry and its argument out of the frame and
\* jumps there.  The link register is left as it is.
CmStart(h) ==
  /\ \E c \in Tasks :
       /\ StartsWith(h, c)
       /\ regs' = [regs EXCEPT ![h] = [Fresh(c) EXCEPT !.ret = "none"]]
       /\ region7' = set_current_stack(c)
  /\ phase' = [phase EXCEPT ![h] = "task"]
  /\ UNCHANGED <<board, spawned, done, sp, resume, at, masked, pend, frame, deny, window>>

CmExecute(h) ==
  /\ NotSpawning(h)
  /\ Execute(h)
  /\ UNCHANGED <<kernel, phase, masked, pend, frame, cortex_m>>

\* SysTick_Handler counts the tick and pends PendSV.
SysTick(h) ==
  /\ Taken(h, "timer")
  /\ pend' = [pend EXCEPT ![h] = (@ \ {"timer"}) \cup {"soft"}]
  /\ UNCHANGED <<kernel, at, regs, phase, masked, frame, cortex_m>>

\* Only what the hardware stacked is kept: r4 to r11 are those of whoever ran last.
PendSV_Bad(h) ==
  /\ Taken(h, "soft")
  /\ pend' = [pend EXCEPT ![h] = @ \ {"soft"}]
  /\ phase' = [phase EXCEPT ![h] = "pendsv"]
  /\ UNCHANGED <<kernel, at, regs, masked, frame, cortex_m>>

\* PendSV: the hardware stacks one half of the registers on the task's stack,
\* the handler the other.
PendSV(h) ==
  /\ Taken(h, "soft")
  /\ pend' = [pend EXCEPT ![h] = @ \ {"soft"}]
  /\ frame' = [frame EXCEPT ![regs[h].task] = regs[h]]
  /\ phase' = [phase EXCEPT ![h] = "pendsv"]
  /\ UNCHANGED <<kernel, at, regs, masked, cortex_m>>

\* rivet_pendsv_rust: the scheduling decision, and the next task's stack opened.
rivet_pendsv_rust(h) ==
  /\ phase[h] = "pendsv"
  /\ OnTick(h, <<"frame", current[h]>>)
  /\ region7' = IF current'[h] = current[h] THEN region7 ELSE set_current_stack(current'[h])
  /\ phase' = [phase EXCEPT ![h] = "unstack"]
  /\ UNCHANGED <<board, spawned, at, regs, masked, pend, frame, deny, window>>

\* The handler's return: both halves of the next task's registers.  A stack
\* pointer MemManage stored addresses the hardware's half only.
Unstack(h) ==
  /\ phase[h] = "unstack"
  /\ regs' = [regs EXCEPT ![h] =
       IF resume[h][1] = "frame" THEN frame[resume[h][2]] ELSE Lost]
  /\ resume' = [resume EXCEPT ![h] = <<"none">>]
  /\ phase' = [phase EXCEPT ![h] = "task"]
  /\ UNCHANGED <<board, spawned, done, current, sp, at, masked, pend, frame, cortex_m>>

\* MemManage: a task touched a stack region 6 denies.  The fault policy answers
\* with the next task's frame.
MemManage(h) ==
  /\ deny
  /\ NotSpawning(h) /\ h \notin masked
  /\ sp' = [sp EXCEPT ![current[h]] = <<"hardware frame", @[2]>>]
  /\ OnFault(h)
  /\ region7' = set_current_stack(current'[h])
  /\ phase' = [phase EXCEPT ![h] = "unstack"]
  /\ UNCHANGED <<board, spawned, at, regs, masked, pend, frame, deny, window>>

\* It outranks PendSV, whose store of r4 to r11 may be the one that touches the
\* pool, below the stack of the task.  MemManage returns into PendSV: the store is
\* tried again, at the same address and with another task's stack open, and fails
\* again.
StmiaFaults(h) ==
  /\ deny
  /\ \/ Taken(h, "soft") /\ pend' = [pend EXCEPT ![h] = @ \ {"soft"}]
     \/ phase[h] = "stmia" /\ UNCHANGED pend
  /\ sp' = [sp EXCEPT ![current[h]] = <<"hardware frame", @[2]>>]
  /\ OnFault(h)
  /\ region7' = set_current_stack(current'[h])
  /\ phase' = [phase EXCEPT ![h] = "stmia"]
  /\ UNCHANGED <<board, spawned, at, regs, masked, frame, deny, window>>

-----------------------------------------------------------------------------
\* A slot no other spawn has.
Unclaimed(c) == c \notin spawned /\ \A t \in Tasks : window[t][2] # c

Step(t, from, to) ==
  /\ window[t][1] = from
  /\ window' = [window EXCEPT ![t] = <<to, window[t][2]>>]

\* spawn enters its critical section and opens the pool: allow_scratch.
allow_scratch(h, c) ==
  /\ NotSpawning(h) /\ h \notin masked /\ Unclaimed(c)
  /\ masked' = masked \cup {h}
  /\ deny' = FALSE
  /\ window' = [window EXCEPT ![regs[h].task] = <<"open", c>>]
  /\ UNCHANGED <<kernel, at, regs, phase, pend, frame, region7>>

\* init_task_stack clears PRIMASK: an svc would escalate under it.
SvcUnmask(h) ==
  /\ Running(h) /\ Step(regs[h].task, "open", "unmasked")
  /\ masked' = masked \ {h}
  /\ UNCHANGED <<kernel, at, regs, phase, pend, frame, deny, region7>>

\* svc 0: rivet_svc_core builds the frame with the MPU off.  Nothing preempts it.
Svc(h) ==
  /\ Running(h) /\ Step(regs[h].task, "unmasked", "built")
  /\ frame' = init_task_stack_impl(frame, window[regs[h].task][2])
  /\ UNCHANGED <<kernel, at, regs, phase, masked, pend, deny, region7>>

\* PRIMASK is set again, the pool denied, and the critical section left.
clear_scratch(h) ==
  /\ Running(h) /\ Step(regs[h].task, "built", "framed")
  /\ deny' = TRUE
  /\ UNCHANGED <<machine, region7>>

\* The second critical section of spawn: the task is registered.
CmRegister(h) ==
  /\ Running(h) /\ window[regs[h].task][1] = "framed"
  /\ LET c == window[regs[h].task][2]
     IN  /\ spawned' = spawned \cup {c}
         /\ sp' = [sp EXCEPT ![c] = <<"frame", c>>]
  /\ window' = [window EXCEPT ![regs[h].task] = NoSpawn]
  /\ UNCHANGED <<board, done, current, resume, at, regs, phase, masked, pend, frame>>
  /\ UNCHANGED <<deny, region7>>

CmTaskCode(h) ==
  /\ NotSpawning(h)
  /\ irq_save(h) \/ irq_restore(h) \/ Return(h)
     \/ \E t \in Tasks : window[t] = NoSpawn /\ despawn(h, t)
  /\ UNCHANGED cortex_m

CmNext ==
  \E h \in Harts :
    \/ CmTaskCode(h)
    \/ \E i \in {"timer", "soft"} : Raise(h, i) /\ UNCHANGED cortex_m
    \/ CmStart(h) \/ CmExecute(h)
    \/ SysTick(h) \/ PendSV(h) \/ rivet_pendsv_rust(h) \/ Unstack(h)
    \/ MemManage(h) \/ StmiaFaults(h)
    \/ \E c \in Tasks : allow_scratch(h, c)
    \/ SvcUnmask(h) \/ Svc(h) \/ clear_scratch(h) \/ CmRegister(h)

-----------------------------------------------------------------------------
\* A task runs with its own stack open and, outside every spawn, with all the
\* others denied.
StacksSeparated ==
  \A h \in Harts : board.arch = "cortex_m" /\ phase[h] = "task" =>
    /\ region7 = current[h]
    /\ deny \/ \E t \in Tasks : window[t] # NoSpawn

=============================================================================
