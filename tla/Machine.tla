------------------------------ MODULE Machine ------------------------------
(***************************************************************************)
(* What the architecture ports share: the harts with their register files  *)
(* and pending interrupts, the tasks with the stack pointer the kernel     *)
(* keeps for them, and the kernel behind preempt::start, on_tick and       *)
(* fault::on_fault, which here may pick any task that is ready: the        *)
(* scheduler's own choices are the business of Preempt.                    *)
(***************************************************************************)
EXTENDS Integers, FiniteSets

CONSTANTS MAX_PTASKS,   \* task slots
          MAX_HARTS,    \* harts of the largest board
          Boards,       \* the builds: records of an architecture and its harts
          BootTasks,    \* tasks spawned before the kernel starts
          Returners,    \* tasks whose entry function may return
          LAPS          \* instructions of a task are counted modulo this bound

Tasks == 0..(MAX_PTASKS - 1)
Harts == 0..(MAX_HARTS - 1)
NONE == -1

ASSUME MachineAssumption ==
  /\ MAX_PTASKS \in Nat \ {0} /\ MAX_HARTS \in Nat \ {0} /\ LAPS \in Nat \ {0}
  /\ BootTasks \subseteq Tasks /\ Returners \subseteq Tasks
  /\ \A b \in Boards : b.harts \in 1..MAX_HARTS

VARIABLES
  board,     \* the build
  spawned,   \* the registered tasks
  done,      \* tasks that exited or were isolated
  current,   \* CURRENT of each hart
  sp,        \* Tcb.sp of each task, in the port's own encoding
  at,        \* the instructions each task has really executed
  regs,      \* the register file of each hart
  phase,     \* what each hart executes: "boot", "task" or a step of a handler
  masked,    \* the harts whose task holds interrupts off
  pend,      \* the pending interrupts of each hart
  resume,    \* the stack pointer the kernel answered each hart's handler with
  frame      \* the registers saved for each task, on its stack or in CONTEXTS

kernel == <<board, spawned, done, current, sp, resume>>
machine == <<kernel, at, regs, phase, masked, pend, frame>>

\* A register file: whose it is, how far it got, and where the entry function
\* returns to.
Fresh(t) == [task |-> t, at |-> 0, ret |-> "rivet_task_exit"]
BootRegs == [task |-> NONE, at |-> 0, ret |-> "none"]
Lost == [task |-> NONE, at |-> 0, ret |-> "lost"]

MachineInit ==
  /\ board \in Boards
  /\ spawned = BootTasks
  /\ done = {}
  /\ current = [h \in Harts |-> NONE]
  /\ at = [t \in Tasks |-> 0]
  /\ regs = [h \in Harts |-> BootRegs]
  /\ phase = [h \in Harts |-> IF h < board.harts THEN "boot" ELSE "off"]
  /\ masked = {}
  /\ pend = [h \in Harts |-> {}]
  /\ resume = [h \in Harts |-> <<"none">>]

\* The tasks schedule() may answer with.
Ready == {t \in spawned \ done : \A h \in Harts : current[h] # t}

\* start and start_secondary_hart: pick a task and make it current.
StartsWith(h, c) ==
  /\ phase[h] = "boot"
  /\ c \in Ready
  /\ current' = [current EXCEPT ![h] = c]

\* on_fault under the Isolate policy: the task never runs again, and the answer
\* is a ready task.  With none ready the policy resets the machine.
OnFault(h) ==
  /\ done' = done \cup {current[h]}
  /\ \E c \in Ready :
       /\ current' = [current EXCEPT ![h] = c]
       /\ resume' = [resume EXCEPT ![h] = sp[c]]

\* on_tick(isp): the interrupted task's stack pointer is stored, and the answer
\* is its own or that of a ready task, which becomes current.  A task that is
\* done is left whenever there is another; one that overflowed its stack or its
\* budget is isolated here.
OnTick(h, isp) ==
  /\ sp' = [sp EXCEPT ![current[h]] = isp]
  /\ \/ /\ current[h] \in done => Ready = {}
        /\ resume' = [resume EXCEPT ![h] = isp]
        /\ UNCHANGED <<current, done>>
     \/ \E c \in Ready :
          /\ current' = [current EXCEPT ![h] = c]
          /\ resume' = [resume EXCEPT ![h] = sp[c]]
          /\ UNCHANGED done
     \/ OnFault(h)

-----------------------------------------------------------------------------
\* The hart executes the code of its task.
Running(h) == phase[h] = "task" /\ regs[h].task # NONE /\ regs[h].task \notin done

\* One instruction of the task.
Execute(h) ==
  /\ Running(h)
  /\ LET t == regs[h].task
     IN  /\ regs' = [regs EXCEPT ![h].at = (@ + 1) % LAPS]
         /\ at' = [at EXCEPT ![t] = (@ + 1) % LAPS]

\* irq_save and irq_restore around a critical section of the task.
irq_save(h) ==
  /\ Running(h) /\ h \notin masked
  /\ masked' = masked \cup {h}
  /\ UNCHANGED <<kernel, at, regs, phase, pend, frame>>

irq_restore(h) ==
  /\ Running(h) /\ h \in masked
  /\ masked' = masked \ {h}
  /\ UNCHANGED <<kernel, at, regs, phase, pend, frame>>

\* An interrupt source of hart h fires: the tick belongs to hart 0, a reschedule
\* is requested by code of a hart that has started.
Raise(h, source) ==
  /\ phase[h] # "off"
  /\ source = "timer" => h = 0
  /\ source = "soft" => \E g \in Harts : current[g] # NONE
  /\ pend' = [pend EXCEPT ![h] = @ \cup {source}]
  /\ UNCHANGED <<kernel, at, regs, phase, masked, frame>>

\* The entry function returns, into rivet_task_exit_core if the registers say
\* so: the task is marked exited and asks for a switch, for ever.
Return(h) ==
  /\ Running(h) /\ h \notin masked
  /\ regs[h].task \in Returners
  /\ IF regs[h].ret = "rivet_task_exit"
     THEN /\ done' = done \cup {regs[h].task}
          /\ pend' = [pend EXCEPT ![h] = @ \cup {"soft"}]
          /\ UNCHANGED phase
     ELSE /\ phase' = [phase EXCEPT ![h] = "off"]
          /\ UNCHANGED <<done, pend>>
  /\ UNCHANGED <<board, spawned, current, sp, resume, at, regs, masked, frame>>

\* despawn of a task no hart runs: its slot is free for the next spawn.
despawn(h, t) ==
  /\ Running(h)
  /\ t \in spawned /\ \A g \in Harts : current[g] # t
  /\ spawned' = spawned \ {t}
  /\ done' = done \ {t}
  /\ at' = [at EXCEPT ![t] = 0]
  /\ UNCHANGED <<board, current, sp, resume, regs, phase, masked, pend, frame>>

\* What the task hart h runs does on every port.
TaskCode(h) ==
  irq_save(h) \/ irq_restore(h) \/ Return(h) \/ \E t \in Tasks : despawn(h, t)

-----------------------------------------------------------------------------
\* A task goes on exactly where it stopped, on the hart that has it as current:
\* no context is restored twice, restored while another hart still uses it, or
\* taken from another task.
ResumesWhereItStopped ==
  \A h \in Harts : phase[h] = "task" =>
    /\ regs[h].task = current[h]
    /\ regs[h].at = at[current[h]]

\* An entry function that returns reaches rivet_task_exit.
ReturnReachesExit == \A h \in Harts : phase[h] = "task" => regs[h].ret = "rivet_task_exit"
=============================================================================
