------------------------------- MODULE Xtensa -------------------------------
(***************************************************************************)
(* The Xtensa port: the level-3 handler runs on the interrupted task's own *)
(* stack, next to the frame the vector saved there, and switches tasks by  *)
(* replacing that frame.  Tcb.sp is a task id once the task has been       *)
(* interrupted, and before that the index of a bootstrap record.           *)
(***************************************************************************)
EXTENDS Machine, SequencesExt

CONSTANTS BOOTSTRAP_CAPACITY,  \* bootstrap records: MAX_PTASKS and some headroom
          REFUSALS             \* spawns the full registry may refuse

VARIABLES
  boots,       \* the task each bootstrap record describes
  next,        \* records never handed out start here
  free,        \* records handed back, the last one first in line
  save_frame,  \* the frame on the stack each hart's handler runs on
  tid,         \* the task whose stack that is
  intenable,   \* INTENABLE of each hart
  routed,      \* the harts whose interrupt matrix maps the peripheral to line 27
  refused      \* spawns refused so far

xtensa == <<boots, next, free, save_frame, tid, intenable, routed, refused>>

BootIndices == 0..(BOOTSTRAP_CAPACITY - 1)

ASSUME XtensaAssumption ==
  BOOTSTRAP_CAPACITY \in Nat /\ BOOTSTRAP_CAPACITY >= MAX_PTASKS /\ REFUSALS \in Nat

BootIndex(t) == Cardinality({u \in BootTasks : u < t})

\* The boot tasks have the first records, in the order they were spawned.
XtTasks ==
  /\ sp = [t \in Tasks |-> IF t \in BootTasks THEN <<"bootstrap", BootIndex(t)>> ELSE <<"none">>]
  /\ frame = [t \in Tasks |-> Lost]

\* __rivet_arch_init and tick_start have run.
XtInit ==
  /\ boots = [i \in BootIndices |->
                IF \E t \in BootTasks : BootIndex(t) = i
                THEN CHOOSE t \in BootTasks : BootIndex(t) = i ELSE NONE]
  /\ next = Cardinality(BootTasks)
  /\ free = <<>>
  /\ save_frame = [h \in Harts |-> Lost]
  /\ tid = [h \in Harts |-> NONE]
  /\ intenable = [h \in Harts |-> {"soft", "ipi"} \cup IF h = 0 THEN {"timer"} ELSE {}]
  /\ routed = {}
  /\ refused = 0

\* A context that never ran: its first instruction is the trampoline's, which
\* calls the entry function and, when that returns, rivet_task_exit_core.
trampoline(t) == Fresh(t)

\* fresh_task_context: the record's task in the trampoline, on an empty stack.
fresh_task_context(i) == trampoline(boots[i])

-----------------------------------------------------------------------------
\* alloc_bootstrap_index: one handed back, or a new one.
alloc_bootstrap_index(i) ==
  IF free # <<>>
  THEN i = Last(free) /\ free' = Front(free) /\ UNCHANGED next
  ELSE i = next /\ next' = next + 1 /\ UNCHANGED free

\* free_bootstrap_index: first in line again.
free_bootstrap_index(i) == free' = Append(free, i)

\* spawn in the critical section of the running task: init_task_stack takes a
\* record before the registry is asked for a slot.
XtSpawn(h) ==
  /\ Running(h) /\ h \in masked
  /\ free = <<>> => next < BOOTSTRAP_CAPACITY
  /\ \E i \in BootIndices :
       /\ alloc_bootstrap_index(i)
       /\ \/ \E t \in Tasks \ spawned :
               /\ spawned' = spawned \cup {t}
               /\ sp' = [sp EXCEPT ![t] = <<"bootstrap", i>>]
               /\ boots' = [boots EXCEPT ![i] = t]
               /\ UNCHANGED refused
          \/ /\ spawned = Tasks /\ refused < REFUSALS
             /\ refused' = refused + 1
             /\ boots' = [boots EXCEPT ![i] = NONE]
             /\ UNCHANGED <<spawned, sp>>
  /\ UNCHANGED <<board, done, current, resume, at, regs, phase, masked, pend, frame>>
  /\ UNCHANGED <<save_frame, tid, intenable, routed>>

\* start_first_task: into the trampoline on a fresh stack, from a bootstrap
\* record only, with INTENABLE set to this port's own lines.  The record is not
\* handed back.
XtStart(h) ==
  /\ \E c \in Tasks :
       /\ StartsWith(h, c)
       /\ IF sp[c][1] = "bootstrap"
          THEN /\ regs' = [regs EXCEPT ![h] = fresh_task_context(sp[c][2])]
               /\ phase' = [phase EXCEPT ![h] = "task"]
               /\ intenable' = [intenable EXCEPT ![h] = {"timer", "soft", "ipi"}]
          ELSE /\ phase' = [phase EXCEPT ![h] = "panic"]
               /\ UNCHANGED <<regs, intenable>>
  /\ UNCHANGED <<board, spawned, done, sp, resume, at, masked, pend, frame>>
  /\ UNCHANGED <<boots, next, free, save_frame, tid, routed, refused>>

\* A handler still on the stack of a task that another hart runs loses its frame.
OnTaskStack(h) == phase[h] \in {"decide", "switch", "leave"}

XtExecute(h) ==
  /\ Execute(h)
  /\ save_frame' = [g \in Harts |-> IF g # h /\ OnTaskStack(g) /\ tid[g] = regs[h].task
                                    THEN Lost ELSE save_frame[g]]
  /\ UNCHANGED <<kernel, phase, masked, pend, frame>>
  /\ UNCHANGED <<boots, next, free, tid, intenable, routed, refused>>

\* request_reschedule_on by the code hart h runs: Software1 for itself, the
\* cross-core interrupt for the other.
request_reschedule_on(h, g) ==
  /\ Running(h) /\ phase[g] # "off"
  /\ pend' = [pend EXCEPT ![g] = @ \cup {IF g = h THEN "soft" ELSE "ipi"}]
  /\ UNCHANGED <<kernel, at, regs, phase, masked, frame, xtensa>>

\* irq_enable and irq_disable of the one peripheral source this hart may route
\* to line 27, and the peripheral.
irq_enable(h) ==
  /\ Running(h)
  /\ routed' = routed \cup {h}
  /\ intenable' = [intenable EXCEPT ![h] = @ \cup {"ext"}]
  /\ UNCHANGED <<machine, boots, next, free, save_frame, tid, refused>>

irq_disable(h) ==
  /\ Running(h) /\ h \in routed
  /\ routed' = routed \ {h}
  /\ intenable' = [intenable EXCEPT ![h] = @ \ {"ext"}]
  /\ pend' = [pend EXCEPT ![h] = @ \ {"ext"}]
  /\ UNCHANGED <<kernel, at, regs, phase, masked, frame>>
  /\ UNCHANGED <<boots, next, free, save_frame, tid, refused>>

Peripheral(h) ==
  /\ h \in routed
  /\ pend' = [pend EXCEPT ![h] = @ \cup {"ext"}]
  /\ UNCHANGED <<kernel, at, regs, phase, masked, frame, xtensa>>

-----------------------------------------------------------------------------
\* __level_3_interrupt.  Ticks start before the kernel does.
Interrupted(h) ==
  /\ phase[h] \in {"boot", "task"} /\ h \notin masked
  /\ pend[h] \cap intenable[h] # {}

\* Every pending source is acknowledged.  A peripheral's handler runs, may wake
\* a task, and ends the interrupt; so does a tick before the first task.
XtNoDecision(h) ==
  /\ Interrupted(h)
  /\ \/ /\ "ext" \in pend[h]
        /\ \E woken \in SUBSET {"soft"} : pend' = [pend EXCEPT ![h] = woken]
     \/ /\ "ext" \notin pend[h] /\ current[h] = NONE
        /\ pend' = [pend EXCEPT ![h] = {}]
  /\ UNCHANGED <<kernel, at, regs, phase, masked, frame, xtensa>>

\* The frame of the vector is copied to CONTEXTS.
XtSave(h) ==
  /\ Interrupted(h)
  /\ "ext" \notin pend[h] /\ current[h] # NONE
  /\ pend' = [pend EXCEPT ![h] = {}]
  /\ save_frame' = [save_frame EXCEPT ![h] = regs[h]]
  /\ frame' = [frame EXCEPT ![current[h]] = regs[h]]
  /\ tid' = [tid EXCEPT ![h] = current[h]]
  /\ phase' = [phase EXCEPT ![h] = "decide"]
  /\ UNCHANGED <<kernel, at, regs, masked, boots, next, free, intenable, routed, refused>>

XtDecide(h) ==
  /\ phase[h] = "decide"
  /\ OnTick(h, <<"context", tid[h]>>)
  /\ phase' = [phase EXCEPT ![h] = "switch"]
  /\ UNCHANGED <<board, spawned, at, regs, masked, pend, frame, xtensa>>

\* No switch, a task with a context, or one that never ran: its record is
\* consumed.
XtSwitch(h) ==
  /\ phase[h] = "switch"
  /\ IF resume[h][1] = "context"
     THEN /\ save_frame' = IF resume[h][2] = tid[h] THEN save_frame
                           ELSE [save_frame EXCEPT ![h] = frame[resume[h][2]]]
          /\ UNCHANGED free
     ELSE /\ save_frame' = [save_frame EXCEPT ![h] = fresh_task_context(resume[h][2])]
          /\ free_bootstrap_index(resume[h][2])
  /\ resume' = [resume EXCEPT ![h] = <<"none">>]
  /\ phase' = [phase EXCEPT ![h] = "leave"]
  /\ UNCHANGED <<board, spawned, done, current, sp, at, regs, masked, pend, frame>>
  /\ UNCHANGED <<boots, next, tid, intenable, routed, refused>>

\* The vector restores what the handler left in the frame.
XtLeave(h) ==
  /\ phase[h] = "leave"
  /\ regs' = [regs EXCEPT ![h] = save_frame[h]]
  /\ phase' = [phase EXCEPT ![h] = "task"]
  /\ UNCHANGED <<kernel, at, masked, pend, frame, xtensa>>

XtNext ==
  \E h \in Harts :
    \/ TaskCode(h) /\ UNCHANGED xtensa
    \/ \E i \in {"timer", "soft"} : Raise(h, i) /\ UNCHANGED xtensa
    \/ XtStart(h) \/ XtExecute(h) \/ XtSpawn(h)
    \/ \E g \in Harts : request_reschedule_on(h, g)
    \/ irq_enable(h) \/ irq_disable(h) \/ Peripheral(h)
    \/ XtNoDecision(h) \/ XtSave(h) \/ XtDecide(h) \/ XtSwitch(h) \/ XtLeave(h)

-----------------------------------------------------------------------------

\* start_first_task is only given the stack pointer of a task that never ran.
StartsFromBootstrap == \A h \in Harts : phase[h] # "panic"
=============================================================================
