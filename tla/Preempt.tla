------------------------------ MODULE Preempt ------------------------------
(***************************************************************************)
(* The preemptive tier of the kernel: harts that start, tick, take         *)
(* reschedule interrupts and switch between tasks, and the calls with      *)
(* which a running task blocks, wakes, pauses, resumes, spawns or parks    *)
(* (preempt/mod.rs, with the per-task deadlines of timer.rs).              *)
(*                                                                         *)
(* One action is one region the code runs under critical::enter (module    *)
(* Critical shows that these exclude each other across harts) or one       *)
(* access outside it.  A hart executes its current task's next step only   *)
(* when it is not in an interrupt handler.  The interrupt a task pends on  *)
(* its own hart (request_reschedule) is taken at once; one that another    *)
(* hart pends may be taken any number of steps later.                      *)
(***************************************************************************)
EXTENDS Sched

CONSTANTS Sleepers,        \* tasks whose program calls sleep_until
          Parkers,         \* tasks whose program calls park_forever
          Pausable,        \* tasks that some program pauses and resumes
          Faulters,        \* tasks that may overrun their stack or CPU budget
          TickHarts,       \* harts with a periodic tick
          BootTasks,       \* priorities of the tasks registered before run()
          SpawnPrios,      \* priorities a running task spawns at
          DISPATCH_BOUND   \* bound on the dispatch counter

\* Slot 0 is the async executor's task: rivet::init registers it first, at
\* priority 0, and keeps no handle to it.
IDLE == 0

ASSUME PreemptAssumption ==
  /\ Sleepers \subseteq Tasks \ {IDLE}
  /\ Parkers \subseteq Tasks \ {IDLE}
  /\ Pausable \subseteq Tasks \ {IDLE}
  /\ Faulters \subseteq Tasks \ {IDLE}
  /\ TickHarts \subseteq Harts
  /\ BootTasks \in [1..(MAX_PTASKS - 1) -> Prios \cup {-1}]
  /\ SpawnPrios \subseteq Prios
  /\ DISPATCH_BOUND \in Nat

VARIABLES k,        \* the scheduler record of module Sched
          pc,       \* where each task's own code is
          armed,    \* PTASK_DEADLINES: tasks with a deadline registered
          isr,      \* what the hart's interrupt handler still has to do
          ready,    \* KERNEL_READY
          halted,   \* the system panicked or exited
          faulted   \* tasks the fault policy has isolated

vars == <<k, pc, armed, isr, ready, halted, faulted>>

PcLabels == {"run", "resched", "cancel", "park_queue", "parked"}

TypeOK ==
  /\ k \in KType
  /\ pc \in [Tasks -> PcLabels]
  /\ armed \subseteq Tasks
  /\ isr \in [Harts -> {"none", "on_tick"}]
  /\ ready \in BOOLEAN
  /\ halted \in BOOLEAN
  /\ faulted \subseteq Tasks

-----------------------------------------------------------------------------
\* Slot t is taken at boot; BootTasks gives -1 for a slot left free.
BootUsed(t) == t = IDLE \/ BootTasks[t] >= 0

BootPrio(t) == IF t = IDLE \/ ~BootUsed(t) THEN 0 ELSE BootTasks[t]

\* The state when the application calls run(): init() has registered the
\* executor's task and the boot-time spawns have registered theirs.
Init ==
  /\ k = [EmptySched EXCEPT
            !.used   = {t \in Tasks : BootUsed(t)},
            !.base   = [t \in Tasks |-> BootPrio(t)],
            !.eff    = [t \in Tasks |-> BootPrio(t)],
            !.queues = [p \in Prios |-> {t \in Tasks : BootUsed(t) /\ BootPrio(t) = p}],
            !.bitmap = {BootPrio(t) : t \in {u \in Tasks : BootUsed(u)}}]
  /\ pc = [t \in Tasks |-> "run"]
  /\ armed = {}
  /\ isr = [h \in Harts |-> "none"]
  /\ ready = FALSE
  /\ halted = FALSE
  /\ faulted = {}

\* run(): KERNEL_READY is set before start() picks hart 0's first task.
Run ==
  /\ ~ready /\ ~halted
  /\ ready' = TRUE
  /\ UNCHANGED <<k, pc, armed, isr, halted, faulted>>

\* start() on hart 0, which panics when nothing is ready, and
\* start_secondary_hart() on the others, which idle and look again.
Start(h) ==
  /\ ready /\ ~halted
  /\ k.current[h] = NO_TASK
  /\ \/ /\ schedule(k) # NO_TASK
        /\ k' = first_dispatch(k, h)
        /\ k'.counter <= DISPATCH_BOUND
        /\ UNCHANGED halted
     \/ /\ schedule(k) = NO_TASK
        /\ h = 0
        /\ halted' = TRUE
        /\ UNCHANGED k
  /\ UNCHANGED <<pc, armed, isr, ready, faulted>>

-----------------------------------------------------------------------------
\* The hart takes interrupts once its first task runs.
Interruptible(h) == ~halted /\ k.current[h] # NO_TASK /\ isr[h] = "none"

\* The timer interrupt: poll_ptask_deadlines wakes the tasks E whose deadline
\* has passed, and tells the other harts if there were any.
Tick(h) ==
  /\ h \in TickHarts
  /\ Interruptible(h)
  /\ \E E \in SUBSET armed :
       /\ armed' = armed \ E
       /\ k' = IF E = {} THEN k ELSE wake_other_harts(unblock_all(k, h, E), h)
  /\ isr' = [isr EXCEPT ![h] = "on_tick"]
  /\ UNCHANGED <<pc, ready, halted, faulted>>

\* The software interrupt: acknowledge, then decide.
SoftIrq(h) ==
  /\ Interruptible(h)
  /\ h \in k.msip
  /\ k' = [k EXCEPT !.msip = @ \ {h}]
  /\ isr' = [isr EXCEPT ![h] = "on_tick"]
  /\ UNCHANGED <<pc, armed, ready, halted, faulted>>

\* on_tick: the scheduling decision that ends both handlers.
OnTick(h) ==
  /\ ~halted
  /\ isr[h] = "on_tick"
  /\ k' = on_tick_locked(k, h)
  /\ k'.counter <= DISPATCH_BOUND
  /\ isr' = [isr EXCEPT ![h] = "none"]
  /\ UNCHANGED <<pc, armed, ready, halted, faulted>>

\* The same, when the outgoing task's watermark is gone: under the Isolate
\* policy the task is blocked and the next ready one runs.  The check sits
\* behind schedule(): with no candidate the handler returns before it.
OnTickFault(h) ==
  /\ ~halted
  /\ isr[h] = "on_tick"
  /\ k.current[h] \in Faulters
  /\ schedule(k) # NO_TASK
  /\ LET t == k.current[h]
         k1 == set_state(heal(k), h, t, "BLOCKED")
     IN  IF schedule(k1) = NO_TASK
         THEN halted' = TRUE /\ k' = k1 /\ UNCHANGED faulted
         ELSE /\ k' = isolate(heal(k), h)
              /\ faulted' = faulted \cup {t}
              /\ UNCHANGED halted
  /\ isr' = [isr EXCEPT ![h] = "none"]
  /\ UNCHANGED <<pc, armed, ready>>

-----------------------------------------------------------------------------
\* Hart h executes task t's code, which is at label l.
At(h, t, l) ==
  /\ ~halted
  /\ k.current[h] = t
  /\ isr[h] = "none"
  /\ pc[t] = l

\* request_reschedule() in task context: the software interrupt is pended on
\* this hart, taken and acknowledged before the next instruction of the task.
RequestReschedule(h) ==
  /\ k' = [k EXCEPT !.msip = @ \ {h}]
  /\ isr' = [isr EXCEPT ![h] = "on_tick"]

\* sleep_until: block and register the deadline as one step ...
SleepBegin(h, t) ==
  /\ t \in Sleepers
  /\ At(h, t, "run")
  /\ k' = block_current(k, h)
  /\ armed' = armed \cup {t}
  /\ pc' = [pc EXCEPT ![t] = "resched"]
  /\ UNCHANGED <<isr, ready, halted, faulted>>

\* ... ask for the switch ...
SleepResched(h, t) ==
  /\ At(h, t, "resched")
  /\ RequestReschedule(h)
  /\ pc' = [pc EXCEPT ![t] = "cancel"]
  /\ UNCHANGED <<armed, ready, halted, faulted>>

\* ... and drop the deadline once execution comes back.
SleepEnd(h, t) ==
  /\ At(h, t, "cancel")
  /\ armed' = armed \ {t}
  /\ pc' = [pc EXCEPT ![t] = "run"]
  /\ UNCHANGED <<k, isr, ready, halted, faulted>>

\* yield_now
YieldNow(h, t) ==
  /\ At(h, t, "run")
  /\ RequestReschedule(h)
  /\ UNCHANGED <<pc, armed, ready, halted, faulted>>

\* park_forever calls block_current outside a critical section: the state store
\* and the queue word are separate accesses.  The bitmap bit is a third one, but
\* it goes only if the queue held this task alone, and a running task is in no
\* queue.
ParkState(h, t) ==
  /\ t \in Parkers
  /\ At(h, t, "run")
  /\ k' = [k EXCEPT !.state[t] = "BLOCKED"]
  /\ pc' = [pc EXCEPT ![t] = "park_queue"]
  /\ UNCHANGED <<armed, isr, ready, halted, faulted>>

ParkQueue(h, t) ==
  /\ At(h, t, "park_queue")
  /\ k' = ready_remove(k, t)
  /\ pc' = [pc EXCEPT ![t] = "parked"]
  /\ UNCHANGED <<armed, isr, ready, halted, faulted>>

\* The loop park_forever ends in: ask for a switch, again and again.
ParkLoop(h, t) ==
  /\ At(h, t, "parked")
  /\ RequestReschedule(h)
  /\ UNCHANGED <<pc, armed, ready, halted, faulted>>

\* TaskHandle::pause: only a READY task moves to SUSPENDED.
Pause(h, t, u) ==
  /\ u \in Pausable
  /\ At(h, t, "run")
  /\ u \in k.used /\ k.state[u] = "READY"
  /\ k' = ready_remove([k EXCEPT !.state[u] = "SUSPENDED"], u)
  /\ UNCHANGED <<pc, armed, isr, ready, halted, faulted>>

\* TaskHandle::resume
Resume(h, t, u) ==
  /\ u \in Pausable
  /\ At(h, t, "run")
  /\ u \in k.used /\ k.state[u] = "SUSPENDED"
  /\ k' = ready_add([k EXCEPT !.state[u] = "READY"], h, u)
  /\ UNCHANGED <<pc, armed, isr, ready, halted, faulted>>

\* spawn: registration in the first free slot.
Spawn(h, t, p) ==
  /\ p \in SpawnPrios
  /\ At(h, t, "run")
  /\ FreeSlots(k) # {}
  /\ k' = register_full(k, h, p)
  /\ UNCHANGED <<pc, armed, isr, ready, halted, faulted>>

TaskStep(h, t) ==
  \/ SleepBegin(h, t) \/ SleepResched(h, t) \/ SleepEnd(h, t)
  \/ YieldNow(h, t)
  \/ ParkState(h, t) \/ ParkQueue(h, t) \/ ParkLoop(h, t)
  \/ \E u \in Pausable : Pause(h, t, u) \/ Resume(h, t, u)
  \/ \E p \in SpawnPrios : Spawn(h, t, p)

HartStep(h) ==
  \/ Start(h) \/ Tick(h) \/ SoftIrq(h) \/ OnTick(h) \/ OnTickFault(h)
  \/ \E t \in Tasks : TaskStep(h, t)

Next == Run \/ \E h \in Harts : HartStep(h)

Spec == Init /\ [][Next]_vars

-----------------------------------------------------------------------------
\* The ready queues hold exactly the registered READY tasks, each at its
\* effective priority, and the bitmap has the bits of the queues that are not
\* empty, whatever the harts do between each other's critical sections.
QueueConsistent == QueueInv(k)

\* A task marked RUNNING is the current task of some hart: no switch forgets
\* to give back the task it leaves.
RunningIsCurrent ==
  \A t \in Tasks : k.state[t] = "RUNNING" => \E h \in Harts : k.current[h] = t

\* No task is the current task of two harts (on_tick_impl's promise that two
\* harts never both claim one ready task).
SingleOwner ==
  \A g, h \in Harts : g # h /\ k.current[g] # NO_TASK => k.current[g] # k.current[h]

\* A task that never sleeps is never dispatched by a second hart, whatever
\* the others do.
SingleOwnerAwake ==
  \A g, h \in Harts : g # h /\ k.current[g] \in Tasks \ Sleepers
                        => k.current[g] # k.current[h]

\* Both ways: a RUNNING task has a hart, and a task that does not sleep has no
\* more than one, so that two harts never run it on one stack.
HartsMatchTasks == RunningIsCurrent /\ SingleOwnerAwake

\* When sleep_until returns, the deadline was the reason: it does not cut a
\* sleep short.
SleepLastsToDeadline ==
  [][\A t \in Tasks : pc[t] = "cancel" /\ pc'[t] = "run" => t \notin armed]_vars

\* Every dispatch picks a registered READY task, and no registered READY task
\* has a higher effective priority.
DispatchHighest ==
  \A h \in Harts :
    k'.current[h] # k.current[h] =>
      LET c == k'.current[h]
      IN  /\ c \in k.used /\ k.state[c] = "READY"
          /\ \A u \in Tasks \ faulted' :
               u \in k.used /\ k.state[u] = "READY" => k.eff[u] <= k.eff[c]

\* schedule() never passes over a ready task for one of lower priority, on any
\* path that switches a hart: first dispatch, tick, reschedule, isolation.
DispatchesHighest == [][DispatchHighest]_vars

-----------------------------------------------------------------------------
(***************************************************************************)
(* Fairness of the hardware: a hart that can start or has entered a        *)
(* handler goes on, its timer keeps interrupting it and a pending software *)
(* interrupt is taken.  Strong fairness, because each of the two           *)
(* interrupts waits, pending, while the other's handler runs.              *)
(***************************************************************************)
IrqFairness ==
  /\ WF_vars(Run)
  /\ \A h \in Harts : WF_vars(Start(h)) /\ WF_vars(OnTick(h)) /\ SF_vars(SoftIrq(h))
  /\ \A h \in TickHarts : SF_vars(Tick(h))

IrqSpec == Spec /\ IrqFairness

\* Task t is ready while hart h runs a task of lower priority.
Inverted(h, t) ==
  /\ k.current[h] # NO_TASK
  /\ t \in k.used /\ k.state[t] = "READY"
  /\ k.eff[t] > k.eff[k.current[h]]

\* No hart goes on for ever with a task of lower priority than a ready one: a
\* hart without a tick of its own learns of every task that another hart's tick
\* wakes (wake_other_harts's broadcast).
InversionEnds ==
  \A h \in Harts :
    (\E t \in Sleepers : Inverted(h, t)) ~>
      (\A t \in Sleepers : ~Inverted(h, t)) \/ k.counter = DISPATCH_BOUND

=============================================================================
