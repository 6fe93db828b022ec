----------------------------- MODULE Lifecycle -----------------------------
(***************************************************************************)
(* Tasks that come and go: spawn with its stack from the pool, exit, join, *)
(* request_stop and despawn (preempt/lifecycle.rs, preempt/stack_pool.rs   *)
(* and the TaskHandle methods of preempt/mod.rs), on top of the preemptive *)
(* tier.  The methods do most of their work outside critical::enter: each  *)
(* step below is one critical section or one group of accesses that no     *)
(* other task reads in between.                                            *)
(*                                                                         *)
(* A stack is the offset of its usable bytes in the pool and its size; the *)
(* GUARD bytes below it are its guard band.  A task's result is the        *)
(* generation of the task that wrote it.                                   *)
(***************************************************************************)
EXTENDS Preempt

CONSTANTS Managers,        \* tasks that hold handles: they join and stop others
          Spawners,        \* those of them that spawn and despawn others
          ChildPrios,      \* priorities they spawn at
          Sizes,           \* stack sizes that are asked for (powers of two)
          BOOT_SIZE,       \* the stack size of the boot-time tasks
          POOL_LEN,        \* length of the .task_stacks section
          GUARD,           \* min_guard_size()
          FREE_LIST_CAP,   \* entries of the free list
          GEN_BOUND        \* bound on a slot's generation

ASSUME LifecycleAssumption ==
  /\ Managers \subseteq Tasks \ {IDLE} /\ Spawners \subseteq Managers
  /\ ChildPrios \subseteq Prios
  /\ Sizes \subseteq Nat \ {0} /\ BOOT_SIZE \in Sizes
  /\ POOL_LEN \in Nat /\ GUARD \in Nat \ {0}
  /\ \A z \in Sizes : GUARD <= z
  /\ FREE_LIST_CAP \in Nat \ {0} /\ GEN_BOUND \in Nat \ {0}

VARIABLES tcb,       \* the TCB fields that module Sched leaves out
          pool,      \* NEXT, and FREE_LIST's count and entries
          loc        \* a manager's local variables

lvars == <<tcb, pool, loc>>

NoStack == [off |-> 0, size |-> 0]

\* A manager's locals between two calls.
NoLocals == [n |-> 0, size |-> BOOT_SIZE, stack |-> NoStack, h |-> [id |-> IDLE, gen |-> 0]]

\* A value the result buffer never gets from a task.
NoResult == 0

-----------------------------------------------------------------------------
\* Carving: the first size-aligned offset that leaves room for the guard.
StackBase(next, size) == ((next + GUARD + size - 1) \div size) * size

Fits(next, size) == StackBase(next, size) + size <= POOL_LEN

\* NEXT as the boot-time spawns, in slot order, move it: f[t] before task t's.
BootLayout(f) ==
  /\ f[1] = 0
  /\ \A t \in Tasks \ {IDLE} :
       f[t + 1] = IF BootUsed(t) THEN StackBase(f[t], BOOT_SIZE) + BOOT_SIZE ELSE f[t]

\* The tasks registered at boot are those whose stacks the pool had room for.
ASSUME BootAssumption == \E f \in [1..MAX_PTASKS -> 0..POOL_LEN] : BootLayout(f)

bootNext == CHOOSE f \in [1..MAX_PTASKS -> 0..POOL_LEN] : BootLayout(f)

\* The executor's task has a static stack of its own, outside the pool.
BootStack(t) ==
  IF t # IDLE /\ BootUsed(t)
  THEN [off |-> StackBase(bootNext[t], BOOT_SIZE), size |-> BOOT_SIZE]
  ELSE NoStack

LifeInit ==
  /\ Init
  /\ tcb = [gen    |-> [t \in Tasks |-> IF BootUsed(t) THEN 1 ELSE 0],
            exited |-> {},
            stop   |-> {},
            joiner |-> [t \in Tasks |-> NO_TASK],
            sized  |-> {t \in Tasks : BootUsed(t)},   \* result_size > 0
            result |-> [t \in Tasks |-> NoResult],
            stack  |-> [t \in Tasks |-> BootStack(t)]]
  /\ pool = [next    |-> bootNext[MAX_PTASKS],
             count   |-> 0,
             entries |-> [i \in 0..(FREE_LIST_CAP - 1) |-> NoStack]]
  /\ loc = [m \in Managers |-> NoLocals]

-----------------------------------------------------------------------------
Goto(t, l) == pc' = [pc EXCEPT ![t] = l]

\* A manager's call returns.
Return(m) == Goto(m, "run") /\ loc' = [loc EXCEPT ![m] = NoLocals]

\* Every handle that spawn has returned: handles are copied freely, and kept.
Handles == {hd \in [id : Tasks \ {IDLE}, gen : 1..GEN_BOUND] : hd.gen <= tcb.gen[hd.id]}

\* A step of a manager's own that leaves the preemptive tier alone.
Quiet == UNCHANGED <<k, armed, isr, ready, halted, faulted>>

\* alloc_stack asks the free list first: FreeList::pop loads the count ...
AllocStack(h, m, z) ==
  /\ m \in Spawners
  /\ At(h, m, "run")
  /\ \A t \in FreeSlots(k) : tcb.gen[t] < GEN_BOUND
  /\ loc' = [loc EXCEPT ![m].n = pool.count, ![m].size = z]
  /\ Goto(m, "pop")
  /\ Quiet /\ UNCHANGED <<tcb, pool>>

\* The new count is not stored.
Pop_Bad(h, m) ==
  /\ At(h, m, "pop")
  /\ IF loc[m].n = 0
     THEN Goto(m, "carve") /\ UNCHANGED loc
     ELSE LET e == pool.entries[loc[m].n - 1]
          IN  /\ loc' = [loc EXCEPT ![m].stack = e]
              /\ Goto(m, IF e.size = loc[m].size THEN "spawn" ELSE "put_back")
  /\ Quiet /\ UNCHANGED <<tcb, pool>>

\* ... then takes the last entry.  One of another size goes back.
Pop(h, m) ==
  /\ At(h, m, "pop")
  /\ IF loc[m].n = 0
     THEN Goto(m, "carve") /\ UNCHANGED <<pool, loc>>
     ELSE LET e == pool.entries[loc[m].n - 1]
          IN  /\ pool' = [pool EXCEPT !.count = loc[m].n - 1]
              /\ loc' = [loc EXCEPT ![m].stack = e]
              /\ Goto(m, IF e.size = loc[m].size THEN "spawn" ELSE "put_back")
  /\ Quiet /\ UNCHANGED <<tcb>>

\* FreeList::push, from alloc_stack and from release_stack: load the count ...
PushLoad(h, m, from, to) ==
  /\ At(h, m, from)
  /\ loc' = [loc EXCEPT ![m].n = pool.count]
  /\ Goto(m, to)
  /\ Quiet /\ UNCHANGED <<tcb, pool>>

\* ... and store the entry and the new count, if there is room.
PushStore(h, m, from, to) ==
  LET n == loc[m].n
  IN  /\ At(h, m, from)
      /\ pool' = IF n < FREE_LIST_CAP
                 THEN [pool EXCEPT !.entries[n] = loc[m].stack, !.count = n + 1]
                 ELSE pool
      /\ Goto(m, to)
      /\ Quiet /\ UNCHANGED <<tcb, loc>>

\* Nothing to reuse: carve a new stack, or fail with StackPoolFull.
Carve(h, m) ==
  LET z == loc[m].size
      b == StackBase(pool.next, z)
  IN  /\ At(h, m, "carve")
      /\ IF Fits(pool.next, z)
         THEN /\ pool' = [pool EXCEPT !.next = b + z]
              /\ loc' = [loc EXCEPT ![m].stack = [off |-> b, size |-> z]]
              /\ Goto(m, "spawn")
         ELSE Return(m) /\ UNCHANGED pool
      /\ Quiet /\ UNCHANGED <<tcb>>

\* The room for the result is not set up: the slot keeps the size despawn left.
Recycled_Bad(id) ==
  [tcb EXCEPT !.gen[id] = @ + 1,
              !.joiner[id] = NO_TASK,
              !.exited = @ \ {id},
              !.stop = @ \ {id}]

\* The TCB of a slot that register_full takes: a new generation, and nothing
\* left of the last task's exit, join or stop.
Recycled(id) ==
  [tcb EXCEPT !.gen[id] = @ + 1,
              !.joiner[id] = NO_TASK,
              !.exited = @ \ {id},
              !.stop = @ \ {id},
              !.sized = @ \cup {id}]

\* spawn: registration and the result's metadata in one critical section.
\* When every slot is taken the stack is not given back.
Register(h, m, p) ==
  /\ At(h, m, "spawn")
  /\ IF FreeSlots(k) = {}
     THEN Return(m) /\ UNCHANGED <<k, faulted, tcb>>
     ELSE LET id == FirstFree(k)
          IN  /\ k' = register_full(k, h, p)
              /\ faulted' = faulted \ {id}
              /\ tcb' = [Recycled(id) EXCEPT !.stack[id] = loc[m].stack]
              /\ pc' = [pc EXCEPT ![m] = "run", ![id] = "run"]
              /\ loc' = [loc EXCEPT ![m] = NoLocals]
  /\ UNCHANGED <<armed, isr, ready, halted, pool>>

-----------------------------------------------------------------------------
\* The slot has not been given to another task, although it may be free.
Valid(hd) == tcb.gen[hd.id] = hd.gen

\* The common start of the handle's methods: a stale handle returns at once.
Call(h, m, hd, l) ==
  /\ At(h, m, "run")
  /\ Valid(hd)
  /\ loc' = [loc EXCEPT ![m].h = hd]
  /\ Goto(m, l)
  /\ Quiet /\ UNCHANGED <<tcb, pool>>

\* request_stop
RequestStop(h, m, hd) == Call(h, m, hd, "stop")

SetStop(h, m) ==
  /\ At(h, m, "stop")
  /\ tcb' = [tcb EXCEPT !.stop = @ \cup {loc[m].h.id}]
  /\ Return(m)
  /\ Quiet /\ UNCHANGED pool

\* join_task: SelfJoin is refused ...
Join(h, m, hd) == hd.id # k.current[h] /\ Call(h, m, hd, "join")

\* ... one joiner at a time, and a second one gets AlreadyJoined ...
JoinRegister(h, m) ==
  LET id == loc[m].h.id
  IN  /\ At(h, m, "join")
      /\ IF tcb.joiner[id] = NO_TASK
         THEN tcb' = [tcb EXCEPT !.joiner[id] = m] /\ Goto(m, "join_wait") /\ UNCHANGED loc
         ELSE Return(m) /\ UNCHANGED tcb
      /\ Quiet /\ UNCHANGED pool

\* The flag is read in one critical section and the task blocked in the next.
JoinWait_Bad(h, m) ==
  /\ At(h, m, "join_wait")
  /\ IF k.state[m] = "RUNNING" /\ loc[m].n # 1
     THEN IF loc[m].h.id \in tcb.exited
          THEN Goto(m, "join_release") /\ UNCHANGED <<k, loc>>
          ELSE loc' = [loc EXCEPT ![m].n = 1] /\ UNCHANGED <<k, pc>>
     ELSE /\ k' = block_current(k, h)
          /\ loc' = [loc EXCEPT ![m].n = 0]
          /\ Goto(m, "join_resched")
  /\ UNCHANGED <<armed, isr, ready, halted, faulted, tcb, pool>>

\* ... look for the exit and block in one critical section ...
JoinWait(h, m) ==
  /\ At(h, m, "join_wait")
  /\ IF loc[m].h.id \in tcb.exited
     THEN Goto(m, "join_release") /\ UNCHANGED k
     ELSE k' = block_current(k, h) /\ Goto(m, "join_resched")
  /\ UNCHANGED <<armed, isr, ready, halted, faulted, lvars>>

JoinResched(h, m) ==
  /\ At(h, m, "join_resched")
  /\ RequestReschedule(h)
  /\ Goto(m, "join_wait")
  /\ UNCHANGED <<armed, ready, halted, faulted, lvars>>

\* ... give up the registration, if it is still this task's ...
JoinRelease(h, m) ==
  LET id == loc[m].h.id
  IN  /\ At(h, m, "join_release")
      /\ tcb' = [tcb EXCEPT !.joiner[id] = IF @ = m THEN NO_TASK ELSE @]
      /\ Goto(m, "join_read")
      /\ Quiet /\ UNCHANGED <<pool, loc>>

\* ... and read the result.
JoinRead(h, m) ==
  /\ At(h, m, "join_read")
  /\ Return(m)
  /\ Quiet /\ UNCHANGED <<tcb, pool>>

-----------------------------------------------------------------------------
\* despawn: a task may not despawn itself, nor one that is gone.  (No program
\* of this module despawns a manager.)
Despawn(h, m, hd) ==
  /\ m \in Spawners /\ hd.id \notin Managers
  /\ hd.id # k.current[h] /\ hd.id \in k.used
  /\ Call(h, m, hd, "despawn")

\* The task stays in its ready queue.
DespawnRemove_Bad(h, m) ==
  /\ At(h, m, "despawn")
  /\ Goto(m, "reset")
  /\ Quiet /\ UNCHANGED lvars

DespawnRemove(h, m) ==
  /\ At(h, m, "despawn")
  /\ k' = ready_remove(k, loc[m].h.id)
  /\ Goto(m, "reset")
  /\ UNCHANGED <<armed, isr, ready, halted, faulted, lvars>>

\* The slot's fields are reset before used is cleared ...
DespawnReset(h, m) ==
  LET id == loc[m].h.id
  IN  /\ At(h, m, "reset")
      /\ k' = [k EXCEPT !.state[id] = "READY"]
      /\ tcb' = [tcb EXCEPT !.exited = @ \ {id}, !.sized = @ \ {id}, !.stop = @ \ {id}]
      /\ Goto(m, "free")
      /\ UNCHANGED <<armed, isr, ready, halted, faulted, pool, loc>>

DespawnFree(h, m) ==
  /\ At(h, m, "free")
  /\ k' = [k EXCEPT !.used = @ \ {loc[m].h.id}]
  /\ Goto(m, "release")
  /\ UNCHANGED <<armed, isr, ready, halted, faulted, lvars>>

\* ... and the stack, read from the freed slot, goes to the free list last.
DespawnRelease(h, m) ==
  LET s == tcb.stack[loc[m].h.id]
  IN  /\ At(h, m, "release")
      /\ loc' = [loc EXCEPT ![m].stack = s]
      /\ Goto(m, IF s = NoStack THEN "forget" ELSE "push")
      /\ Quiet /\ UNCHANGED <<tcb, pool>>

DespawnForget(h, m) ==
  /\ At(h, m, "forget")
  /\ tcb' = [tcb EXCEPT !.stack[loc[m].h.id] = NoStack]
  /\ Return(m)
  /\ Quiet /\ UNCHANGED pool

-----------------------------------------------------------------------------
\* rivet_task_exit_core: the task's entry returns, on its own or because
\* should_stop() told it to, and the result is stored ...
Exit(h, t) ==
  /\ t \notin Managers \cup {IDLE}
  /\ At(h, t, "run")
  /\ tcb' = [tcb EXCEPT !.result[t] = IF t \in tcb.sized THEN tcb.gen[t] ELSE @]
  /\ Goto(t, "exit")
  /\ Quiet /\ UNCHANGED <<pool, loc>>

\* ... the exit published and the joiner woken, in one critical section ...
ExitPublish(h, t) ==
  /\ At(h, t, "exit")
  /\ tcb' = [tcb EXCEPT !.exited = @ \cup {t}, !.joiner[t] = NO_TASK]
  /\ k' = IF tcb.joiner[t] = NO_TASK THEN k ELSE unblock(k, h, tcb.joiner[t])
  /\ Goto(t, "exit_state")
  /\ UNCHANGED <<armed, isr, ready, halted, faulted, pool, loc>>

\* ... and the task blocks itself, outside a critical section, for ever.
ExitState(h, t) ==
  /\ At(h, t, "exit_state")
  /\ k' = [k EXCEPT !.state[t] = "BLOCKED"]
  /\ Goto(t, "exit_queue")
  /\ UNCHANGED <<armed, isr, ready, halted, faulted, lvars>>

ExitQueue(h, t) ==
  /\ At(h, t, "exit_queue")
  /\ k' = ready_remove(k, t)
  /\ Goto(t, "exit_resched")
  /\ UNCHANGED <<armed, isr, ready, halted, faulted, lvars>>

ExitResched(h, t) ==
  /\ At(h, t, "exit_resched")
  /\ RequestReschedule(h)
  /\ Goto(t, "exit_state")
  /\ UNCHANGED <<armed, ready, halted, faulted, lvars>>

ExitStep(h, t) ==
  \/ Exit(h, t) \/ ExitPublish(h, t)
  \/ ExitState(h, t) \/ ExitQueue(h, t) \/ ExitResched(h, t)

\* FreeList::push puts back what pop took, or takes what despawn gives up.
PushStep(h, m) ==
  \/ PushLoad(h, m, "put_back", "put_store") \/ PushStore(h, m, "put_store", "carve")
  \/ PushLoad(h, m, "push", "push_store") \/ PushStore(h, m, "push_store", "forget")

JoinStep(h, m) ==
  \/ JoinRegister(h, m) \/ JoinWait(h, m) \/ JoinResched(h, m)
  \/ JoinRelease(h, m) \/ JoinRead(h, m)

ManagerStep(h, m) ==
  \/ \E z \in Sizes : AllocStack(h, m, z)
  \/ Pop(h, m) \/ PushStep(h, m) \/ Carve(h, m)
  \/ \E p \in ChildPrios : Register(h, m, p)
  \/ \E hd \in Handles : RequestStop(h, m, hd) \/ Join(h, m, hd) \/ Despawn(h, m, hd)
  \/ SetStop(h, m) \/ JoinStep(h, m)
  \/ DespawnRemove(h, m) \/ DespawnReset(h, m) \/ DespawnFree(h, m)
  \/ DespawnRelease(h, m) \/ DespawnForget(h, m)

LifeNext ==
  \/ Next /\ UNCHANGED lvars
  \/ \E h \in Harts : \/ \E m \in Managers : ManagerStep(h, m)
                      \/ \E t \in Tasks : ExitStep(h, t)

LifeSpec == LifeInit /\ [][LifeNext]_<<vars, lvars>>

-----------------------------------------------------------------------------
(***************************************************************************)
(* Who has which stack: the registered tasks, the free list, and a manager *)
(* between taking a stack and giving it to a task or to the list.          *)
(***************************************************************************)
Holders ==
  {<<"task", t, tcb.stack[t]>> : t \in {u \in k.used : tcb.stack[u] # NoStack}}
  \cup {<<"free", i, pool.entries[i]>> : i \in 0..(pool.count - 1)}
  \cup {<<"hand", m, loc[m].stack>> :
          m \in {u \in Managers : pc[u] \in {"put_back", "put_store", "spawn", "push", "push_store"}}}

\* From the guard band's first byte to the stack's last.
Overlap(s, u) == s.off - GUARD < u.off + u.size /\ u.off - GUARD < s.off + s.size

\* Whatever is spawned and despawned, no two tasks have stacks or guard bands
\* that share a byte, none shares one with a stack that is free or on its way,
\* and all lie in the pool (alloc_stack's SAFETY claim for its two slices).
StacksDisjoint ==
  /\ \A a, b \in Holders : a # b => ~Overlap(a[3], b[3])
  /\ \A a \in Holders : a[3].off - GUARD >= 0 /\ a[3].off + a[3].size <= POOL_LEN

\* The task that a handle names is still there: its slot was not freed, nor
\* given to another task, and no despawn has reset the slot's fields yet.
Undisturbed(hd) ==
  /\ Valid(hd) /\ hd.id \in k.used
  /\ \A m \in Managers : pc[m] = "free" => loc[m].h.id # hd.id

\* As long as nobody despawns the task it is called for, a join that is about to
\* read a result reads the one written by that very task, not by an earlier task
\* of the slot, whose exit flag or buffer was left behind, and not a result that
\* is still to be written; meanwhile other tasks exit, fault, are despawned and
\* replaced, and other joins start and end.
JoinGetsOwnResult ==
  \A m \in Managers :
    LET hd == loc[m].h
    IN  pc[m] = "join_read" /\ Undisturbed(hd) =>
          hd.id \in tcb.sized /\ tcb.result[hd.id] = hd.gen

\* m is blocked in join_task.
BlockedInJoin(m) == pc[m] \in {"join_wait", "join_resched"} /\ k.state[m] = "BLOCKED"

\* As long as nobody despawns the task it is called for, a task blocked in join
\* is the registered joiner of a task that has yet to exit: the exit cannot have
\* been missed (the check-then-block comment in join_task).  (A task that is
\* isolated never exits: FaultIsReported.)
JoinerIsWoken ==
  \A m \in Managers :
    LET hd == loc[m].h
    IN  BlockedInJoin(m) /\ Undisturbed(hd) => hd.id \notin tcb.exited /\ tcb.joiner[hd.id] = m

\* A join of a task that the fault policy has isolated does not stay blocked: it
\* reports JoinError::Faulted (lifecycle.rs's header).
FaultIsReported ==
  \A m \in Managers : BlockedInJoin(m) /\ Valid(loc[m].h) => loc[m].h.id \notin faulted

\* A join never returns the result of a later task of the slot: once the slot is
\* recycled it reports JoinError::Stale (lifecycle.rs's header).
ReadsItsOwnTask ==
  \A h \in Harts, m \in Managers :
    LET hd == loc[m].h
    IN  At(h, m, "join_read") /\ hd.id \in tcb.sized => tcb.result[hd.id] = hd.gen

\* No freed slot is queued or current, so that no tick dispatches a task whose
\* slot and stack are gone (on_tick_locked's unwrap).
OnlyTasksDispatch ==
  /\ \A p \in Prios : k.queues[p] \subseteq k.used
  /\ \A h \in Harts : k.current[h] \in k.used \cup {NO_TASK}

=============================================================================
