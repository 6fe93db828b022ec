# Rivet RTOS: TLA+ verification project

Rivet is a real-time kernel in Rust for microcontrollers, single-hart and SMP. It has two
tiers. The *preemptive* tier runs tasks with their own stacks under a fixed-priority
scheduler shared by all harts; its lowest-priority task runs the *async* tier, an executor
that polls futures and takes their wake-ups from bitmaps. Both tiers communicate through
atomics, interrupts and short critical sections, so most of what can go wrong in them is an
order of steps no unit test chooses. The modules here model the kernel crate (`src/rivet/src`),
its four architecture ports and its seven boards at the granularity of those steps.

## 1. Inventory

| Part | State | Operations | Interacts with |
|---|---|---|---|
| Scheduler core, `preempt/sched.rs` | `READY_BITMAP`, `QUEUES`, `CURRENT` per hart, `DISPATCH_COUNTER`, `DISPATCH_SEQ` | `ready_add`, `ready_remove`, `schedule`, `on_dispatch`, `should_preempt`, `block_current`, `unblock`, `on_effective_priority_change`, `wake_other_harts` | everything preemptive; other harts by interrupt |
| Task control blocks, `preempt/tcb.rs` | state word, priorities, `used`, held list, generation, result, joiner, times | `set_state`, `register_full`, `push_held` | scheduler, mutex, lifecycle |
| Preemptive tier, `preempt/mod.rs`, `lib.rs` | `KERNEL_READY`; a task's own program point | `run`/`start`, `start_secondary_hart`, `on_tick`, `sleep_until`, `yield_now`, `park_forever`, `pause`, `resume`, `spawn` | scheduler, timers, fault policy |
| Lifecycle, `preempt/lifecycle.rs`, `stack_pool.rs` | exit flag, result, joiner, generation; `NEXT`, `FREE_LIST` | exit, `join`, `request_stop`, `despawn`, `alloc_stack`, `release_stack` | scheduler |
| Critical sections, `critical.rs` | `LOCK_OWNER`, `NESTING` per hart, interrupt mask | `enter` | every caller above |
| Preemptive deadlines, `timer.rs` | `PTASK_DEADLINES` | register, cancel, `poll_ptask_deadlines` | tick, sleep, mutex timeouts |
| Priority mutex, `preempt/mutex.rs` | `locked`, `owner`, `waiters`, `poisoned`; held lists | `lock`, `lock_timeout`, `try_lock`, guard drop, inheritance, poisoning | scheduler, fault policy |
| Fault policy, `fault.rs` | policy, fault count | `on_fault`, `isolate` | ports, scheduler, mutexes |
| Executor and wakers, `executor.rs`, `waker.rs`, `task.rs` | `PRIORITY_QUEUES`, `READY_BITMAP`, pend flag, `LIVE_TASKS`, completed flags | `init`, `run`, `mark_ready`, `next_ready`, `clear_pend`, `poll` | interrupts, other harts, all of `sync/` |
| Async timers, `timer.rs`, `time.rs` | `TIMER_SLOTS`; a `Sleep` | `register_deadline`, `cancel_deadline`, `poll_timers`, `Sleep::poll`, drop | executor, tick |
| Channel, Semaphore, Signal, `sync/` | ring and waiter slots; count and waiter bitmaps; latch and waiter slot | send, receive; acquire, release; signal, wait, reset; drops | executor, drivers |
| Accounting, `deadlines.rs`, `exec_time.rs`, `watchdog.rs` | busy time, `LAST_DISPATCH`, period boundary, budget snapshot, last check-in | `on_switch`, `wait_period`, `check_budget`, `checkin`, `check_task_checkins` | tick, switch, fault policy |
| Interrupt table, `irq.rs`, `nvic.rs`, `plic.rs` | `HANDLERS`, `UNTRACED`; enable and priority registers; the esp32c6's lines | register, unregister, enable, disable, `set_priority`, `dispatch` | every driver |
| Console, `console.rs` | transmit and receive rings, `IRQ_TX_ACTIVE`, write lock; the UART | `write_bytes`, `on_rx_byte`, `tx_irq_next_byte`, `flush_sync` | critical sections, UART handlers, reset |
| Watchdogs, `watchdog.rs`, `sw_watchdog.rs`, boards | period and deadline, or a hardware counter | `init`, `feed`, `on_tick` | tick |
| Ports, `rivet-arch-*` | register files, saved frames, handler stacks, stack guard, pending interrupts | trap entry and exit, `start_first_task`, `init_task_stack`, reschedule requests | scheduler by `on_tick` |
| Clocks, `clint.rs`, `systick.rs`, `timer.rs`, boards | counters wider than a register, compare registers | `now_us`, tick handlers | timers, accounting |
| Drivers, `rivet-bsp-support`, boards | controllers' registers; a `Signal` each | SPI, I2C and pin transfers and waits | executor through `Signal` |
| Boot, `rivet-rt`, `lib.rs`, boards | what has been set up; open interrupts; `KERNEL_READY` | reset to first task, secondary cores | all of the above |
| Log, trace, latency, report, `Once`, macros, delays, host tools | rings and counters, or none | output | - |

What is hard here: two harts deciding on one run queue; state that is read under a lock and
used after it; accesses outside any critical section (`park_forever`, the wakers, the mutex's
fast path, the stack pool); wake-ups that race with going to sleep, in the kernel and between a
driver and its interrupt; time-outs that race with unlocks; tasks isolated or despawned in the
middle of a call; handles that outlive what they name; counters that wrap and lists that fill;
handlers that nest and save contexts in an order the hardware chooses; interrupts that come
while a board is still being set up. `PROJECT.json` lists these under `hazards`, each at its
line.

What makes the parts correct: a ready task is found and the highest one runs; no task runs
twice; no sleeper and no waiter is left with nothing to wake it; waiting among equals is
bounded; `enter` excludes; a mutex has one holder, which inherits and then loses its boost;
a channel is a bounded queue; a semaphore invents no token; a latched signal is not slept
through; stacks are disjoint and a join gets the result it waits for; periods do not drift and
budgets bind; a task goes on where it stopped; an interrupt that is enabled is delivered and
finds its handler's state; a clock does not run backwards.

## 2. Modules

| Module | Models | Notes |
|---|---|---|
| `Sched` | `sched.rs`, `tcb.rs`, the decision in `on_tick_locked`, `isolate` | operators on one record `k` (state words, priorities, queues, bitmap, current tasks, stamps, pending software interrupts) |
| `Preempt` | `mod.rs`, `lib.rs`, `timer.rs` deadlines | actions per hart and task; `EXTENDS Sched` |
| `PreemptFair` | the same | adds a history of overtaking |
| `Mutex` | `mutex.rs`, poisoning in `fault.rs` | on `Preempt`: a locker's steps, ticks and switches interleave |
| `Lifecycle` | `lifecycle.rs`, `stack_pool.rs`, the handle methods of `mod.rs` | on `Preempt` |
| `Accounting` | `deadlines.rs`, `exec_time.rs`, check-ins in `watchdog.rs` | on `Preempt`, with a clock; `truth` keeps what really happened |
| `Exclusion` | abstract | what `critical::enter` promises |
| `Critical` | `critical.rs`, the port's mask | implements `Exclusion` |
| `Executor`, `Timers` | `executor.rs`, `waker.rs`, `task.rs`; `timer.rs`, `time.rs` | one step per atomic access; `Timers` extends `Executor` |
| `Fifo` | abstract | a bounded queue |
| `Channel` | `channel.rs` | implements `Fifo` |
| `Semaphore`, `Signal` | `semaphore.rs`, `signal.rs` | |
| `Pl022`, `StellarisI2c`, `Stm32I2c`, `ExtiWait` | the drivers of those names | extend `Signal`: the driver's task waits on it, the driver's handler signals it |
| `Console`, `Watchdog`, `IrqTable`, `Gpio`, `Clocks`, `Boot` | the board services | each over every chip that has the service, chosen in the first state |
| `Machine` | what a port must do for the scheduler | register files, frames, program points; `on_tick` may answer anything |
| `Riscv`, `CortexM`, `CortexM0`, `Xtensa` | the ports | each on `Machine`: handlers step by step, as the hardware nests them |
| `PreemptProofs`, `AccountingProofs`, `TasksProofs`, `TimersProofs`, `SyncProofs`, `PortsProofs`, `DevicesProofs`, `BoardProofs` | | lemmas and theorems, section 4; `PreemptProofs` is about `Sched`, `Preempt` and `PreemptFair`, `TasksProofs` about `Lifecycle` and `Mutex`, `SyncProofs` about `Critical`, `Channel` and `Semaphore`, `PortsProofs` about `Machine` and the ports, `DevicesProofs` about `Signal`, the drivers, `Watchdog`, `IrqTable` and `Gpio`, `BoardProofs` about `Clocks` and `Console` |
| `MCPreempt`, `MCPreemptFair`, `MCExecutor`, `MCMutex`, `MCLifecycle` | | values of structured constants |
| `MCKernel`, `MCDevices`, `MCPorts` | | parts that share no state, checked in one run: a variable set in the first state says which |

How actions correspond to code:

* A region under `critical::enter` is one action of `Preempt`, `Mutex`, `Lifecycle`: `Critical`
  shows that these regions exclude each other on all harts. An access outside one is an action
  by itself: the accesses of `park_forever`, of the mutex's fast path, of the stack pool.
* A task has a program point `pc`; a hart executes its current task's next step when it is in
  no handler. A switch is `set_current`: what the task had left to do waits in its `pc`. That a
  port's context save and restore may be taken as atomic there is what run `ports` checks.
* In `Preempt` a tick first wakes any subset of the armed tasks (time is not modelled: any set
  of deadlines may have passed) and then decides (`OnTick`), two steps as in the code.
  `Accounting` and `Timers` have a clock. A reschedule requested by a task is taken at once; one
  broadcast to another hart stays pending in `k.msip` for any number of steps.
* Stack overruns and exceeded budgets are one event in `Preempt`, `OnTickFault`, for tasks in
  `Faulters`, under the Isolate policy; in `Accounting` the budget itself decides. The Panic
  policy and `start()`'s panic set `halted`.
* In `Executor`, `Timers`, `Channel`, `Semaphore` and `Signal` every access to an atomic is a
  step. An operation in an interrupt handler of the same hart is one step between two of the
  interrupted code's; on another hart it is interleaved. A CAS loop is one step, where the
  CAS succeeds.
* In the drivers and board services every register access that another actor could come between
  is a step, and the controller moves on by itself (the `external` definitions of the map).
* In the ports a handler is cut where a nested exception, another hart or a device can come in.
  A context is a record of whose registers it holds and where they stopped; a saved frame that
  nobody wrote holds `Lost`.
* Atomics are taken as sequentially consistent. The code uses acquire/release orderings; what
  weaker memory may add is outside these modules (the repository's own loom tests look at
  small cases of it).
* Data are abstracted: a payload is one of two values, bytes are numbered, a waiter slot with
  one possible occupant is a Boolean, a bitmap is a set.

## 3. Runs

All bounds are constants named in the `.cfg` files. Parts that share no state are checked in one
run, one at a time: `MCKernel`, `MCPorts` and `MCDevices` choose the part, or the chip, in the
first state and leave the others where they start, so that the state spaces add up and do not
multiply.

| Run | Instance | Distinct states | Checks |
|---|---|---|---|
| `preempt_smp` | 2 harts, one without a tick; a sleeper that may fault, a parker, pausing, spawning into a free slot; 5 dispatches | 330,784 | `QueueConsistent`, `HartsMatchTasks`, `DispatchesHighest` |
| `preempt_fair` | 2 harts, one without a tick; two tasks that take turns and two sleepers of different priorities above them; 5 dispatches | 34,624 | `OvertakenAtMostOnce`, `InversionEnds` |
| `critical` | 2 harts, three nested calls, handlers on both kinds of target | 8,235 | `MaskKept`, `ImplementsExclusion`, `SectionEnds` |
| `executor` | three tasks, two of one priority that another hart wakes, two that sleep; two timer slots, a clock to 3 | 349,780 | `WakesAreKept`, `WokenIsPolled`, `SleeperReturns` |
| `mutex` | 1 hart, three mutexes, held lists of two; a task that locks with and without a time-out, tries and sleeps, above one that may be isolated | about 1.1 million | `WaiterIsRegistered`, `BoostLastsAsOwed`, `HoldersExclude`, `SleepLastsToDeadline` |
| `kernel` | channel: three slots, two values, spurious polls and drops; semaphore: three acquirers of two priorities, releases in handlers and on two harts, `MAX` 2, 3 releases; accounting: a periodic task with a budget above one that checks in, 32-bit time of 4 values, a clock to 10 | 1.31 million | `NoTornRead`, `SidesAreWoken`, `ImplementsFifo`, `NoTokenInvented`, `ReleaseFindsHighest`, `PeriodsDoNotDrift`, `NoFalseAlarm`, `BudgetEnforced` |
| `lifecycle` | 1 hart, a spawner and a joiner of one priority, one slot that is recycled, whose task may be isolated; a pool of 8 units, stacks of 1 and 2, a free list of 2 | 783 thousand | `StacksDisjoint`, `OnlyTasksDispatch`, `JoinGetsOwnResult`, `JoinerIsWoken` |
| `ports` | RISC-V on 2 harts, Cortex-M, Cortex-M0 and Xtensa on one; 3 tasks, one of which returns from its entry, spawning, faults, a claimed PLIC source | 432,690 | `ResumesWhereItStopped`, `StacksAreSeparate`, `ClaimsCompleted` |
| `devices` | each driver and board service over every chip that has it | 1.07 million | `WaiterIsWoken`, `DriversAreHeard`, `TransfersAreOwn`, `ConsoleDelivers`, `WatchdogKeepsTime`, `InterruptsAreRouted`, `PinsObeyOwners`, `ClocksAreTrue`, `HandlersFindTheirState`, `HartsJoinABootedKernel` |
| `budget_period` | the accounting part of `kernel` | violation | `BudgetIsThisPeriods` |
| `sleeper_two_harts` | 2 harts, one sleeper | violation | `SingleOwner` |
| `secondary_deaf` | the QEMU machine's boot, built for its two harts | violation | `HartsHear` |

Several properties are conjunctions of named parts, each with a comment of its own:
`HartsMatchTasks` of `RunningIsCurrent` and `SingleOwnerAwake`; `WakesAreKept` of `WakeNotLost`,
`SleeperIsHeard` and `AheadIsOwned`; `BoostLastsAsOwed` of `HolderKeepsBoost` and `BoostEnds`;
`SidesAreWoken` of `ReceiverIsWoken` and `SenderIsWoken`; `StacksAreSeparate` of `IsrStacksDisjoint` and
`StacksSeparated`; `DriversAreHeard`, `TransfersAreOwn`, `ConsoleDelivers`, `WatchdogKeepsTime`,
`InterruptsAreRouted` and `ClocksAreTrue` of the parts of the drivers, rings, dogs and clocks;
`HartsJoinABootedKernel` of `TasksFindABootedKernel` and `HartsHear`.

Why the bounds are enough to be interesting. Two harts and two or three tasks are the least
with which a switch races with a wake, a boost with an unlock, a claim with a claim; a free
slot lets a spawn race with all of them, and a slot of two generations lets a handle meet its
slot's next task. Stacks of two sizes make the free list hold what does not fit, and the pool of 8
runs out. A ring of three slots has an empty, a partly full and a full state and
wraps. Three nested calls are one more than needed for a nested call to be both outer and
inner. Three releases and `MAX = 2` reach the limit and go past it; a third mutex does the same
to held lists of two. Two timer slots for two sleepers fill when one of them registers late.
32-bit time wraps twice, and a low word of 8 cycles twice, before the clock's bound. Transfers
of 2, 3 and 6 bytes are at the level a FIFO of 4 signals at, above it, and longer than the FIFO.
The watchdogs' periods include 0, one the reload register cannot hold and one that wraps it.

`MaxMasked` bounds how long the esp32s3's tick may be kept waiting, by code that runs masked: in
the runs a period and a cycle, so that handlers are late by a period, before the count comes round
and after. It is a real wait: `console_write` polls the UART inside `critical::enter`
(`rivet-bsp-esp32s3/src/lib.rs:241-258`), and a message that does not fit in its FIFO takes longer than
a tick. The only limit it has is that the wait and a period are less than the 2^32 cycles the counter
takes to come round, 18 seconds at 240 MHz. The CLINT's handler may be late by any time.
A SysTick has no such freedom in `Clocks`: each is counted before the next is due, since the
hardware keeps one pending and loses the others (section 5).

`mutex` uses the symmetry of its mutexes, which is sound for invariants and for the action
property it checks: none of them names one. `mutex`, `lifecycle`, `ports` and
`devices` have a `VIEW` that leaves out, or renumbers, what no later step and no property reads
(stop flags, the stamps of a manager alone at its priority, how far a task got but for the difference
to the register files that hold it); each is defined and explained in its
MC module. In `mutex`, `lifecycle` and the
accounting of `kernel` stamps are taken modulo 2: they wrap all the time, equals take turns in any
order, and no property of those runs is about turns. `preempt_smp` and
`preempt_fair` have a modulus above their number of dispatches.

Runs that end at a bound (a dispatch counter below the stamp modulus, a clock, a number of
releases, written bytes) have `CHECK_DEADLOCK FALSE`: the bound stops them where the system
would go on. So have those in which a transfer, a boot or a message is followed by nothing, and
the boards' instances, in which the program really may stop (`halted`, reset). `critical`, `mutex`
and `sleeper_two_harts` have no such end and check deadlock.

The limits of each claim are part of the run: the mutex's `WaiterIsRegistered` and
`SleepLastsToDeadline` are one-hart results, and the first exempts a locker that blocks on a mutex
already poisoned (`PoisonIsHeard`), on one whose owner was isolated without poisoning it
(`Orphaned`), on one whose acquire is then rolled back, or with a full held list;
`OvertakenAtMostOnce` holds while stamps do not wrap and nobody is isolated; `WakeNotLost`,
`WokenIsPolled` and `SleeperReturns` are stated of tasks alone at their priority and not woken from
another hart, and of sleeps registered before their deadline; `ReleaseFindsHighest` of waiters
registered when a release begins; `JoinGetsOwnResult` and `JoinerIsWoken` of tasks that are not
despawned while they are joined (`ReadsItsOwnTask` is false without that, `FaultIsReported` of an
isolated one; no task of `Lifecycle` despawns a manager); the accounting of one hart;
`ConsoleDelivers` of writers on hart 0; `PinsObeyOwners` of pins that are not reconfigured together
where a register is shared; `InterruptsAreRouted` of enables that do not overlap where a register is
read and written back; `ClocksAreTrue` of reads a tick can interrupt, of cores whose cycle counters
agree, and until the esp32s3's count comes round while its tick is a period late (`LateTickIsCoalesced`);
`HartsHear` of the boards as they are built, with one RISC-V hart. Section 5 says what happens
beyond them.

### Fairness

* `IrqFairness`: a hart that can start or is in a handler goes on (weak); its timer keeps
  interrupting and a pending software interrupt is taken (strong, since each of the two waits
  while the other's handler runs). This is the hardware's doing; no task is assumed to yield.
* `Critical`: a call in progress moves on (weak), and a closure makes finitely many nested calls,
  at every depth (strong). Nothing is assumed about who wins the spinlock.
* `TimerFairness`: the executor's task keeps running, the clock goes on, the periodic tick keeps
  coming, and a waker on another hart finishes (all weak). An executor that idles is woken by
  that tick at the latest.

### Mutants

Each property has a changed definition (`..._Bad`, next to the one it replaces) that breaks it:
a queue not updated, a stamp compared the wrong way, a second check left out, a publication in
the wrong place, a lock taken without its CAS, a stale handle believed, a register re-armed from
the wrong value, an interrupt opened a step too early.

## 4. Proofs

Checked by TLAPS for every value of the constants that the named assumptions admit. Where a
property holds only under a condition, the condition is an `ASSUME` of the theorem and is named
here with its reason.

**Scheduler** (`PreemptProofs`). It begins with one lemma per operation of the scheduler, saying
what it does to the record; the proofs of the modules on top cite them, one step per action.

* `QueuesStayConsistent`, `HartsStayMatched`, `HighestIsDispatched`: any number of harts, tasks
  and priorities, any boot-time task set, any set of sleeping, parking, pausable and faulting
  tasks, provided that no task both sleeps and parks. That assumption is needed: a tick may wake
  a task between the accesses of `park_forever`, and the queues are then briefly inconsistent
  (section 5). The inductive invariant is `TypeOK`, the queue invariant, "a current task is
  registered", "a task that does not sleep is the current task of at most one hart, and then
  RUNNING or parking or isolated", "a RUNNING task is some hart's", "only sleepers have
  deadlines" and "a task at a parking label is BLOCKED". None of the listed properties is
  inductive alone: dispatching keeps ownership unique only because a READY task that does not
  sleep is nobody's current task.
* `SleepsLast` (`SleepLastsToDeadline`): on one hart, any tasks and priorities. On two harts it
  is false (section 5). The invariant adds that an armed task is registered and BLOCKED
  (`Asleep`) and that, once it has asked for its switch, its hart has left it or is about to decide
  (`NotBack`); what makes the hart leave is that the executor's task is always READY or RUNNING,
  so that `schedule` finds another task.
* `WaitsAreBounded` (`OvertakenAtMostOnce`): any harts, tasks and priorities, as long as the
  stamps have not wrapped (`DISPATCH_BOUND < SEQ_MOD - 1`) and nothing is isolated, since
  `isolate` dispatches without a stamp. The invariant says that the counter bounds all stamps and
  that whoever has overtaken a waiting task carries the later stamp (`AheadIsLater`).

**Accounts** (`AccountingProofs`). `AccountsRefine`: every step of `Accounting` is a step of
`Preempt` or leaves its variables alone, so that what is proved of the scheduler holds beside the
accounts. `PeriodsStayTrue` (`PeriodsDoNotDrift`), `AlarmsAreTrue` (`NoFalseAlarm`) and
`BudgetsAreEnforced` (`BudgetEnforced`): any tasks and priorities, any set that yields, sleeps or
checks in, any period, budget, time-out and width of the truncated time. They are about boards with
one hart: on two, a period can end early because a sleep can (section 5). The invariant says that
the deadline of a task between the two halves of `wait_period` is the boundary it waits for and
that a task back from its sleep has a clock past it, for which the scheduler's `SleepsLast` is
needed (`DriftInv`); that what a task has run in its period is at most what `busy_cycles_live`
would tell `check_budget`, the stretch since `LAST_DISPATCH` included for the current task
(`ChargedInv`); and that `last_checkin` is the check-in's time modulo 2^32 (`HeardInv`), which with
arithmetic on remainders gives that a wrapped difference is never more than the true one.

**Mutex** (`TasksProofs`). `MutexesExclude` (`HoldersExclude`): any harts, tasks, mutexes and
held-list lengths, with time-outs, faults at any step and rolled-back acquires, and with no
assumption on the scheduler at all. The property is not inductive: between the CAS and
`push_held` a task has the mutex and is in no held list, and the owner word is a store of its
own. `AcquirersExclude` gives a task in that window the lock bit to itself; `OwnerStored` says
when the owner word names it.

**Lifecycle** (`TasksProofs`). `StacksStayDisjoint` (`StacksDisjoint`): any pool, guard size,
set of stack sizes, free-list length, number of slots and of harts, with tasks that exit, fault,
sleep, join each other and are despawned at any point, provided that one task spawns and despawns
(`Spawners = {m}` and no spawns of `Preempt`'s own). That is what `stack_pool.rs:144` says of its
callers; without it the property is false (section 5). The invariant lays the pool out: all
that was handed out lies below `NEXT`, so that a carved stack is new (`Carving` is the
arithmetic of `alloc_stack`); the stacks of the tasks, of the free list and the one in the spawner's
hand are pairwise apart with their guard bands (`Laid`, with one lemma per way in which a stack
changes hands); a loaded list count is still the list's (`Counted`); and a slot that `despawn` has
freed owns its stack until `DespawnRelease` reads it (`VictimKnown`, `Owners`). `Asking` confines the
joiners to the steps that touch none of this. The boot-time
layout is an assumption on the constants (`BootAssumption`: the boot tasks fit in the pool), which
TLC evaluates.

`FreedTasksStayOut` (`OnlyTasksDispatch`): any number of slots, priorities, stack sizes,
generations and joiners, under `Managed(m)`: one hart, one task that spawns and despawns, the managers
registered at boot, nobody paused, and nobody but managers in `sleep_until`. These are not for
convenience: a despawned sleeper's deadline queues its dead slot, and a despawn does not see
another hart's current task (section 5). The invariant `DispatchInv` stands on `LifeInv`: whoever is
queued is registered, at its effective priority and under a bit that is set, so that `ready_remove`
takes a task out of all queues, not one; a task between `DespawnRemove` and `DespawnFree` is in none;
and a manager stays registered (`ManagersStay`), so that the sleeper a deadline wakes is one. There
is one lemma per scheduler operation (`PlacedSet`, `PlacedHeal`, `PlacedTick`, ...).

`JoinsReadTheirOwnResult` (`JoinGetsOwnResult`): any number of harts, slots, tasks that join and
tasks that spawn and despawn, all at the same time, whatever the scheduler does. Both assumptions
are about who may be despawned: the managers are boot tasks, which `despawn` is not called for, and
slots change hands by `Lifecycle`'s own spawn. The invariant is about one slot's fields over its
generations (`RecordInv`): an exit flag that is set, on a slot that is in use and not being reset,
belongs to the present generation, as does the result beside it (`ResultsOwn`); a task about to exit
has neither been reset nor replaced (`Intact`); and a join that reads has seen the flag after its
handle's generation was last compared (`ReadersSawExit`). It fails where the property's condition
does: between `despawn`'s reset and its store to `used`, and for the next generation.

**Critical sections** (`SyncProofs`). `MaskIsKept`, `EnterExcludes`: any number of harts and
any nesting depth. The invariant ties each hart's program point to the calls in progress, says
that each call read the depth of the calls below it, that the hart with a positive depth, or
between the CAS and the store, owns the lock, and that all but the first call found interrupts
masked. `EnterExcludes` is the refinement of `Exclusion`.

**Executor and timers** (`TimersProofs`). `WakesStay` (`WakesAreKept`): any number of tasks,
priorities, remote wakers, timer slots and lengths of sleeps. One half of the invariant says what
each of `next_ready`'s local variables still tells about the words it was read from (`Locals`) and
that the bit of a priority with one sheltered task is never set over an empty word, so that the
healing cannot clear it (`Backed`). The other is about stale handles: one whose slot is no longer
its own has expired (`Placed`), so that what it could still cancel was registered late (`Alone`).

**Sync** (`SyncProofs`).

* `NobodySleepsThrough`, `SlotsAreExclusive`: every ring size and set of values. The invariant
  says what each side knows after its check (room for the sender, a value for the receiver, which
  only the other side could take away and never does) and that a pending side is registered,
  woken, or about to be woken by a side that is past its publication.
* `ChannelIsFifo` (`ImplementsFifo`): the channel implements `Fifo`, a bounded queue, for every
  ring size: only `SendPublish` appends and only `RecvRead` takes, every other step is a stutter.
  The lemmas before it are about the ring: how the contents read from `head` on change when one
  of the indices moves, modulo the size.
* `TokensAreReleased` (`NoTokenInvented`): any number of acquirers and of releasing harts, any
  limits. The invariant counts each release in flight (`InFlight`) against the tokens, which makes
  it strictly stronger than the property.
* `NobodyIsPassedOver` (`ReleaseFindsHighest`): `Scanned` says what each point of the scan knows of
  the waiters registered since before it.

**Ports** (`PortsProofs`). `TasksResumeWhereTheyStopped` (`ResumesWhereItStopped`),
`StacksStaySeparate` (`StacksAreSeparate`) and `ClaimsAreCompleted` (`ClaimsCompleted`): any number of
tasks, harts, PLIC sources and bootstrap records, any boot-time tasks, any bound on the instructions
counted. `PortsAsBuilt` says that ARMv7-M and Xtensa have one hart: the first has no other, on two
Xtensa cores the first property is false (section 5).

* `Core` is what the kernel relies on, whatever the port. A task that waits has a stack pointer from
  which its port makes the task where it stopped (`Resumable`): a saved frame or context, or a
  bootstrap record nobody has consumed. A handler that has not decided has saved the task it
  interrupted; one that has decided holds such a pointer for the task it goes to; and no two harts have
  one current task. It is kept by one lemma per kind of step (`SaveCore`, `TickCore`, `FaultCore`,
  `ResumeCore`, `SpawnCore`, `DespawnCore`, `StartCore`, ...), which the ports' steps cite. A port's own
  part is about where it keeps all this.
* RISC-V (`RvInv`): `mscratch` is the top of the hart's own slice while a task runs and the
  interrupted frame until the decision, and a source is claimed only between `claim` and `complete`.
* ARMv7-M (`CmInv`): region 7 is that of the current task until the next decision, and the slot a spawn
  fills between its two critical sections is no other spawn's and not registered, so that the frame it
  built is still there when it registers the task. A MemManage inside PendSV (`StmiaFaults`) isolates
  task after task without resuming any, until the fault policy halts the system.
* Xtensa (`XtInv`): the frame the handler is next to is that of the task it is on the stack of, and
  the free list of `BOOTSTRAP_ALLOC` holds no record twice and none that is in use (`Pool`): that a
  record names one task until it is consumed follows from the order in which they are taken and
  handed back.

**Drivers and board services** (`DevicesProofs`). One part moves in a behaviour of `DevSpec`, so each
part has an inductive invariant of its own, and `BoardsApart`, `DriversApart` say that no other part's
step touches it.

* `NoSignalMissed` (`WaiterIsWoken`): any number of signallers. A task past its registration is
  still in the slot or on its way to being woken (`Reachable`).
* `DriversHear` (`DriversAreHeard`), `TransfersStayOwn` (`TransfersAreOwn`): any FIFO depth, receive
  level, transfer lengths and transactions, on the signal's invariant. A waiting driver has its
  latch set or the event that will set it still to come with the interrupt unmasked, and the bytes
  of a PL022 transfer lie in the buffer, the receive FIFO and the transmit FIFO, in order, and no
  others (`SpiOrder`). A driver's transfer may fail or be dropped at any await, and the bus may fail
  at any byte. `TransfersAsDocumented` says which transfers: the PL022's last chunk fills the
  receive level (`pl022.rs:20` asks its callers for chunks of at least four bytes; a shorter one
  would wait for ever), and an operation of the STM32's I2C master reads or writes at least a byte.
* `DogsKeepTime` (`WatchdogKeepsTime`): the five boards' dogs, any periods, any reload register not
  wider than the arithmetic that fills it (`DogsAsBuilt`). For each dog its counter is tied to the
  time at which it was fed and to the period it was given.
* `InterruptsRouted` (`InterruptsAreRouted`): any numbers of callers, interrupts and lines. Between
  two accesses of a call the invariant says what the caller has read and whether it is still true
  (`NumberInv`, `FrameInv`), per controller what its registers have to do with the table
  (`PlicInv`, `MatrixInv`), and that no pool line is in use twice (`LinesInv`). `InterruptsAsBuilt` asks
  that the pool has none of the kernel's own lines (`lib.rs:631-636` of the esp32c6: 18 to 23, and
  16 and 17 for the tick and the reschedule).
* `PinsAreOwned` (`PinsObeyOwners`): any pins, however the accesses of their owners fall between
  each other's. For each pin, what its next access will do to what its type says, and that what it has
  read is still what the register holds where another owner could write it. `PinsAsBuilt` excludes
  that two pins behind one shared direction register are reconfigured at the same time: then it is
  false (section 5).

**Clocks and console** (`BoardProofs`), on `DevSpec` again.

* `ClocksStayTrue` (`ClocksAreTrue`): any number of readers, any width of the words, any tick
  period, and on the esp32s3 any wait of a tick, that together fit in one word (`ClocksAsBuilt`).
  The property itself exempts cores whose counters do not agree, and an Xtensa core from the moment
  its count has come round while its tick was a period late (`overslept`): in both cases it is false
  (section 5). A handler that is late by less, or by more without a wrap, is within the theorem. For
  a reader in the middle of a call, `Sampled` says that each word it has is that of an instant of
  the call and that these instants are in the order of the accesses; when the second reading of a
  word equals the first, the low word between them belongs to the same count. `Latched` is that for
  the systimer, whose two words come from the values latched by whoever asked last. `Widened` ties
  the software half of a 32-bit counter to the time of the last read, which is less than one wrap
  old because a tick reads too; `Rearmed` and `Compares` say how far a compare register is ahead of
  the time, or behind it while the handler is awaited, word by word for `mtimecmp`, modulo the width
  for `CCOMPARE1`. They rest on lemmas about quotients and remainders by an arbitrary width, which
  no backend finds alone.
* `ConsoleStaysTrue` (`ConsoleDelivers`): the five UARTs and the polling boards, any ring of at
  least two slots, any message lengths and any polling tasks. `ConsoleAsBuilt` has the writers on
  hart 0, which takes the UART's interrupt: otherwise it is false (section 5). `ConTurns`: the
  writer and the handler are never both between their reading of the head and their writing to the
  data register, and a ring found empty is empty. `ConBytes`: byte `b + 1` is in slot
  `b % TX_CAPACITY` from the head on, and what is sent or in the holding register ends just before the
  head, or one before it while a byte is in a hand. `ConWakes`: while bytes are left and the writer
  is out, the interrupt is enabled and its cause is there or follows when the holding register
  empties. The order on the wire is then a matter of joining stretches of numbers (`StretchesJoin`).
  `PollInv` is the polling boards': the messages so far are whole, except that the one in the
  critical section has yet to end.

Model-checked only:

* liveness (`InversionEnds`, `SectionEnds`, `WokenIsPolled`, `SleeperReturns`), which needs fairness
  and `ENABLED`;
* `WaiterIsRegistered` and `BoostLastsAsOwed`: the first is a one-hart result that needs the whole
  scheduler invariant beside the mutex's, the second compares a maximum over the waiters of all
  held mutexes with the effective priority at every step of an unlock;
* `JoinerIsWoken`: that the exit, or the joiner's look at it, is one critical section with the wake, or
  the block, is not enough: it needs that a blocked task takes no step, and so that a tick always
  finds another task;
* the start-up (`HandlersFindTheirState`, `HartsJoinABootedKernel`), whose value is in
  going through each board's script; its hazards are orders of few steps, which TLC enumerates.


## 5. What the models show beyond the claims

Three runs expect a violation.

* `sleeper_two_harts`: `sleep_until` blocks the task and registers its deadline in one
  critical section and leaves the task only in the interrupt after it. In between, a tick on
  another hart may find the deadline passed, unblock the task and dispatch it there: two harts
  execute it, on one stack. `on_tick`'s comment (`preempt/mod.rs:683`) says that the critical
  section closes the gap.
* `budget_period`: `wait_period` takes `busy_cycles(me)` as the start of the period, without the
  dispatch that is still running, so that a task is isolated for time it used in the period
  before (`deadlines.rs:114`, against the comment at `:33`).
* `secondary_deaf`: a RISC-V secondary hart never sets a bit of `mie` (`clint.rs:196` and
  `plic.rs:51` run on hart 0), so that no interrupt from another hart wakes it, which
  `clint.rs:211` requires. (The Xtensa port met the same and sets `INTENABLE` in
  `__rivet_arch_init`.)

The following were reached in the same models, or read in the code next to them, and are the
reason for the restrictions in section 3. They have no run. Those that a definition states are
named by it: it is in the module, and fails with the constants given.

Preemptive tier and mutex
* `preempt/mod.rs:590`. With two harts a sleeper whose hart finds nothing else to run comes
  back from `request_reschedule` while BLOCKED, cancels its deadline and returns; at its next
  preemption it is in no queue and has no deadline.
* `lib.rs:216`. `KERNEL_READY` is set before hart 0's first dispatch. If the secondary harts take
  every ready task, `start()` panics (`StartFindsATask`; `Bsps = {"esp32s3"}`).
* `preempt/sched.rs:165`. `ready_add` interrupts the other harts only. A spawn or a resume on a
  hart without a tick, of a task above its caller, is not noticed by that hart while the
  others are busy at higher priorities.
* `preempt/mod.rs:595`. `park_forever` outside a critical section: a tick between its accesses
  sees a bitmap bit over an empty queue, which `schedule` heals.
* `fault.rs:175`. `isolate` leaves the task's deadline registered; when it expires, the task is
  made READY and runs again. So does an unlock of a mutex it waited for: its registration stays in the
  list. `isolate` also dispatches the next task without a stamp (`:193`), which lets
  that task overtake a waiting one twice, and without charging the time of the one it leaves.
* `preempt/sched.rs:266`. Stamps are compared as integers. After the 32-bit counter wraps,
  tasks just dispatched look the oldest, and a waiting one is passed over for as long as the
  old stamps stay high.
* `preempt/mod.rs:214`. A sleeper woken before its hart has left it is READY and current; a
  pause makes it SUSPENDED while it runs. `preempt/sched.rs:201`. `Tcb::state` reads SUSPENDED as
  Ready, so boosting a paused holder puts it back into a queue.
* `preempt/mutex.rs:203`. `poison_mutex` wakes the waiters it finds. A locker that has looked at the flag
  (`:142`) and not yet registered gets `None` from `try_acquire_guarded` for the poison, as for a
  held mutex, and blocks on a mutex nobody will unlock, where `:51-53` says that `lock()` fails once the
  flag is set and `:328` that the waiters observe the poison. With a time-out it finds out at its
  deadline. (`PoisonIsHeard`; on one hart, with `BootTasks <- BootEqual` and `Timed = {}`.)
* `preempt/mutex.rs:215`. `try_acquire_guarded` reports a full held list as a failed attempt; `lock`
  then blocks on a mutex nobody has, and nothing wakes it. The rollback wakes nobody who registered
  meanwhile either, so that a waiter without a time-out sleeps beside a free mutex:
  `BoostLastsAsOwed` fails with `Triers = {1}`. `:206`: a holder isolated between the CAS and
  `push_held` leaves it locked and unpoisoned. `:232`: a waiter between the CAS and the store of the
  owner boosts nobody. `:305`: on two harts a blocked locker with nothing else to run registers once
  per round until the list is full.

Lifecycle and accounting
* `preempt/mod.rs:155`. `despawn` looks at this hart's current task only: another hart's task
  loses its slot and stack while it runs. `:182`. A despawned sleeper's deadline stays registered
  and queues the dead slot.
* `preempt/lifecycle.rs:145`. `isolate` sets no exit flag and wakes no joiner, so that a join of an
  isolated task never returns, where `:8-10` promises `JoinError::Faulted` (`FaultIsReported`). `:105`.
  The generation is compared once: if the slot is despawned and spawned again while its task is
  joined, the next task's exit ends the wait and its result is returned as the first one's, where
  `:11-12` promises `JoinError::Stale` and `:160-162` says that it should not happen
  (`ReadsItsOwnTask`).
* `preempt/lifecycle.rs:145`. A join on a task that is despawned while the joiner waits is never woken,
  unless its slot is used again. `:130`: a joiner that is itself isolated or despawned leaves its
  registration, and later joins of the same task are told `AlreadyJoined`.
* `preempt/mod.rs:182`. `despawn` publishes a slot as free, reads the slot's stack and pushes it on
  the free list, with interrupts enabled. A second task that spawns in between takes the slot, and
  the stack of the new task is released under it: `StacksDisjoint` fails with
  `Spawners = {1, 2}`, although `stack_pool.rs:144` says that interrupts are "logically disabled
  around spawn/despawn". `preempt/stack_pool.rs:163`: `FREE_LIST` and `NEXT` are read and written
  outside any critical section too. A spawn that finds the registry full does not give its stack
  back.
* `exec_time.rs:63`. One `LAST_DISPATCH` serves all harts: a task is charged with the time since
  any hart's last switch. Boundary and check-in are not reset when a slot is reused.
* `watchdog.rs:73`. A check-in at a multiple of 2^32 us stores 0, which opts the task out.

Async tier
* `waker.rs:163`. `next_ready` clears the last queue bit and then the priority's bit. A wake of
  another task of that priority in between sets a queue bit whose bitmap bit is then cleared.
  `waker.rs:152`: the healing of a bit over an empty queue does the same to a wake from
  another hart, even with one task per priority.
* `timer.rs:103`. A `Sleep` polled late keeps its handle; its cancel takes whatever registration
  has the slot by then and the same deadline (`CancelSparesOthers`). A late `Sleep` keeps its slot
  until the next tick, so that the queue fills with fewer sleepers than slots.
* `sync/semaphore.rs:139`. A waiter that registers, and checks again, between the end of a
  release's scan and its increment sleeps beside the token. `:214`: a release may hand its
  token to an acquirer that has just succeeded. `:126`: the count is stored, so two
  hand-overs leave one token and a `try_acquire` may take it first.
* `sync/signal.rs:161`. A stale ready mark polls a wait that is still registered; the debug
  assertion takes the task's own id for a second waiter.

Ports
* Cortex-M and Cortex-M0: `start_first_task` leaves `lr` as it was, so that a first task that
  returns does not reach `rivet_task_exit` (`ReturnReachesExit`); every other task's frame has it.
* Xtensa on two cores: `start_first_task` is given the `sp` of a task that has already been
  interrupted on the other core, which is no bootstrap record (`StartsFromBootstrap`). And the handler
  of one core works next to the frame on the interrupted task's stack until it returns, while that task
  is ready from the decision on: the other core can resume it and overwrite the frame
  (`ResumesWhereItStopped` with `Boards <- TwoCores`).

* `rivet-arch-cortex-m/src/mpu.rs:159-178`. A MemManage taken inside PendSV, whose `stmia` reaches
  below a task's stack, returns into PendSV with the next task's `psp` and region 7, but with the
  `r0` the exception saved: the store is tried again at the same address, which is not in the next
  task's stack either, and that task is isolated too (`StmiaFaults`).

Drivers and board services
* `rivet-arch-riscv/src/clint.rs:251`. The next tick is armed at the later of the last one plus a
  period and *now* plus a period, which is always the second: the cadence drifts by the handler's
  latency although the comment above says it does not (`TicksKeepCadence`).
* `rivet-bsp-stm32f401re/src/i2c.rs:209`. `ACK` is cleared before the last byte is waited for, not
  before the one before it is read, against `:15`: the slave may send one byte more
  (`LastByteIsNacked`). A transfer that is dropped, or ended by a bus error, leaves an interrupt enabled
  that ends the next transfer's wait early: it then writes the address without a start condition
  (`AddressFollowsStart`). `:153`: the polling trait looks for `AF` and `ADDR` only, and spins for ever
  if the bus is lost during the address. `:222`: a read that fails returns without a STOP.
* `rivet-bsp-support/src/pl022.rs:139` unmasks `RXIM` only: a transfer below the FIFO's level
  relies on an interrupt that is never unmasked (see `:22`). A `Lengths` value below `RX_LEVEL`
  shows it.
* `rivet-bsp-stm32f401re/src/wait.rs:144`. `wait_for_high` and `wait_for_low` look at the pin
  before they arm the edge: a change in between is slept through (`LevelIsHeard`).
* `sw_watchdog.rs:43`. A tick while the dog is being armed sees the deadline of before and may be
  early by more than a tick (`NeverWildlyWrong`, against `:10-15`). `init(0)` does not stop a
  hardware dog; the stm32f401 and rp2040 shorten a period their register cannot hold, lm3s6965
  and mps2 cut it to 32 bits and reset at the second time-out only.
* `console.rs:163`. A ring that was full and is empty ends the loop for that byte, which is lost,
  where the comment says "retry"; only a writer on a hart that does not take the UART's
  interrupt meets it, and its pops race the handler's (`WriterHarts = {0, 1}`).
* `gpio.rs` of the stm32f401re and the lm3s6965 read and write back a direction register that the
  pins of a port share (`TogetherAllowed = TRUE`).
* `plic.rs`, and the esp32c6's line pool: `enable` and `disable` read and write back a shared
  word; a call for an id without a source still claims a line.
* `rivet-arch-xtensa/src/timer.rs:96`. The handler arms the larger of the last compare value plus a
  period and *now* plus a period, but both are 32-bit values that may have wrapped. If the handler is
  late by a period and the count wraps between the two, the larger is the one that has not wrapped,
  which is past: there is no tick for 2^32 cycles, where the comment at `:92` promises that late ticks
  are coalesced (`LateTickIsCoalesced`).
* `systick.rs:118`. Where the tick is pending and masked, both reads of the count are old:
  `now_micros_precise` may go backwards by a period. Where it is masked for longer than a period, all
  but one of the ticks are lost, and the clock is behind from then on.
  `rivet-bsp-esp32s3/src/lib.rs:367`. One `LAST_CCOUNT` serves two cores' counters: unless they agree, a
  read on one after the other looks like a wrap (`Lag <- MCLagged`).


## 6. Not modelled, and the plan

Not modelled because there is no protocol in them: formatting, report, trace and latency
histograms, `Once` and the log ring (halves of which are `Channel` and `Critical`), delays, macros,
the host port for unit tests, and `xtask` and the scripts, which run on the development host.
Register values, clock trees and the USB device's protocol are left out of `Boot`, the PMP and the
windows' spilling out of the ports. Weak memory is outside all modules.

Next, in this order: proofs of `WaiterIsRegistered` and then `BoostLastsAsOwed` on one hart, on
`TasksProofs`' mutex invariant with the `Placed` of its lifecycle part; of `JoinerIsWoken`; of the
start-up scripts.
