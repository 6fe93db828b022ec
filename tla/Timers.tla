------------------------------- MODULE Timers -------------------------------
(***************************************************************************)
(* The executor with time::Sleep and the timer queue behind it (timer.rs,  *)
(* time.rs).  A Sleeper's program sleeps in a loop and may race the sleep  *)
(* against something else: woken for another reason it may drop a pending  *)
(* Sleep.  The clock runs on between two ticks, so that a task may be      *)
(* polled after its deadline and before the tick that finds it expired.    *)
(***************************************************************************)
EXTENDS Executor

CONSTANTS Sleepers,     \* tasks that sleep
          Micros,       \* the lengths of their sleeps
          MAX_TIMERS,   \* slots of the timer queue
          TIME_BOUND    \* bound on the clock

ASSUME TimersAssumption ==
  /\ Sleepers \subseteq Tasks
  /\ Micros \subseteq Nat \ {0}
  /\ MAX_TIMERS \in Nat \ {0} /\ TIME_BOUND \in Nat

VARIABLES now,     \* the board's clock
          slots,   \* TIMER_SLOTS; deadline 0 is a free slot
          sleep,   \* each task's Sleep: deadline 0 before its first poll; late
                   \* if it was registered after its deadline had passed
          due      \* the deadline register_deadline is called with

timervars == <<now, slots, sleep, due>>

Slots == 0..(MAX_TIMERS - 1)

FreeSlot == [deadline |-> 0, task |-> NONE]

NoSleep == [deadline |-> 0, slot |-> NONE, late |-> FALSE]

TimerInit ==
  /\ Init
  /\ now = 0 /\ due = 0
  /\ slots = [i \in Slots |-> FreeSlot]
  /\ sleep = [t \in Sleepers |-> NoSleep]

Asleep(t) == sleep[t] # NoSleep

-----------------------------------------------------------------------------
\* Sleep::poll, first: the deadline, from the clock ...
SleepStart(m) ==
  /\ pc = "poll" /\ cur \in Sleepers \ completed
  /\ ~Asleep(cur)
  /\ now + m <= TIME_BOUND
  /\ due' = now + m
  /\ pc' = "register"
  /\ UNCHANGED <<queue, bitmap, pend, prio, id, cur, completed, live, owed, wakervars,
                 now, slots, sleep>>

\* ... and the first free slot, or the panic of a full queue.  Pending.
Register ==
  LET free == {i \in Slots : slots[i].deadline = 0}
  IN  /\ pc = "register"
      /\ IF free = {}
         THEN pc' = "panic" /\ UNCHANGED <<slots, sleep, cur>>
         ELSE /\ slots' = [slots EXCEPT ![Least(free)] = [deadline |-> due, task |-> cur]]
              /\ sleep' = [sleep EXCEPT ![cur] =
                             [deadline |-> due, slot |-> Least(free), late |-> now >= due]]
              /\ cur' = NONE
              /\ pc' = "load_bitmap"
      /\ due' = 0
      /\ UNCHANGED <<queue, bitmap, pend, prio, id, completed, live, owed, wakervars, now>>

\* A later poll that finds the deadline passed: Ready.  The slot is left as it
\* is, whether the tick has freed it or not.
SleepReady ==
  /\ pc = "poll" /\ cur \in Sleepers
  /\ Asleep(cur) /\ now >= sleep[cur].deadline
  /\ sleep' = [sleep EXCEPT ![cur] = NoSleep]
  /\ UNCHANGED <<vars, now, slots, due>>

\* The handle's slot is freed whoever has it now.
Cancelled_Bad(handle) == [slots EXCEPT ![handle.slot] = FreeSlot]

\* cancel_deadline: only if the slot still has the handle's deadline.
Cancelled(handle) ==
  IF slots[handle.slot].deadline = handle.deadline
  THEN [slots EXCEPT ![handle.slot] = FreeSlot]
  ELSE slots

\* A Sleep that has not returned is dropped.
SleepDrop ==
  /\ pc = "poll" /\ cur \in Sleepers
  /\ Asleep(cur)
  /\ slots' = Cancelled(sleep[cur])
  /\ sleep' = [sleep EXCEPT ![cur] = NoSleep]
  /\ UNCHANGED <<vars, now, due>>

\* The rest of a poll: a pending Sleep keeps the task Pending.
TimerPoll(W, result) ==
  /\ cur \in Sleepers /\ Asleep(cur) => result = "Pending" /\ now < sleep[cur].deadline
  /\ Poll(W, result)
  /\ UNCHANGED timervars

\* poll_timers in the tick: free the expired slots and wake their tasks.
Expired == {i \in Slots : slots[i].deadline # 0 /\ now >= slots[i].deadline}

\* A slot is found expired only after its deadline.
Tick_Bad ==
  LET E == {i \in Slots : slots[i].deadline # 0 /\ now > slots[i].deadline}
      W == {slots[i].task : i \in E}
  IN  /\ E # {} \/ pc = "idle"
      /\ slots' = [i \in Slots |-> IF i \in E THEN FreeSlot ELSE slots[i]]
      /\ mark_ready_all(W)
      /\ owed' = owed \cup W
      /\ pc' = IF pc = "idle" THEN "clear_pend" ELSE pc
      /\ UNCHANGED <<prio, id, cur, completed, live, wakervars, now, sleep, due>>

Tick ==
  LET W == {slots[i].task : i \in Expired}
  IN  /\ Expired # {} \/ pc = "idle"
      /\ slots' = [i \in Slots |-> IF i \in Expired THEN FreeSlot ELSE slots[i]]
      /\ mark_ready_all(W)
      /\ owed' = owed \cup W
      /\ pc' = IF pc = "idle" THEN "clear_pend" ELSE pc
      /\ UNCHANGED <<prio, id, cur, completed, live, wakervars, now, sleep, due>>

Clock ==
  /\ now < TIME_BOUND
  /\ now' = now + 1
  /\ UNCHANGED <<vars, slots, sleep, due>>

TimerStep ==
  \/ LoopStep /\ UNCHANGED timervars
  \/ (\E W \in WakeSets, result \in {"Ready", "Pending"} : TimerPoll(W, result))
  \/ (\E m \in Micros : SleepStart(m)) \/ Register \/ SleepReady \/ SleepDrop

\* The panic ends the program.
TimerNext ==
  /\ pc # "panic"
  /\ \/ TimerStep \/ Tick \/ Clock
     \/ (\E r \in Remote : RemoteStep(r)) /\ UNCHANGED timervars
     \/ (\E W \in WakeSets : Irq(W)) /\ UNCHANGED timervars

\* The executor and the remote wakers keep executing, time passes, and the tick
\* keeps coming.
TimerFairness ==
  LET all == <<vars, timervars>>
  IN  /\ WF_all(TimerStep) /\ WF_all(Clock) /\ WF_all(Tick)
      /\ \A r \in Remote : WF_all((RemoteBitmap(r) \/ RemoteFlag(r)) /\ UNCHANGED timervars)

TimerSpec == TimerInit /\ [][TimerNext]_<<vars, timervars>> /\ TimerFairness

-----------------------------------------------------------------------------
\* The registration that task t waits for is in place, or t has been woken.
Heard(t) ==
  \/ slots[sleep[t].slot] = [deadline |-> sleep[t].deadline, task |-> t]
  \/ t \in owed \/ cur = t

\* A task in a pending Sleep that was registered in time still is, or has been
\* woken: neither a late poll nor the cancel of a stale handle, whose slot
\* another task has taken, drops its registration.
SleeperIsHeard == \A t \in Sleepers : Asleep(t) /\ ~sleep[t].late => Heard(t)

\* The same of every Sleep, as cancel_deadline's comment says: a cancelled Sleep
\* does not free a new registration that reused its slot.
CancelSparesOthers == \A t \in Sleepers : Asleep(t) => Heard(t)

\* A slot whose deadline lies ahead belongs to a Sleep that is pending: dropped
\* sleeps and recycled slots leave none behind ([B7] in Sleep's docs).
AheadIsOwned ==
  \A i \in Slots : slots[i].deadline > now =>
    LET s == sleep[slots[i].task] IN s.deadline = slots[i].deadline /\ s.slot = i

\* What a later poll depends on is in place: the wake that was given, the timer
\* slot of a sleep, and no slot that would wake somebody for nothing.
WakesAreKept == WakeNotLost /\ SleeperIsHeard /\ AheadIsOwned

\* Every woken task of that kind is polled, or skipped because it has completed,
\* although the executor may go idle just before the wake; unless a full timer
\* queue has ended the program.
WokenIsPolled == \A t \in Sheltered : t \in owed ~> t \notin owed \/ pc = "panic"

\* Every Sleep of such a task that was registered in time ends, unless
\* the queue was full for one.
SleeperReturns ==
  \A t \in Sheltered \cap Sleepers :
    Asleep(t) ~> ~Asleep(t) \/ sleep[t].late \/ pc = "panic"

=============================================================================
