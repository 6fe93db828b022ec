----------------------------- MODULE Accounting -----------------------------
(***************************************************************************)
(* Time in the preemptive tier of one hart: who is charged for it          *)
(* (exec_time.rs), periods and CPU budgets (deadlines.rs) and the check-in *)
(* watchdog (watchdog.rs).  One cycle is one microsecond, so that the rate *)
(* estimate_us_from_cycles measures is 1.                                  *)
(***************************************************************************)
EXTENDS Preempt

CONSTANTS PERIOD,       \* set_period_us of each Sleeper, which calls wait_period
          BUDGET,       \* set_budget_us of each Faulter
          Checkers,     \* tasks whose program calls watchdog::checkin
          TIMEOUT,      \* enable_checkins' timeout, below U32
          U32,          \* the modulus of the truncated time
          TIME_BOUND    \* bound on the clock

VARIABLES now,      \* the clock
          busy,     \* BUSY_CYCLES
          last,     \* LAST_DISPATCH
          slot,     \* SLOTS: next_us and budget_start_cycles
          dl,       \* the deadlines in PTASK_DEADLINES
          going,    \* tasks between wait_period's two critical sections
          checkin,  \* last_checkin, 0 for never
          alarm,    \* the check-in watchdog has reset the board
          truth     \* what really happened: time run, and at the start of this
                    \* period, the first wait_period, waits over, last check-in

accvars == <<busy, last, slot, dl, going, checkin, alarm, truth>>

AccInit ==
  /\ Init
  /\ now = 1 /\ last = 0 /\ alarm = FALSE /\ going = {}
  /\ busy = [t \in Tasks |-> 0]
  /\ slot = [t \in Sleepers |-> [next |-> 0, start |-> 0]]
  /\ dl = [t \in Sleepers |-> 0]
  /\ checkin = [t \in Tasks |-> 0]
  /\ truth = [ran    |-> [t \in Tasks |-> 0],
              start  |-> [t \in Sleepers |-> 0],
              anchor |-> [t \in Sleepers |-> 0],
              jobs   |-> [t \in Sleepers |-> 0],
              heard  |-> [t \in Tasks |-> 0]]

-----------------------------------------------------------------------------
\* Time passes for whoever runs.
Clock ==
  /\ now < TIME_BOUND
  /\ now' = now + 1
  /\ truth' = [truth EXCEPT !.ran = [t \in Tasks |->
                 @[t] + IF t = k.current[0] THEN 1 ELSE 0]]
  /\ UNCHANGED <<vars, busy, last, slot, dl, going, checkin, alarm>>

\* on_first_dispatch
AccStart(h) ==
  /\ Start(h)
  /\ last' = now
  /\ UNCHANGED <<now, busy, slot, dl, going, checkin, alarm, truth>>

\* check_task_checkins: zero is compared like any other time.
Silent_Bad(t) == t \in k.used /\ (now - checkin[t]) % U32 > TIMEOUT

\* check_task_checkins, in 32 bits of the time.
Silent(t) ==
  t \in k.used /\ checkin[t] # 0 /\ (now - checkin[t]) % U32 > TIMEOUT

\* The timer interrupt: the watchdog's check and poll_ptask_deadlines.
AccTick(h) ==
  /\ Tick(h)
  /\ armed' = {t \in armed : dl[t] > now}
  /\ alarm' = \E t \in Tasks : Silent(t)
  /\ UNCHANGED <<now, busy, last, slot, dl, going, checkin, truth>>

\* Only completed dispatches are counted.
Used_Bad(t) == busy[t] - slot[t].start

\* busy_cycles_live(t), less the snapshot at the period's start.
Used(t) == busy[t] + (now - last) - slot[t].start

\* check_budget, for a task that is still RUNNING.
OverBudget(t) == t \in Faulters /\ k.state[t] = "RUNNING" /\ Used(t) > BUDGET

\* exec_time::on_switch
OnSwitch(t) == busy' = [busy EXCEPT ![t] = @ + (now - last)] /\ last' = now

\* on_tick_locked: the switch is accounted; a candidate is needed before the
\* budget is looked at.
AccOnTick(h) ==
  /\ OnTick(h)
  /\ schedule(k) = NO_TASK \/ ~OverBudget(k.current[h])
  /\ IF k'.current[h] # k.current[h]
     THEN OnSwitch(k.current[h])
     ELSE UNCHANGED <<busy, last>>
  /\ UNCHANGED <<now, slot, dl, going, checkin, alarm, truth>>

\* BudgetExceeded, under the Isolate policy: the switch is not accounted.
AccFault(h) ==
  /\ OnTickFault(h)
  /\ OverBudget(k.current[h])
  /\ UNCHANGED <<now, accvars>>

-----------------------------------------------------------------------------
\* The deadline is counted from the time of the call.
NextBoundary_Bad(t) == now + PERIOD

\* wait_period's next boundary: from the previous one, or from the first call.
NextBoundary(t) == (IF slot[t].next = 0 THEN now ELSE slot[t].next) + PERIOD

\* wait_period: the boundary and the budget's snapshot, of completed dispatches ...
WaitPeriod(h, t) ==
  /\ t \in Sleepers \ going
  /\ At(h, t, "run")
  /\ slot' = [slot EXCEPT ![t] = [next |-> NextBoundary(t), start |-> busy[t]]]
  /\ going' = going \cup {t}
  /\ truth' = [truth EXCEPT !.start[t] = truth.ran[t],
                            !.anchor[t] = IF slot[t].next = 0 THEN now ELSE @]
  /\ UNCHANGED <<vars, now, busy, last, dl, checkin, alarm>>

\* ... and sleep_until it.
AccSleepBegin(h, t) ==
  /\ t \in going
  /\ SleepBegin(h, t)
  /\ dl' = [dl EXCEPT ![t] = slot[t].next]
  /\ UNCHANGED <<now, busy, last, slot, going, checkin, alarm, truth>>

AccSleepEnd(h, t) ==
  /\ SleepEnd(h, t)
  /\ going' = going \ {t}
  /\ truth' = [truth EXCEPT !.jobs[t] = @ + 1]
  /\ UNCHANGED <<now, busy, last, slot, dl, checkin, alarm>>

\* checkin()
Checkin(h, t) ==
  /\ t \in Checkers \ going
  /\ At(h, t, "run")
  /\ checkin' = [checkin EXCEPT ![t] = now % U32]
  /\ truth' = [truth EXCEPT !.heard[t] = now]
  /\ UNCHANGED <<vars, now, busy, last, slot, dl, going, alarm>>

\* The other steps of tasks and harts.
Rest(h, t) ==
  /\ SleepResched(h, t) \/ (t \notin going /\ YieldNow(h, t))
  /\ UNCHANGED <<now, accvars>>

AccTaskStep(h, t) ==
  \/ WaitPeriod(h, t) \/ AccSleepBegin(h, t) \/ AccSleepEnd(h, t)
  \/ Checkin(h, t) \/ Rest(h, t)

\* A reset ends the program.
AccNext ==
  /\ ~alarm
  /\ \/ Clock
     \/ Run /\ UNCHANGED <<now, accvars>>
     \/ \E h \in Harts : \/ AccStart(h) \/ AccTick(h) \/ AccOnTick(h) \/ AccFault(h)
                         \/ \E t \in Tasks : AccTaskStep(h, t)

AccSpec == AccInit /\ [][AccNext]_<<vars, now, accvars>>

-----------------------------------------------------------------------------

\* Waits end at the n-th boundary after the first call and never before it,
\* however late the task called and however late the tick was (no drift).
PeriodsDoNotDrift ==
  \A t \in Sleepers : slot[t].next # 0 =>
    LET n == truth.jobs[t] + IF t \in going THEN 1 ELSE 0
    IN  /\ slot[t].next = truth.anchor[t] + n * PERIOD
        /\ now >= truth.anchor[t] + truth.jobs[t] * PERIOD

\* A task that has used more than its budget since its period began does not
\* get past the next scheduling decision, if there is another task to run.
BudgetEnforced ==
  [][\A t \in Faulters \cap Sleepers :
       /\ isr[0] = "on_tick" /\ isr'[0] = "none"
       /\ k.current[0] = t /\ k.state[t] = "RUNNING" /\ schedule(k) # NO_TASK
       /\ truth.ran[t] - truth.start[t] > BUDGET
       => t \in faulted' \/ halted']_<<vars, now, accvars>>

\* The same the other way round, as check_budget's docs have it: a task is
\* isolated only for the time it has used in its current period.
BudgetIsThisPeriods ==
  [][\A t \in faulted' \ faulted : truth.ran[t] - truth.start[t] > BUDGET]_<<vars, now, accvars>>

\* The board is reset only if some task that checked in once has been silent
\* for longer than the timeout, whatever the 32-bit time wraps to.
NoFalseAlarm ==
  alarm => \E t \in Checkers : truth.heard[t] # 0 /\ now - truth.heard[t] > TIMEOUT

=============================================================================
