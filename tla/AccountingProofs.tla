-------------------------- MODULE AccountingProofs --------------------------
(***************************************************************************)
(* Periods, budgets and check-ins on a board with one hart, for every      *)
(* period, budget, timeout and width of the truncated time, every set of   *)
(* tasks and every policy of who yields when.                              *)
(*                                                                         *)
(* Every step of Accounting is a step of Preempt or leaves Preempt's       *)
(* variables alone, so that Preempt's invariants hold of it.  What the     *)
(* accounts add is that                                                    *)
(*   - a periodic task's deadline is the boundary it waits for, and once   *)
(*     it is disarmed the clock has reached it;                            *)
(*   - what a task has run since its period began is at most what          *)
(*     busy_cycles_live would tell check_budget;                           *)
(*   - a task's last_checkin is the time of its check-in, truncated.       *)
(***************************************************************************)
EXTENDS Accounting, PreemptProofs

avars == <<vars, now, accvars>>

\* Every step of the accounts is one of the preemptive tier, or none.
LEMMA AccStep ==
  ASSUME [AccNext]_avars
  PROVE  [Next]_vars
<1>1. CASE UNCHANGED avars \/ Clock
  BY <1>1 DEF avars, Clock
<1>2. CASE Run
  BY <1>2 DEF Next
<1>3. ASSUME NEW h \in Harts, AccStart(h) \/ AccTick(h) \/ AccOnTick(h) \/ AccFault(h)
      PROVE  Next
  BY <1>3 DEF AccStart, AccTick, AccOnTick, AccFault, Next, HartStep
<1>4. ASSUME NEW h \in Harts, NEW t \in Tasks, AccTaskStep(h, t)
      PROVE  UNCHANGED vars \/ TaskStep(h, t)
  BY <1>4 DEF AccTaskStep, WaitPeriod, AccSleepBegin, AccSleepEnd, Checkin, Rest, TaskStep
<1>. QED
  BY <1>1, <1>2, <1>3, <1>4 DEF AccNext, Next, HartStep

\* The accounts on top of the tier implement the tier.
THEOREM AccountsRefine == AccSpec => Spec
<1>1. AccInit => Init
  BY DEF AccInit
<1>2. [AccNext]_avars => [Next]_vars
  BY AccStep
<1>. QED
  BY <1>1, <1>2, PTL DEF AccSpec, Spec, avars

\* The invariants of the tier that the accounts need.
TierInv == IInv /\ SleepInv

LEMMA AccTier ==
  ASSUME MAX_HARTS = 1, Sleepers \cap Parkers = {}
  PROVE  AccSpec => []TierInv
<1>1. IInv /\ SleepInv /\ [Next]_vars => SleepInv'
  BY NextSleep
<1>2. Init => SleepInv
  BY InitSleep
<1>3. Spec => []IInv
  BY Invariance
<1>4. Spec => []SleepInv
  BY <1>1, <1>2, <1>3, PTL DEF Spec
<1>. QED
  BY <1>3, <1>4, AccountsRefine, PTL DEF TierInv

-----------------------------------------------------------------------------
\* The type of the accounts; no dispatch is in the future.
AccType ==
  /\ now \in Nat \ {0} /\ last \in Nat /\ last <= now
  /\ busy \in [Tasks -> Nat]
  /\ slot \in [Sleepers -> [next : Nat, start : Nat]]
  /\ dl \in [Sleepers -> Nat]
  /\ going \subseteq Sleepers
  /\ checkin \in [Tasks -> Nat]
  /\ alarm \in BOOLEAN
  /\ truth \in [ran : [Tasks -> Nat], start : [Sleepers -> Nat], anchor : [Sleepers -> Nat],
                jobs : [Sleepers -> Nat], heard : [Tasks -> Nat]]
  /\ \A t \in Tasks : pc[t] \in {"resched", "cancel"} => t \in going

\* The parameters of the accounts, as the calls that set them take them.
Parameters ==
  PERIOD \in Nat \ {0} /\ U32 \in Nat \ {0} /\ BUDGET \in Nat /\ TIMEOUT \in Nat

LEMMA InitAccType == AccInit => AccType
<1>. SUFFICES ASSUME AccInit PROVE AccType
  OBVIOUS
<1>1. pc = [t \in Tasks |-> "run"]
  BY DEF AccInit, Init
<1>2. [t \in Sleepers |-> [next |-> 0, start |-> 0]] \in [Sleepers -> [next : Nat, start : Nat]]
  OBVIOUS
<1>3. /\ [t \in Tasks |-> 0] \in [Tasks -> Nat]
      /\ [t \in Sleepers |-> 0] \in [Sleepers -> Nat]
  OBVIOUS
<1>4. truth \in [ran : [Tasks -> Nat], start : [Sleepers -> Nat], anchor : [Sleepers -> Nat],
                 jobs : [Sleepers -> Nat], heard : [Tasks -> Nat]]
  BY <1>3 DEF AccInit
<1>a. now = 1 /\ last = 0 /\ alarm = FALSE /\ going = {}
  BY Zenon DEF AccInit
<1>5. /\ now \in Nat \ {0} /\ last \in Nat /\ last <= now /\ alarm \in BOOLEAN
      /\ going \subseteq Sleepers
  <2>1. alarm \in BOOLEAN
    BY <1>a, Zenon
  <2>. QED
    BY <1>a, <2>1
<1>6. /\ busy \in [Tasks -> Nat] /\ checkin \in [Tasks -> Nat] /\ dl \in [Sleepers -> Nat]
      /\ slot \in [Sleepers -> [next : Nat, start : Nat]]
  BY <1>2, <1>3, Zenon DEF AccInit
<1>. QED
  BY <1>1, <1>4, <1>5, <1>6 DEF AccType

LEMMA NextAccType ==
  ASSUME Parameters, IInv, AccType, [AccNext]_avars
  PROVE  AccType'
<1>. USE DEF AccType, Parameters
<1>. Sleepers \subseteq Tasks /\ k \in KType /\ pc \in [Tasks -> PcLabels]
  BY PreemptAssumption DEF IInv, KInv, TypeOK
<1>. k.current \in [Harts -> Tasks \cup {NO_TASK}]
  BY DEF KType
<1>1. CASE UNCHANGED avars
  BY <1>1 DEF avars, vars, accvars
<1>2. CASE Clock
  <2>. DEFINE R == [t \in Tasks |-> truth.ran[t] + IF t = k.current[0] THEN 1 ELSE 0]
  <2>1. R \in [Tasks -> Nat]
    OBVIOUS
  <2>2. truth' = [truth EXCEPT !.ran = R]
    BY <1>2 DEF Clock
  <2>. HIDE DEF R
  <2>. QED
    BY <1>2, <2>1, <2>2 DEF Clock, vars
<1>3. CASE Run /\ UNCHANGED <<now, accvars>>
  BY <1>3 DEF Run, accvars
<1>4. ASSUME NEW h \in Harts, AccStart(h) \/ AccTick(h) \/ AccFault(h) PROVE AccType'
  <2>1. pc' = pc /\ UNCHANGED <<now, busy, slot, dl, going, checkin, truth>>
    BY <1>4 DEF AccStart, AccTick, AccFault, Start, Tick, OnTickFault, accvars
  <2>2. alarm' \in BOOLEAN
    BY <1>4 DEF AccStart, AccTick, AccFault, accvars
  <2>3. last' = last \/ last' = now
    BY <1>4 DEF AccStart, AccTick, AccFault, accvars
  <2>. QED
    BY <2>1, <2>2, <2>3
<1>5. ASSUME NEW h \in Harts, AccOnTick(h) PROVE AccType'
  <2>0. pc' = pc /\ UNCHANGED <<now, slot, dl, going, checkin, alarm, truth>>
    BY <1>5 DEF AccOnTick, OnTick
  <2>1. CASE UNCHANGED <<busy, last>>
    BY <2>0, <2>1
  <2>2. CASE OnSwitch(k.current[h])
    <3>0. now - last \in Nat
      OBVIOUS
    <3>1. [busy EXCEPT ![k.current[h]] = @ + (now - last)] \in [Tasks -> Nat]
      <4>. DEFINE c == k.current[h]
                  d == now - last
      <4>. HIDE DEF c, d
      <4>1. CASE c \in Tasks
        <5>1. d \in Nat
          BY <3>0 DEF d
        <5>2. [busy EXCEPT ![c] = @ + d] \in [Tasks -> Nat]
          BY <4>1, <5>1
        <5>. QED
          BY <5>2 DEF c, d
      <4>2. CASE c \notin Tasks
        <5>1. [busy EXCEPT ![c] = @ + d] = busy
          BY <4>2
        <5>. QED
          BY <5>1 DEF c, d
      <4>. QED
        BY <4>1, <4>2
    <3>. QED
      BY <2>0, <2>2, <3>1 DEF OnSwitch
  <2>. QED
    BY <1>5, <2>1, <2>2 DEF AccOnTick
<1>6. ASSUME NEW h \in Harts, NEW t \in Tasks, WaitPeriod(h, t) PROVE AccType'
  <2>1. NextBoundary(t) \in Nat /\ t \in Sleepers
    BY <1>6 DEF NextBoundary, WaitPeriod
  <2>2. /\ [truth.start EXCEPT ![t] = truth.ran[t]] \in [Sleepers -> Nat]
        /\ [truth.anchor EXCEPT ![t] = IF slot[t].next = 0 THEN now ELSE @]
             \in [Sleepers -> Nat]
    BY <2>1
  <2>3. truth' \in [ran : [Tasks -> Nat], start : [Sleepers -> Nat], anchor : [Sleepers -> Nat],
                    jobs : [Sleepers -> Nat], heard : [Tasks -> Nat]]
    BY <1>6, <2>2 DEF WaitPeriod
  <2>. QED
    BY <1>6, <2>1, <2>3 DEF WaitPeriod, vars
<1>7. ASSUME NEW h \in Harts, NEW t \in Tasks, AccSleepBegin(h, t) PROVE AccType'
  BY <1>7 DEF AccSleepBegin, SleepBegin
<1>8. ASSUME NEW h \in Harts, NEW t \in Tasks, AccSleepEnd(h, t) PROVE AccType'
  <2>1. t \in Sleepers /\ pc' = [pc EXCEPT ![t] = "run"]
    BY <1>8 DEF AccSleepEnd, SleepEnd, At
  <2>2. [truth.jobs EXCEPT ![t] = @ + 1] \in [Sleepers -> Nat]
    BY <2>1
  <2>. QED
    BY <1>8, <2>1, <2>2 DEF AccSleepEnd
<1>9. ASSUME NEW h \in Harts, NEW t \in Tasks, Checkin(h, t) PROVE AccType'
  <2>1. now % U32 \in Nat
    OBVIOUS
  <2>2. [truth.heard EXCEPT ![t] = now] \in [Tasks -> Nat]
    OBVIOUS
  <2>. QED
    BY <1>9, <2>1, <2>2 DEF Checkin, vars
<1>10. ASSUME NEW h \in Harts, NEW t \in Tasks, Rest(h, t) PROVE AccType'
  <2>1. UNCHANGED <<now, accvars>>
    BY <1>10 DEF Rest
  <2>2. pc' = pc \/ (pc[t] = "resched" /\ pc' = [pc EXCEPT ![t] = "cancel"])
    BY <1>10 DEF Rest, SleepResched, YieldNow, At
  <2>. QED
    BY <2>1, <2>2 DEF accvars
<1>. QED
  BY <1>1, <1>2, <1>3, <1>4, <1>5, <1>6, <1>7, <1>8, <1>9, <1>10 DEF AccNext, AccTaskStep

-----------------------------------------------------------------------------
\* A task's boundaries, counted from the anchor; and the deadline it waits for
\* is the boundary, which the clock has reached once the tick has disarmed it.
Drift(t) ==
  /\ slot[t].next = 0 => truth.jobs[t] = 0 /\ t \notin going
  /\ slot[t].next # 0 =>
       /\ slot[t].next = truth.anchor[t]
                           + (truth.jobs[t] + IF t \in going THEN 1 ELSE 0) * PERIOD
       /\ now >= truth.anchor[t] + truth.jobs[t] * PERIOD
  /\ pc[t] \in {"resched", "cancel"} =>
       dl[t] = slot[t].next /\ (t \in armed \/ dl[t] <= now)

DriftInv == \A t \in Sleepers : Drift(t)

\* A step that leaves the account of task t alone.
LEMMA DriftFrame ==
  ASSUME AccType, NEW t \in Sleepers, Drift(t), now' \in Nat, now' >= now, PERIOD \in Nat,
         slot'[t] = slot[t], dl'[t] = dl[t], t \in going' <=> t \in going,
         truth'.anchor[t] = truth.anchor[t], truth'.jobs[t] = truth.jobs[t],
         pc'[t] \in {"resched", "cancel"} => pc[t] \in {"resched", "cancel"},
         t \in armed => t \in armed' \/ dl[t] <= now
  PROVE  Drift(t)'
<1>. DEFINE a == truth.anchor[t] + truth.jobs[t] * PERIOD
<1>1. a \in Nat /\ dl[t] \in Nat /\ now \in Nat
  <2>1. truth.anchor[t] \in Nat /\ truth.jobs[t] \in Nat
    BY DEF AccType
  <2>2. truth.jobs[t] * PERIOD \in Nat
    BY <2>1
  <2>. QED
    BY <2>1, <2>2 DEF AccType
<1>2. a' = a
  OBVIOUS
<1>3. now >= a => now' >= a
  BY <1>1
<1>4. dl[t] <= now => dl[t] <= now'
  BY <1>1
<1>. QED
  BY <1>2, <1>3, <1>4 DEF Drift

\* Every step keeps every task's account of its boundaries.
LEMMA NextDrift ==
  ASSUME Parameters, TierInv, AccType, DriftInv, [AccNext]_avars
  PROVE  DriftInv'
<1>. /\ PERIOD \in Nat /\ Sleepers \subseteq Tasks
     /\ pc \in [Tasks -> PcLabels] /\ now \in Nat
     /\ truth \in [ran : [Tasks -> Nat], start : [Sleepers -> Nat], anchor : [Sleepers -> Nat],
                   jobs : [Sleepers -> Nat], heard : [Tasks -> Nat]]
  BY PreemptAssumption DEF Parameters, TierInv, IInv, TypeOK, AccType
<1>. SUFFICES ASSUME NEW u \in Sleepers PROVE Drift(u)'
  BY DEF DriftInv
<1>. Drift(u) /\ u \in Tasks
  BY DEF DriftInv
<1>1. CASE UNCHANGED avars
  BY <1>1, DriftFrame DEF avars, vars, accvars
<1>2. CASE Clock
  <2>. DEFINE R == [t \in Tasks |-> truth.ran[t] + IF t = k.current[0] THEN 1 ELSE 0]
  <2>1. truth' = [truth EXCEPT !.ran = R]
    BY <1>2 DEF Clock
  <2>. HIDE DEF R
  <2>2. truth'.anchor = truth.anchor /\ truth'.jobs = truth.jobs
    BY <2>1
  <2>3. now' \in Nat /\ now' >= now /\ UNCHANGED <<pc, armed, slot, dl, going>>
    BY <1>2 DEF Clock, vars
  <2>. QED
    BY <2>2, <2>3, DriftFrame
<1>3. CASE Run /\ UNCHANGED <<now, accvars>>
  BY <1>3, DriftFrame DEF Run, accvars
<1>4. ASSUME NEW h \in Harts, AccStart(h) \/ AccOnTick(h) \/ AccFault(h) PROVE Drift(u)'
  <2>1. UNCHANGED <<pc, armed, now, slot, dl, going, truth>>
    BY <1>4 DEF AccStart, AccOnTick, AccFault, Start, OnTick, OnTickFault, accvars
  <2>. QED
    BY <2>1, DriftFrame
<1>5. ASSUME NEW h \in Harts, AccTick(h) PROVE Drift(u)'
  <2>1. UNCHANGED <<pc, now, slot, dl, going, truth>> /\ armed' = {t \in armed : dl[t] > now}
    BY <1>5 DEF AccTick, Tick
  <2>2. dl[u] \in Nat
    BY DEF AccType
  <2>3. u \in armed => u \in armed' \/ dl[u] <= now
    BY <2>1, <2>2
  <2>. QED
    BY <2>1, <2>3, DriftFrame
<1>6. ASSUME NEW h \in Harts, NEW t \in Tasks, WaitPeriod(h, t) PROVE Drift(u)'
  <2>. DEFINE A == [truth.anchor EXCEPT ![t] = IF slot[t].next = 0 THEN now ELSE @]
              S == [truth.start EXCEPT ![t] = truth.ran[t]]
  <2>1. /\ t \in Sleepers \ going /\ pc[t] = "run"
        /\ UNCHANGED <<pc, armed, now, dl>> /\ going' = going \cup {t}
        /\ slot' = [slot EXCEPT ![t] = [next |-> NextBoundary(t), start |-> busy[t]]]
    BY <1>6 DEF WaitPeriod, At, vars
  <2>2. truth' = [truth EXCEPT !.start = S, !.anchor = A]
    BY <1>6 DEF WaitPeriod
  <2>3. truth'.anchor = A /\ truth'.jobs = truth.jobs
    <3>. HIDE DEF A, S
    <3>. QED
      BY <2>2
  <2>4. CASE u # t
    BY <2>1, <2>3, <2>4, DriftFrame
  <2>5. CASE u = t
    <3>. DEFINE n == slot[t].next
                j == truth.jobs[t]
                a == truth'.anchor[t]
    <3>1. /\ n \in Nat /\ j \in Nat /\ slot'[t].next = NextBoundary(t) /\ t \notin going
          /\ truth.anchor[t] \in Nat
      BY <2>1 DEF AccType
    <3>a. /\ slot'[t].next # 0 /\ t \in going' /\ now' = now /\ pc'[t] = "run"
          /\ truth'.jobs[t] = j
      <4>1. NextBoundary(t) \in Nat \ {0}
        BY <3>1 DEF NextBoundary, Parameters
      <4>. QED
        BY <2>1, <2>3, <3>1, <4>1
    <3>b. slot'[t].next = a + (j + 1) * PERIOD /\ now >= a + j * PERIOD => Drift(u)'
      <4>. SUFFICES ASSUME slot'[t].next = a + (j + 1) * PERIOD, now >= a + j * PERIOD
                    PROVE  Drift(u)'
        OBVIOUS
      <4>. HIDE DEF a, j
      <4>. QED
        BY <2>5, <3>a DEF Drift, a
    <3>2. CASE n = 0
      <4>1. j = 0 /\ a = now /\ NextBoundary(t) = now + PERIOD
        BY <2>1, <2>3, <2>5, <3>2 DEF Drift, NextBoundary, AccType
      <4>2. slot'[t].next = a + (j + 1) * PERIOD /\ now >= a + j * PERIOD
        BY <3>1, <4>1
      <4>. QED
        BY <3>b, <4>2
    <3>3. CASE n # 0
      <4>1. a = truth.anchor[t] /\ NextBoundary(t) = n + PERIOD
        BY <2>1, <2>3, <3>3 DEF NextBoundary, AccType
      <4>2. n = a + j * PERIOD /\ now >= a + j * PERIOD
        BY <2>5, <3>1, <3>3, <4>1 DEF Drift
      <4>3. (j + 1) * PERIOD = j * PERIOD + PERIOD
        BY <3>1
      <4>4. j * PERIOD \in Nat
        BY <3>1
      <4>5. slot'[t].next = a + (j + 1) * PERIOD
        BY <3>1, <4>1, <4>2, <4>3, <4>4
      <4>. QED
        BY <3>b, <4>2, <4>5
    <3>. QED
      BY <3>2, <3>3
  <2>. QED
    BY <2>4, <2>5
<1>7. ASSUME NEW h \in Harts, NEW t \in Tasks, AccSleepBegin(h, t) PROVE Drift(u)'
  <2>1. /\ t \in Sleepers /\ t \in going
        /\ armed' = armed \cup {t} /\ pc' = [pc EXCEPT ![t] = "resched"]
        /\ dl' = [dl EXCEPT ![t] = slot[t].next]
        /\ UNCHANGED <<now, slot, going, truth>>
    BY <1>7 DEF AccSleepBegin, SleepBegin
  <2>2. CASE u # t
    BY <2>1, <2>2, DriftFrame
  <2>3. CASE u = t
    <3>1. dl'[u] = slot[u].next /\ u \in armed'
      BY <2>1, <2>3 DEF AccType
    <3>. QED
      BY <2>1, <3>1 DEF Drift
  <2>. QED
    BY <2>2, <2>3
<1>8. ASSUME NEW h \in Harts, NEW t \in Tasks, AccSleepEnd(h, t) PROVE Drift(u)'
  <2>. DEFINE J == [truth.jobs EXCEPT ![t] = @ + 1]
  <2>1. /\ pc[t] = "cancel" /\ k.current[h] = t /\ isr[h] = "none" /\ ~halted
        /\ armed' = armed \ {t} /\ pc' = [pc EXCEPT ![t] = "run"]
        /\ going' = going \ {t} /\ truth' = [truth EXCEPT !.jobs = J]
        /\ UNCHANGED <<now, slot, dl>>
    BY <1>8 DEF AccSleepEnd, SleepEnd, At
  <2>2. truth'.anchor = truth.anchor /\ truth'.jobs = J
    <3>. HIDE DEF J
    <3>. QED
      BY <2>1
  <2>3. t \in Sleepers /\ t \in going
    BY <2>1 DEF AccType
  <2>4. CASE u # t
    BY <2>1, <2>2, <2>3, <2>4, DriftFrame
  <2>5. CASE u = t
    <3>1. t \notin armed
      BY <2>1 DEF TierInv, SleepInv, NotBack
    <3>. DEFINE n == slot[t].next
                j == truth.jobs[t]
                a == truth.anchor[t]
    <3>2. n \in Nat /\ j \in Nat /\ a \in Nat /\ truth'.jobs[t] = j + 1
      BY <2>2, <2>3 DEF AccType
    <3>3. n # 0 /\ n <= now
      BY <2>1, <2>3, <2>5, <3>1 DEF Drift
    <3>4. n = a + (j + 1) * PERIOD
      BY <2>3, <2>5, <3>3 DEF Drift
    <3>5. /\ slot'[t].next = n /\ t \notin going' /\ truth'.anchor[t] = a /\ now' = now
          /\ pc'[t] = "run"
      BY <2>1, <2>2, <2>3
    <3>6. (truth'.jobs[t] + IF t \in going' THEN 1 ELSE 0) = j + 1
      BY <3>2, <3>5
    <3>. QED
      BY <2>5, <3>2, <3>3, <3>4, <3>5, <3>6 DEF Drift
  <2>. QED
    BY <2>4, <2>5
<1>9. ASSUME NEW h \in Harts, NEW t \in Tasks, Checkin(h, t) PROVE Drift(u)'
  <2>1. UNCHANGED <<pc, armed, now, slot, dl, going>>
    BY <1>9 DEF Checkin, vars
  <2>2. truth'.anchor = truth.anchor /\ truth'.jobs = truth.jobs
    BY <1>9 DEF Checkin
  <2>. QED
    BY <2>1, <2>2, DriftFrame
<1>10. ASSUME NEW h \in Harts, NEW t \in Tasks, Rest(h, t) PROVE Drift(u)'
  <2>1. UNCHANGED <<armed, now, slot, dl, going, truth>>
    BY <1>10 DEF Rest, SleepResched, YieldNow, accvars
  <2>2. pc' = pc \/ (pc[t] = "resched" /\ pc' = [pc EXCEPT ![t] = "cancel"])
    BY <1>10 DEF Rest, SleepResched, YieldNow, At
  <2>. QED
    BY <2>1, <2>2, DriftFrame
<1>. QED
  BY <1>1, <1>2, <1>3, <1>4, <1>5, <1>6, <1>7, <1>8, <1>9, <1>10 DEF AccNext, AccTaskStep

-----------------------------------------------------------------------------
\* The cycles a task has run since its last dispatch.
Running(t) == IF k.current[0] = t THEN now - last ELSE 0

\* What a periodic task has run in its period is at most what Used counts.  An
\* isolated task's last run is never accounted.
Charged(t) ==
  t \notin faulted =>
    truth.ran[t] - truth.start[t] <= busy[t] - slot[t].start + Running(t)

ChargedInv == \A t \in Sleepers : Charged(t)

\* A step that neither moves the hart nor touches the task's counters.
LEMMA ChargedFrame ==
  ASSUME AccType, NEW t \in Sleepers, Charged(t), faulted \subseteq faulted',
         UNCHANGED <<now, last, busy, slot>>, k'.current[0] = k.current[0],
         truth'.ran = truth.ran, truth'.start = truth.start
  PROVE  Charged(t)'
BY DEF Charged, Running

\* One hart: what a step does to its current task.
LEMMA CurrentStays ==
  ASSUME MAX_HARTS = 1, IInv, NEW h \in Harts,
         AccTick(h) \/ \E t \in Tasks : AccTaskStep(h, t)
  PROVE  k'.current = k.current /\ faulted' = faulted
<1>. k \in KType /\ QueueInv(k) /\ armed \in SUBSET Tasks
  BY DEF IInv, KInv, TypeOK
<1>1. CASE AccTick(h)
  <2>. PICK E \in SUBSET armed :
         k' = IF E = {} THEN k ELSE wake_other_harts(unblock_all(k, h, E), h)
    BY <1>1 DEF AccTick, Tick
  <2>. DEFINE r == unblock_all(k, h, E)
  <2>1. r \in KType /\ r.current = k.current
    BY UnblockAll DEF Unblocked, SameElsewhere
  <2>. HIDE DEF r
  <2>2. wake_other_harts(r, h).current = r.current
    BY <2>1, WakeOtherHarts DEF SameElsewhere
  <2>3. k' = k \/ k' = wake_other_harts(r, h)
    BY DEF r
  <2>. QED
    BY <1>1, <2>1, <2>2, <2>3 DEF AccTick, Tick
<1>2. ASSUME NEW t \in Tasks, AccSleepBegin(h, t)
      PROVE  k'.current = k.current /\ faulted' = faulted
  <2>1. k' = set_state(k, h, t, "BLOCKED") /\ faulted' = faulted
    BY <1>2 DEF AccSleepBegin, SleepBegin, At, block_current
  <2>2. MadeNotReady(k, t, "BLOCKED", k')
    BY <2>1, SetNotReady DEF States
  <2>. QED
    BY <2>1, <2>2 DEF MadeNotReady, SameElsewhere
<1>3. ASSUME NEW t \in Tasks, Rest(h, t)
      PROVE  k'.current = k.current /\ faulted' = faulted
  <2>1. k' = [k EXCEPT !.msip = @ \ {h}] /\ faulted' = faulted
    BY <1>3 DEF Rest, SleepResched, YieldNow, RequestReschedule
  <2>. QED
    BY <2>1 DEF KType
<1>4. ASSUME NEW t \in Tasks, WaitPeriod(h, t) \/ AccSleepEnd(h, t) \/ Checkin(h, t)
      PROVE  k'.current = k.current /\ faulted' = faulted
  BY <1>4 DEF WaitPeriod, AccSleepEnd, SleepEnd, Checkin, vars
<1>. QED
  BY <1>1, <1>2, <1>3, <1>4 DEF AccTaskStep

\* Every step keeps the account of what the tasks have run.
LEMMA NextCharged ==
  ASSUME MAX_HARTS = 1, IInv, AccType, ChargedInv, [AccNext]_avars
  PROVE  ChargedInv'
<1>. /\ Sleepers \subseteq Tasks /\ Harts = {0} /\ k \in KType /\ QueueInv(k)
     /\ CurrentUsed(k)
     /\ truth \in [ran : [Tasks -> Nat], start : [Sleepers -> Nat], anchor : [Sleepers -> Nat],
                   jobs : [Sleepers -> Nat], heard : [Tasks -> Nat]]
  BY PreemptAssumption DEF Harts, IInv, KInv, AccType
<1>. k.current \in [Harts -> Tasks \cup {NO_TASK}] /\ NO_TASK \notin Tasks
  BY DEF KType, NO_TASK, Tasks
<1>. SUFFICES ASSUME NEW u \in Sleepers PROVE Charged(u)'
  BY DEF ChargedInv
<1>. /\ Charged(u) /\ u \in Tasks /\ now \in Nat /\ last \in Nat /\ last <= now
     /\ busy[u] \in Nat /\ slot[u].start \in Nat
     /\ truth.ran[u] \in Nat /\ truth.start[u] \in Nat
  BY DEF ChargedInv, AccType
<1>1. CASE UNCHANGED avars
  BY <1>1, ChargedFrame DEF avars, vars, accvars
<1>2. CASE Clock
  <2>. DEFINE R == [t \in Tasks |-> truth.ran[t] + IF t = k.current[0] THEN 1 ELSE 0]
  <2>1. truth' = [truth EXCEPT !.ran = R]
    BY <1>2 DEF Clock
  <2>2. R[u] = truth.ran[u] + IF u = k.current[0] THEN 1 ELSE 0
    OBVIOUS
  <2>. HIDE DEF R
  <2>3. /\ truth'.start = truth.start /\ truth'.ran = R
        /\ now' = now + 1 /\ UNCHANGED <<k, faulted, busy, last, slot>>
    BY <1>2, <2>1 DEF Clock, vars
  <2>. QED
    BY <2>2, <2>3 DEF Charged, Running
<1>3. CASE Run /\ UNCHANGED <<now, accvars>>
  BY <1>3, ChargedFrame DEF Run, accvars
<1>4. ASSUME NEW h \in Harts, AccStart(h) PROVE Charged(u)'
  <2>1. /\ k.current[0] = NO_TASK /\ last' = now
        /\ UNCHANGED <<now, busy, slot, truth, faulted>>
    BY <1>4 DEF AccStart, Start
  <2>2. Running(u) = 0 /\ Running(u)' = 0
    BY <2>1 DEF Running
  <2>. QED
    BY <2>1, <2>2 DEF Charged
<1>5. ASSUME NEW h \in Harts, AccTick(h) PROVE Charged(u)'
  <2>1. UNCHANGED <<now, last, busy, slot, truth>>
    BY <1>5 DEF AccTick
  <2>2. k'.current = k.current /\ faulted' = faulted
    BY <1>5, CurrentStays
  <2>. QED
    BY <2>1, <2>2, ChargedFrame
<1>6. ASSUME NEW h \in Harts, AccOnTick(h) PROVE Charged(u)'
  <2>. h = 0
    OBVIOUS
  <2>1. UNCHANGED <<now, slot, truth, faulted>>
    BY <1>6 DEF AccOnTick, OnTick
  <2>2. CASE k'.current[h] = k.current[h]
    BY <1>6, <2>1, <2>2, ChargedFrame DEF AccOnTick
  <2>3. CASE k'.current[h] # k.current[h]
    <3>1. busy' = [busy EXCEPT ![k.current[h]] = @ + (now - last)] /\ last' = now
      BY <1>6, <2>3 DEF AccOnTick, OnSwitch
    <3>2. Running(u)' = 0
      BY <2>1, <3>1 DEF Running
    <3>3. busy'[u] = busy[u] + Running(u)
      BY <3>1 DEF Running, AccType
    <3>4. Running(u) \in Nat
      BY DEF Running
    <3>. QED
      BY <2>1, <3>2, <3>3, <3>4 DEF Charged
  <2>. QED
    BY <2>2, <2>3
<1>7. ASSUME NEW h \in Harts, AccFault(h) PROVE Charged(u)'
  <2>. DEFINE t == k.current[h]
              k1 == set_state(k, h, t, "BLOCKED")
              c == schedule(k1)
  <2>0. heal(k) = k
    BY HealsNothing
  <2>1. /\ t \in Faulters /\ UNCHANGED <<now, last, busy, slot, truth>> /\ h = 0
        /\ \/ k' = k1 /\ UNCHANGED faulted
           \/ c # NO_TASK /\ k' = isolate(k, h) /\ faulted' = faulted \cup {t}
    BY <1>7, <2>0 DEF AccFault, OnTickFault, accvars
  <2>2. t \in Tasks
    BY <2>1, PreemptAssumption
  <2>3. CASE k' = k1 /\ UNCHANGED faulted
    <3>0. MadeNotReady(k, t, "BLOCKED", k1)
      BY <2>2, SetNotReady DEF States
    <3>1. k'.current = k.current
      BY <2>3, <3>0 DEF MadeNotReady, SameElsewhere
    <3>. QED
      BY <2>1, <2>3, <3>1, ChargedFrame
  <2>4. CASE c # NO_TASK /\ faulted' = faulted \cup {t}
    <3>1. CASE u \in faulted'
      BY <3>1 DEF Charged
    <3>2. CASE u \notin faulted'
      <4>1. Running(u) = 0
        BY <2>1, <2>4, <3>2 DEF Running
      <4>2. Running(u)' >= 0
        BY <2>1 DEF Running
      <4>3. Running(u)' \in Nat
        BY <2>1 DEF Running
      <4>. QED
        BY <2>1, <2>4, <3>2, <4>1, <4>2, <4>3 DEF Charged
    <3>. QED
      BY <3>1, <3>2
  <2>. QED
    BY <2>1, <2>3, <2>4
<1>8. ASSUME NEW h \in Harts, NEW t \in Tasks, WaitPeriod(h, t) PROVE Charged(u)'
  <2>. DEFINE A == [truth.anchor EXCEPT ![t] = IF slot[t].next = 0 THEN now ELSE @]
              S == [truth.start EXCEPT ![t] = truth.ran[t]]
  <2>1. /\ t \in Sleepers /\ UNCHANGED <<k, faulted, busy, last, now>>
        /\ slot' = [slot EXCEPT ![t] = [next |-> NextBoundary(t), start |-> busy[t]]]
        /\ truth' = [truth EXCEPT !.start = S, !.anchor = A]
    BY <1>8 DEF WaitPeriod, vars
  <2>2. truth'.start = S /\ truth'.ran = truth.ran
    <3>. HIDE DEF A, S
    <3>. QED
      BY <2>1
  <2>3. CASE u # t
    BY <2>1, <2>2, <2>3 DEF Charged, Running
  <2>4. CASE u = t
    <3>1. S[u] = truth.ran[u] /\ slot'[u].start = busy[u]
      BY <2>1, <2>4 DEF AccType
    <3>2. Running(u)' \in Nat
      BY <2>1 DEF Running
    <3>. QED
      BY <2>1, <2>2, <3>1, <3>2 DEF Charged
  <2>. QED
    BY <2>3, <2>4
<1>9. ASSUME NEW h \in Harts, NEW t \in Tasks,
             AccSleepBegin(h, t) \/ AccSleepEnd(h, t) \/ Checkin(h, t) \/ Rest(h, t)
      PROVE  Charged(u)'
  <2>1. k'.current = k.current /\ faulted' = faulted
    BY <1>9, CurrentStays DEF AccTaskStep
  <2>2. UNCHANGED <<now, last, busy, slot>>
    BY <1>9 DEF AccSleepBegin, AccSleepEnd, Checkin, Rest, accvars
  <2>3. truth'.ran = truth.ran /\ truth'.start = truth.start
    BY <1>9 DEF AccSleepBegin, AccSleepEnd, Checkin, Rest, accvars
  <2>. QED
    BY <2>1, <2>2, <2>3, ChargedFrame
<1>. QED
  BY <1>1, <1>2, <1>3, <1>4, <1>5, <1>6, <1>7, <1>8, <1>9 DEF AccNext, AccTaskStep

\* check_budget finds every task that is over its budget.
LEMMA NextBudget ==
  ASSUME MAX_HARTS = 1, IInv, AccType, ChargedInv, Parameters, [AccNext]_avars
  PROVE  [\A t \in Faulters \cap Sleepers :
            /\ isr[0] = "on_tick" /\ isr'[0] = "none"
            /\ k.current[0] = t /\ k.state[t] = "RUNNING" /\ schedule(k) # NO_TASK
            /\ truth.ran[t] - truth.start[t] > BUDGET
            => t \in faulted' \/ halted']_avars
<1>. /\ Sleepers \subseteq Tasks /\ Harts = {0} /\ BUDGET \in Nat
     /\ isr \in [Harts -> {"none", "on_tick"}] /\ NO_TASK \notin Tasks
  BY PreemptAssumption DEF Harts, IInv, TypeOK, NO_TASK, Tasks, Parameters
<1>. SUFFICES ASSUME AccNext, NEW t \in Faulters \cap Sleepers,
                     isr[0] = "on_tick", isr'[0] = "none",
                     k.current[0] = t, k.state[t] = "RUNNING", schedule(k) # NO_TASK,
                     truth.ran[t] - truth.start[t] > BUDGET
              PROVE  t \in faulted' \/ halted'
  OBVIOUS
<1>1. AccOnTick(0) \/ AccFault(0)
  <2>1. PICK h \in Harts : \/ AccStart(h) \/ AccTick(h) \/ AccOnTick(h) \/ AccFault(h)
                           \/ \E u \in Tasks : AccTaskStep(h, u)
    BY DEF AccNext, Clock, Run, vars
  <2>2. h = 0
    OBVIOUS
  <2>3. ~AccStart(h) /\ ~AccTick(h)
    BY <2>2 DEF AccStart, Start, AccTick, Tick
  <2>4. ASSUME NEW u \in Tasks PROVE ~AccTaskStep(h, u)
    BY <2>2 DEF AccTaskStep, WaitPeriod, AccSleepBegin, SleepBegin, AccSleepEnd, SleepEnd,
                Checkin, Rest, SleepResched, YieldNow, At
  <2>. QED
    BY <2>1, <2>2, <2>3, <2>4
<1>2. CASE t \notin faulted
  <2>1. truth.ran[t] - truth.start[t] <= Used(t)
    <3>1. /\ Charged(t) /\ Running(t) = now - last
          /\ now \in Nat /\ last \in Nat /\ busy[t] \in Nat /\ slot[t].start \in Nat
      BY DEF ChargedInv, Running, AccType
    <3>. QED
      BY <1>2, <3>1 DEF Charged, Used
  <2>2. Used(t) \in Int /\ truth.ran[t] \in Nat /\ truth.start[t] \in Nat
    BY DEF Used, AccType
  <2>3. OverBudget(t)
    BY <2>1, <2>2 DEF OverBudget
  <2>4. AccFault(0)
    BY <1>1, <2>3 DEF AccOnTick
  <2>. QED
    BY <2>4 DEF AccFault, OnTickFault
<1>3. CASE t \in faulted
  BY <1>1, <1>3 DEF AccOnTick, AccFault, OnTick, OnTickFault
<1>. QED
  BY <1>2, <1>3

-----------------------------------------------------------------------------
\* What check_task_checkins reads is the truncated time of the last check-in.
HeardInv ==
  /\ \A t \in Tasks : checkin[t] # 0 =>
       /\ t \in Checkers /\ truth.heard[t] # 0 /\ truth.heard[t] <= now
       /\ checkin[t] = truth.heard[t] % U32
  /\ NoFalseAlarm

\* Division with remainder is unique.
LEMMA Remainder ==
  ASSUME NEW U \in Nat \ {0}, NEW w \in Nat, NEW e \in 0..(U - 1)
  PROVE  (U * w + e) % U = e
<1>. DEFINE x == U * w + e
            p == x \div U
            m == x % U
<1>1. x \in Nat
  OBVIOUS
<1>2. x = U * w + e
  OBVIOUS
<1>. HIDE DEF x
<1>3. p \in Nat /\ m \in 0..(U - 1) /\ x = U * p + m
  BY <1>1
<1>. HIDE DEF p, m
<1>4. U * w - U * p = m - e
  BY <1>1, <1>2, <1>3
<1>5. U * (w - p) = m - e
  BY <1>3, <1>4
<1>6. CASE w = p
  <2>1. U * (w - p) = 0
    BY <1>3, <1>6
  <2>. QED
    BY <2>1, <1>3, <1>5 DEF m, x
<1>7. CASE w > p
  <2>1. U * (w - p) >= U
    BY <1>3, <1>7
  <2>. QED
    BY <2>1, <1>3, <1>5
<1>8. CASE w < p
  <2>1. U * (w - p) <= -U
    BY <1>3, <1>8
  <2>. QED
    BY <2>1, <1>3, <1>5
<1>. QED
  BY <1>3, <1>6, <1>7, <1>8

\* A difference of truncated times, truncated, never exceeds the difference.
LEMMA TruncatedAge ==
  ASSUME NEW U \in Nat \ {0}, NEW a \in Nat, NEW b \in Nat, b <= a
  PROVE  (a - (b % U)) % U <= a - b
<1>. DEFINE q == b \div U
            r == b % U
            d == a - b
            s == d \div U
            e == d % U
<1>1. d \in Nat /\ a = d + b
  OBVIOUS
<1>2. q \in Nat /\ r \in 0..(U - 1) /\ b = U * q + r
  OBVIOUS
<1>3. s \in Nat /\ e \in 0..(U - 1) /\ d = U * s + e
  BY <1>1
<1>. HIDE DEF q, r, s, e
<1>4. U * s + U * q = U * (s + q) /\ s + q \in Nat /\ U * s \in Nat /\ U * q \in Nat
  BY <1>2, <1>3
<1>. DEFINE w == s + q
<1>5. a - r = U * w + e
  BY <1>1, <1>2, <1>3, <1>4
<1>6. (U * w + e) % U = e
  BY <1>3, <1>4, Remainder
<1>7. (a - (b % U)) % U = e
  BY <1>5, <1>6 DEF r
<1>8. e <= d
  BY <1>3, <1>4
<1>. QED
  BY <1>7, <1>8

\* Every step keeps what the watchdog reads true, and resets for a reason.
LEMMA NextHeard ==
  ASSUME Parameters, IInv, AccType, HeardInv, [AccNext]_avars
  PROVE  HeardInv'
<1>. USE DEF NoFalseAlarm
<1>. /\ now \in Nat \ {0} /\ TIMEOUT \in Nat /\ U32 \in Nat \ {0}
     /\ checkin \in [Tasks -> Nat]
     /\ truth \in [ran : [Tasks -> Nat], start : [Sleepers -> Nat], anchor : [Sleepers -> Nat],
                   jobs : [Sleepers -> Nat], heard : [Tasks -> Nat]]
  BY DEF Parameters, AccType
<1>1. ASSUME ~alarm, UNCHANGED <<checkin, alarm>>, truth'.heard = truth.heard,
             now' \in Nat, now <= now'
      PROVE  HeardInv'
  <2>1. ASSUME NEW t \in Tasks, truth.heard[t] <= now PROVE truth'.heard[t] <= now'
    BY <1>1, <2>1
  <2>. QED
    BY <1>1, <2>1 DEF HeardInv
<1>2. CASE UNCHANGED avars
  BY <1>2 DEF avars, accvars, HeardInv
<1>3. CASE Clock /\ ~alarm
  <2>. DEFINE R == [t \in Tasks |-> truth.ran[t] + IF t = k.current[0] THEN 1 ELSE 0]
  <2>1. truth' = [truth EXCEPT !.ran = R]
    BY <1>3 DEF Clock
  <2>. HIDE DEF R
  <2>2. truth'.heard = truth.heard
    BY <2>1
  <2>. QED
    BY <1>1, <1>3, <2>2 DEF Clock
<1>4. CASE Run /\ UNCHANGED <<now, accvars>> /\ ~alarm
  BY <1>1, <1>4 DEF accvars
<1>5. ASSUME NEW h \in Harts, ~alarm, AccStart(h) \/ AccOnTick(h) \/ AccFault(h)
      PROVE  HeardInv'
  BY <1>1, <1>5 DEF AccStart, AccOnTick, AccFault, accvars
<1>6. ASSUME NEW h \in Harts, ~alarm, AccTick(h) PROVE HeardInv'
  <2>1. UNCHANGED <<now, checkin, truth>> /\ alarm' = \E t \in Tasks : Silent(t)
    BY <1>6 DEF AccTick
  <2>2. ASSUME NEW t \in Tasks, Silent(t)
        PROVE  t \in Checkers /\ truth.heard[t] # 0 /\ now - truth.heard[t] > TIMEOUT
    <3>. DEFINE b == truth.heard[t]
    <3>1. checkin[t] # 0 /\ (now - checkin[t]) % U32 > TIMEOUT
      BY <2>2 DEF Silent
    <3>2. /\ t \in Checkers /\ b # 0 /\ b <= now /\ b \in Nat
          /\ checkin[t] = b % U32
      BY <3>1 DEF HeardInv
    <3>3. (now - (b % U32)) % U32 <= now - b
      BY <3>2, TruncatedAge
    <3>. HIDE DEF b
    <3>4. now - b > TIMEOUT
      <4>. DEFINE x == (now - (b % U32)) % U32
      <4>1. x > TIMEOUT /\ x \in Nat /\ x <= now - b
        BY <3>1, <3>2, <3>3
      <4>. HIDE DEF x
      <4>. QED
        BY <3>2, <4>1
    <3>. QED
      BY <3>2, <3>4 DEF b
  <2>3. alarm' => \E t \in Checkers : truth.heard[t] # 0 /\ now - truth.heard[t] > TIMEOUT
    BY <2>1, <2>2
  <2>. QED
    BY <2>1, <2>3 DEF HeardInv
<1>7. ASSUME NEW h \in Harts, NEW t \in Tasks, ~alarm,
             AccSleepBegin(h, t) \/ AccSleepEnd(h, t) \/ WaitPeriod(h, t) \/ Rest(h, t)
      PROVE  HeardInv'
  <2>1. UNCHANGED <<checkin, alarm, now>>
    BY <1>7 DEF AccSleepBegin, AccSleepEnd, WaitPeriod, Rest, accvars
  <2>2. truth'.heard = truth.heard
    BY <1>7 DEF AccSleepBegin, AccSleepEnd, WaitPeriod, Rest, accvars
  <2>. QED
    BY <1>1, <1>7, <2>1, <2>2
<1>8. ASSUME NEW h \in Harts, NEW t \in Tasks, ~alarm, Checkin(h, t) PROVE HeardInv'
  <2>1. /\ t \in Checkers /\ UNCHANGED <<alarm, now>>
        /\ checkin' = [checkin EXCEPT ![t] = now % U32]
        /\ truth'.heard = [truth.heard EXCEPT ![t] = now]
    BY <1>8 DEF Checkin
  <2>2. ASSUME NEW u \in Tasks, checkin'[u] # 0
        PROVE  /\ u \in Checkers /\ truth'.heard[u] # 0 /\ truth'.heard[u] <= now'
               /\ checkin'[u] = truth'.heard[u] % U32
    <3>1. CASE u = t
      BY <2>1, <3>1
    <3>2. CASE u # t
      BY <2>1, <2>2, <3>2 DEF HeardInv
    <3>. QED
      BY <3>1, <3>2
  <2>. QED
    BY <1>8, <2>1, <2>2 DEF HeardInv
<1>. QED
  BY <1>2, <1>3, <1>4, <1>5, <1>6, <1>7, <1>8 DEF AccNext, AccTaskStep

-----------------------------------------------------------------------------
AccInv == AccType /\ DriftInv /\ ChargedInv /\ HeardInv

LEMMA AccInvariance ==
  ASSUME MAX_HARTS = 1, Sleepers \cap Parkers = {}, Parameters
  PROVE  AccSpec => [](TierInv /\ AccInv)
<1>1. AccInit => AccInv
  <2>. SUFFICES ASSUME AccInit PROVE AccInv
    OBVIOUS
  <2>1. AccType
    BY InitAccType
  <2>2. /\ pc = [t \in Tasks |-> "run"] /\ going = {} /\ alarm = FALSE
        /\ checkin = [t \in Tasks |-> 0]
        /\ \A t \in Sleepers : slot[t].next = 0 /\ slot[t].start = 0 /\ truth.jobs[t] = 0
    BY DEF AccInit, Init
  <2>3. DriftInv
    BY <2>2, PreemptAssumption DEF DriftInv, Drift
  <2>4. ChargedInv
    <3>1. /\ now = 1 /\ last = 0 /\ busy = [t \in Tasks |-> 0]
          /\ truth.ran = [t \in Tasks |-> 0] /\ truth.start = [t \in Sleepers |-> 0]
      BY DEF AccInit
    <3>2. \A t \in Sleepers : Running(t) \in Nat
      BY <3>1 DEF Running
    <3>. QED
      BY <2>2, <3>1, <3>2, PreemptAssumption DEF ChargedInv, Charged
  <2>5. HeardInv
    BY <2>2 DEF HeardInv, NoFalseAlarm
  <2>. QED
    BY <2>1, <2>3, <2>4, <2>5 DEF AccInv
<1>2. TierInv /\ AccInv /\ [AccNext]_avars => AccInv'
  BY NextAccType, NextDrift, NextCharged, NextHeard DEF TierInv, AccInv
<1>3. AccSpec => []TierInv
  BY AccTier
<1>. QED
  BY <1>1, <1>2, <1>3, PTL DEF AccSpec, avars

\* A periodic task's waits end at the n-th boundary after its first call, and
\* never before it: neither late calls nor late ticks add up (wait_period).
THEOREM PeriodsStayTrue ==
  ASSUME MAX_HARTS = 1, Sleepers \cap Parkers = {}, Parameters
  PROVE  AccSpec => []PeriodsDoNotDrift
<1>1. AccInv => PeriodsDoNotDrift
  BY DEF AccInv, DriftInv, Drift, PeriodsDoNotDrift
<1>. QED
  BY <1>1, AccInvariance, PTL

\* The check-in watchdog resets the board only when a task that checked in has
\* been silent for longer than the timeout, wherever the 32 bits of the time
\* that last_checkin keeps have wrapped (check_task_checkins).
THEOREM AlarmsAreTrue ==
  ASSUME MAX_HARTS = 1, Sleepers \cap Parkers = {}, Parameters
  PROVE  AccSpec => []NoFalseAlarm
<1>1. AccInv => NoFalseAlarm
  BY DEF AccInv, HeardInv
<1>. QED
  BY <1>1, AccInvariance, PTL

\* No task that is over its budget is switched away from, or kept, by a tick
\* that has another task to run: it is isolated there and then (check_budget).
THEOREM BudgetsAreEnforced ==
  ASSUME MAX_HARTS = 1, Sleepers \cap Parkers = {}, Parameters
  PROVE  AccSpec => BudgetEnforced
<1>. DEFINE Enforced == \A t \in Faulters \cap Sleepers :
              /\ isr[0] = "on_tick" /\ isr'[0] = "none"
              /\ k.current[0] = t /\ k.state[t] = "RUNNING" /\ schedule(k) # NO_TASK
              /\ truth.ran[t] - truth.start[t] > BUDGET
              => t \in faulted' \/ halted'
<1>1. TierInv /\ AccInv /\ [AccNext]_avars => [Enforced]_avars
  BY NextBudget DEF TierInv, AccInv
<1>. HIDE DEF Enforced
<1>2. AccSpec => [][Enforced]_avars
  BY <1>1, AccInvariance, PTL DEF AccSpec, avars
<1>. QED
  BY <1>2 DEF BudgetEnforced, Enforced, avars
=============================================================================
