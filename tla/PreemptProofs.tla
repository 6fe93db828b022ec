--------------------------- MODULE PreemptProofs ---------------------------
(***************************************************************************)
(* The safety of the preemptive tier for every number of harts, tasks and  *)
(* priorities.                                                             *)
(*                                                                         *)
(* The first part is about the operators of Sched: what each does to the   *)
(* fields of the scheduler record, that each keeps the queues consistent,  *)
(* and what schedule() chooses.  The second part is about the steps that   *)
(* Preempt builds from them.                                               *)
(*                                                                         *)
(* QueueConsistent is not inductive: park_forever moves a task to BLOCKED  *)
(* outside a critical section, which is harmless only if the task is in no *)
(* queue, that is, if the task a hart runs is never READY.  A task in      *)
(* sleep_until may be READY and current at once (another hart's tick wakes *)
(* it before its own hart has switched away), so the invariant below says  *)
(* it for the other tasks, and the theorems assume that no task both       *)
(* sleeps and parks.                                                       *)
(***************************************************************************)
EXTENDS PreemptFair, TLAPS, WellFoundedInduction

USE SchedAssumption

\* A non-empty set of naturals has a least element.
LEMMA NatMin ==
  ASSUME NEW T, T \subseteq Nat, T # {}
  PROVE  \E m \in T : \A y \in T : m <= y
<1>1. \E m \in T : \A y \in T : ~ (<<y, m>> \in OpToRel(<, Nat))
  <2> HIDE DEF OpToRel
  <2> QED BY NatLessThanWellFounded, WFMin
<1>2. PICK m \in T : \A y \in T : ~ (<<y, m>> \in OpToRel(<, Nat))
  BY <1>1
<1>3. ASSUME NEW y \in T PROVE m <= y
  <2>1. ~ (<<y, m>> \in OpToRel(<, Nat)) BY <1>2
  <2>2. y < m => <<y, m>> \in OpToRel(<, Nat)
    BY DEF OpToRel
  <2>3. ~ (y < m) BY <2>1, <2>2, Zenon
  <2> QED BY <2>3
<1> QED BY <1>2, <1>3

\* A non-empty set of priorities has a greatest element.
LEMMA PrioMax ==
  ASSUME NEW T, T \subseteq Prios, T # {}
  PROVE  \E m \in T : \A y \in T : y <= m
<1> DEFINE U == {NUM_PRIOS - y : y \in T}
<1>1. U \subseteq Nat /\ U # {}
  BY DEF Prios
<1> HIDE DEF U
<1>2. PICK d \in U : \A y \in U : d <= y
  BY <1>1, NatMin
<1>3. PICK m \in T : d = NUM_PRIOS - m
  BY <1>2 DEF U
<1>4. ASSUME NEW y \in T PROVE y <= m
  BY <1>2, <1>3, <1>4 DEF U, Prios
<1> QED BY <1>3, <1>4

-----------------------------------------------------------------------------
\* The fields that queue operations leave alone.
SameElsewhere(s, r) ==
  /\ r.base = s.base /\ r.eff = s.eff
  /\ r.seq = s.seq /\ r.counter = s.counter /\ r.current = s.current

\* What ready_add does to the record.
LEMMA ReadyAdd ==
  ASSUME NEW s \in KType, NEW me \in Harts, NEW id \in Tasks
  PROVE  LET r == ready_add(s, me, id)
         IN  /\ r \in KType
             /\ r.queues = [s.queues EXCEPT ![s.eff[id]] = @ \cup {id}]
             /\ r.bitmap = s.bitmap \cup {s.eff[id]}
             /\ r.state = s.state /\ r.used = s.used
             /\ SameElsewhere(s, r)
<1> DEFINE r == ready_add(s, me, id)
           q == [s EXCEPT !.queues[s.eff[id]] = @ \cup {id},
                          !.bitmap = @ \cup {s.eff[id]}]
<1>1. s.eff[id] \in Prios
  BY DEF KType
<1>2. /\ s.queues[s.eff[id]] \cup {id} \in SUBSET Tasks
      /\ s.bitmap \cup {s.eff[id]} \in SUBSET Prios
  BY <1>1 DEF KType
<1>3. q \in KType
  BY <1>1, <1>2 DEF KType
<1>4. r = [q EXCEPT !.msip = @ \cup (Harts \ {me})]
  BY DEF ready_add, wake_other_harts
<1>5. q.msip \cup (Harts \ {me}) \in SUBSET Harts
  BY <1>3 DEF KType
<1>6. /\ q.queues = [s.queues EXCEPT ![s.eff[id]] = @ \cup {id}]
      /\ q.bitmap = s.bitmap \cup {s.eff[id]}
      /\ q.state = s.state /\ q.used = s.used
      /\ SameElsewhere(s, q)
  BY DEF KType, SameElsewhere
<1> HIDE DEF q, r
<1>7. r \in KType
  BY <1>3, <1>4, <1>5 DEF KType
<1>8. /\ r.queues = q.queues /\ r.bitmap = q.bitmap
      /\ r.state = q.state /\ r.used = q.used /\ SameElsewhere(q, r)
  BY <1>3, <1>4 DEF KType, SameElsewhere
<1> QED BY <1>6, <1>7, <1>8 DEF SameElsewhere, r

\* What ready_remove does to the record.
LEMMA ReadyRemove ==
  ASSUME NEW s \in KType, NEW id \in Tasks
  PROVE  LET r == ready_remove(s, id)
         IN  /\ r \in KType
             /\ r.queues = [s.queues EXCEPT ![s.eff[id]] = @ \ {id}]
             /\ r.bitmap = IF s.queues[s.eff[id]] = {id}
                           THEN s.bitmap \ {s.eff[id]} ELSE s.bitmap
             /\ r.state = s.state /\ r.used = s.used /\ r.msip = s.msip
             /\ SameElsewhere(s, r)
<1>1. s.eff[id] \in Prios
  BY DEF KType
<1>2. /\ s.queues[s.eff[id]] \ {id} \in SUBSET Tasks
      /\ s.bitmap \ {s.eff[id]} \in SUBSET Prios
  BY <1>1 DEF KType
<1> QED BY <1>1, <1>2 DEF ready_remove, KType, SameElsewhere

\* Storing a state.
LEMMA StoreState ==
  ASSUME NEW s \in KType, NEW id \in Tasks, NEW v \in States
  PROVE  LET r == [s EXCEPT !.state[id] = v]
         IN  /\ r \in KType
             /\ r.state = [s.state EXCEPT ![id] = v]
             /\ r.queues = s.queues /\ r.bitmap = s.bitmap
             /\ r.used = s.used /\ r.msip = s.msip
             /\ SameElsewhere(s, r)
BY DEF KType, SameElsewhere

\* The effect of making id Ready.
MadeReady(s, id, r) ==
  /\ r \in KType
  /\ r.state = [s.state EXCEPT ![id] = "READY"]
  /\ r.queues = [s.queues EXCEPT ![s.eff[id]] = @ \cup {id}]
  /\ r.bitmap = s.bitmap \cup {s.eff[id]}
  /\ r.used = s.used
  /\ SameElsewhere(s, r)

\* The effect of moving id to another state v.
MadeNotReady(s, id, v, r) ==
  /\ r \in KType
  /\ r.state = [s.state EXCEPT ![id] = v]
  /\ r.queues = [s.queues EXCEPT ![s.eff[id]] = @ \ {id}]
  /\ r.bitmap = IF s.queues[s.eff[id]] = {id}
                THEN s.bitmap \ {s.eff[id]} ELSE s.bitmap
  /\ r.used = s.used /\ r.msip = s.msip
  /\ SameElsewhere(s, r)

\* set_state(READY) queues the task at its effective priority.
LEMMA SetReady ==
  ASSUME NEW s \in KType, NEW me \in Harts, NEW id \in Tasks
  PROVE  MadeReady(s, id, set_state(s, me, id, "READY"))
<1> DEFINE q == [s EXCEPT !.state[id] = "READY"]
<1>1. "READY" \in States BY DEF States
<1>2. /\ q \in KType
      /\ q.state = [s.state EXCEPT ![id] = "READY"]
      /\ q.queues = s.queues /\ q.bitmap = s.bitmap /\ q.used = s.used
      /\ SameElsewhere(s, q)
  BY <1>1, StoreState
<1>3. set_state(s, me, id, "READY") = ready_add(q, me, id)
  BY DEF set_state
<1> HIDE DEF q
<1>4. LET r == ready_add(q, me, id)
      IN  /\ r \in KType
          /\ r.queues = [q.queues EXCEPT ![q.eff[id]] = @ \cup {id}]
          /\ r.bitmap = q.bitmap \cup {q.eff[id]}
          /\ r.state = q.state /\ r.used = q.used
          /\ SameElsewhere(q, r)
  BY <1>2, ReadyAdd
<1> QED BY <1>2, <1>3, <1>4 DEF SameElsewhere, MadeReady

\* set_state to any other state takes the task out of its queue.
LEMMA SetNotReady ==
  ASSUME NEW s \in KType, NEW me \in Harts, NEW id \in Tasks,
         NEW v \in States, v # "READY"
  PROVE  MadeNotReady(s, id, v, set_state(s, me, id, v))
<1> DEFINE q == [s EXCEPT !.state[id] = v]
<1>2. /\ q \in KType
      /\ q.state = [s.state EXCEPT ![id] = v]
      /\ q.queues = s.queues /\ q.bitmap = s.bitmap
      /\ q.used = s.used /\ q.msip = s.msip
      /\ SameElsewhere(s, q)
  BY StoreState
<1>3. set_state(s, me, id, v) = ready_remove(q, id)
  BY DEF set_state
<1> HIDE DEF q
<1>4. LET r == ready_remove(q, id)
      IN  /\ r \in KType
          /\ r.queues = [q.queues EXCEPT ![q.eff[id]] = @ \ {id}]
          /\ r.bitmap = IF q.queues[q.eff[id]] = {id}
                        THEN q.bitmap \ {q.eff[id]} ELSE q.bitmap
          /\ r.state = q.state /\ r.used = q.used /\ r.msip = q.msip
          /\ SameElsewhere(q, r)
  BY <1>2, ReadyRemove
<1> QED BY <1>2, <1>3, <1>4 DEF SameElsewhere, MadeNotReady

\* Making a registered task Ready keeps the queues consistent.
LEMMA MadeReadyQueues ==
  ASSUME NEW s \in KType, NEW id \in Tasks, NEW r,
         id \in s.used, QueueInv(s), MadeReady(s, id, r)
  PROVE  QueueInv(r)
BY DEF MadeReady, SameElsewhere, QueueInv, KType

\* Taking a task out of Ready keeps the queues consistent.
LEMMA MadeNotReadyQueues ==
  ASSUME NEW s \in KType, NEW id \in Tasks, NEW v \in States, v # "READY", NEW r,
         QueueInv(s), MadeNotReady(s, id, v, r)
  PROVE  QueueInv(r)
BY DEF MadeNotReady, SameElsewhere, QueueInv, KType

-----------------------------------------------------------------------------
\* Stamping a dispatch.
Stamped(s, id, r) ==
  /\ r \in KType
  /\ r.counter = (s.counter + 1) % SEQ_MOD
  /\ r.seq = [s.seq EXCEPT ![id] = r.counter]
  /\ r.state = s.state /\ r.queues = s.queues /\ r.bitmap = s.bitmap
  /\ r.used = s.used /\ r.base = s.base /\ r.eff = s.eff
  /\ r.current = s.current

\* on_dispatch stamps the task and changes nothing else.
LEMMA OnDispatch ==
  ASSUME NEW s \in KType, NEW id \in Tasks
  PROVE  Stamped(s, id, on_dispatch(s, id))
<1>1. (s.counter + 1) % SEQ_MOD \in Stamps
  BY DEF KType, Stamps
<1> QED BY <1>1 DEF on_dispatch, Stamped, KType

\* Storing a hart's current task.
LEMMA StoreCurrent ==
  ASSUME NEW s \in KType, NEW me \in Harts, NEW id \in Tasks
  PROVE  LET r == [s EXCEPT !.current[me] = id]
         IN  /\ r \in KType
             /\ r.current = [s.current EXCEPT ![me] = id]
             /\ r.state = s.state /\ r.queues = s.queues /\ r.bitmap = s.bitmap
             /\ r.used = s.used /\ r.base = s.base /\ r.eff = s.eff
             /\ r.seq = s.seq /\ r.counter = s.counter
BY DEF KType

\* With consistent queues schedule() finds no stale bit to clear.
LEMMA HealsNothing ==
  ASSUME NEW s \in KType, QueueInv(s)
  PROVE  heal(s) = s
<1>1. {p \in s.bitmap : \E q \in LiveBits(s) : p <= q} = s.bitmap
  <2>1. ASSUME NEW p \in s.bitmap PROVE p \in LiveBits(s) /\ p <= p
    BY DEF LiveBits, QueueInv, KType, Prios
  <2> QED BY <2>1
<1> QED BY <1>1 DEF heal, KType

\* What schedule() returns when it returns a task: a registered READY task, of
\* the highest effective priority among them, and the least recently
\* dispatched at that priority.
BestReady(s, c) ==
  /\ c \in Tasks
  /\ c \in s.used /\ s.state[c] = "READY"
  /\ \A u \in s.used : s.state[u] = "READY" =>
       /\ s.eff[u] <= s.eff[c]
       /\ s.eff[u] = s.eff[c] => DispatchedBefore(s, c, u)

\* The bits of a record that is not idle lead to the earliest stamped task of
\* the highest queue.
LEMMA ScheduleMember ==
  ASSUME NEW s \in KType, LiveBits(s) # {}
  PROVE  LET Q == s.queues[TopBit(s)]
         IN  /\ TopBit(s) \in Prios /\ \A q \in LiveBits(s) : q <= TopBit(s)
             /\ Q \subseteq Tasks /\ schedule(s) \in Q
             /\ \A u \in Q : DispatchedBefore(s, schedule(s), u)
<1> DEFINE Q == s.queues[TopBit(s)]
<1>1. LiveBits(s) \subseteq Prios
  BY DEF LiveBits, KType
<1>2. TopBit(s) \in LiveBits(s) /\ \A q \in LiveBits(s) : q <= TopBit(s)
  BY <1>1, PrioMax DEF TopBit
<1>3. TopBit(s) \in Prios /\ Q # {} /\ Q \subseteq Tasks
  BY <1>1, <1>2 DEF LiveBits, KType
<1> HIDE DEF Q
<1>4. \E t \in Q : \A u \in Q : DispatchedBefore(s, t, u)
  <2> DEFINE S == {s.seq[t] : t \in Q}
  <2>1. S \subseteq Nat /\ S # {}
    BY <1>3 DEF KType, Stamps
  <2> HIDE DEF S
  <2>2. PICK v \in S : \A y \in S : v <= y
    BY <2>1, NatMin
  <2> DEFINE E == {t \in Q : s.seq[t] = v}
  <2>3. E \subseteq Nat /\ E # {}
    BY <1>3, <2>2 DEF S, Tasks
  <2>4. PICK t \in E : \A y \in E : t <= y
    BY <2>3, NatMin
  <2>5. ASSUME NEW u \in Q PROVE DispatchedBefore(s, t, u)
    <3>1. t \in Q /\ s.seq[t] = v BY <2>4
    <3>2. s.seq[u] \in S /\ v <= s.seq[u] BY <2>2 DEF S
    <3>3. s.seq[u] \in Nat /\ v \in Nat BY <2>1, <3>2
    <3>4. s.seq[u] = v => t <= u BY <2>4
    <3> QED BY <3>1, <3>2, <3>3, <3>4 DEF DispatchedBefore
  <2> QED BY <2>4, <2>5
<1>5. schedule(s) = CHOOSE t \in Q : \A u \in Q : DispatchedBefore(s, t, u)
  BY DEF schedule, Q
<1>6. schedule(s) \in Q /\ \A u \in Q : DispatchedBefore(s, schedule(s), u)
  BY <1>4, <1>5
<1> QED BY <1>2, <1>3, <1>6 DEF Q

\* schedule() returns a ready task of the highest priority, the one stamped
\* longest ago, and nothing only when no task is ready.
LEMMA ScheduleChoice ==
  ASSUME NEW s \in KType, QueueInv(s), schedule(s) # NO_TASK
  PROVE  BestReady(s, schedule(s))
<1> DEFINE Q == s.queues[TopBit(s)]
<1>1. LiveBits(s) # {}
  BY DEF schedule
<1>2. TopBit(s) \in Prios /\ \A q \in LiveBits(s) : q <= TopBit(s)
  BY <1>1, ScheduleMember
<1>3. Q \subseteq Tasks
  BY <1>1, ScheduleMember
<1>4. schedule(s) \in Q /\ \A u \in Q : DispatchedBefore(s, schedule(s), u)
  BY <1>1, ScheduleMember
<1> HIDE DEF Q
<1>5. /\ schedule(s) \in Tasks /\ schedule(s) \in s.used
      /\ s.state[schedule(s)] = "READY" /\ s.eff[schedule(s)] = TopBit(s)
  BY <1>2, <1>3, <1>4 DEF Q, QueueInv
<1>6. ASSUME NEW u \in s.used, s.state[u] = "READY"
      PROVE  /\ s.eff[u] <= s.eff[schedule(s)]
             /\ s.eff[u] = s.eff[schedule(s)] => DispatchedBefore(s, schedule(s), u)
  <2>1. u \in Tasks /\ s.eff[u] \in Prios
    BY DEF KType
  <2>2. u \in s.queues[s.eff[u]]
    BY <1>6, <2>1 DEF QueueInv
  <2>3. s.eff[u] \in LiveBits(s)
    BY <2>1, <2>2 DEF LiveBits, QueueInv
  <2> QED BY <1>2, <1>4, <1>5, <2>2, <2>3 DEF Q
<1> QED BY <1>5, <1>6 DEF BestReady

\* While some registered task is READY, schedule() finds one.
LEMMA ScheduleFinds ==
  ASSUME NEW s \in KType, QueueInv(s), NEW u \in s.used, s.state[u] = "READY"
  PROVE  schedule(s) # NO_TASK
<1>1. u \in Tasks /\ s.eff[u] \in Prios
  BY DEF KType
<1>2. u \in s.queues[s.eff[u]]
  BY <1>1 DEF QueueInv
<1>3. s.eff[u] \in LiveBits(s)
  BY <1>1, <1>2 DEF LiveBits, QueueInv
<1>4. schedule(s) \in s.queues[TopBit(s)] /\ s.queues[TopBit(s)] \subseteq Tasks
  BY <1>3, ScheduleMember
<1>5. NO_TASK \notin Tasks
  BY SchedAssumption DEF NO_TASK, Tasks
<1> QED BY <1>4, <1>5

-----------------------------------------------------------------------------
\* The effect of a hart's switch to task c: the other tasks keep their state,
\* except that a RUNNING task that was left goes back to READY.
Switched(s, me, c, r) ==
  /\ r \in KType /\ QueueInv(r)
  /\ r.used = s.used /\ r.base = s.base /\ r.eff = s.eff
  /\ r.current = [s.current EXCEPT ![me] = c]
  /\ r.state[c] = "RUNNING"
  /\ \A t \in Tasks \ {c} :
       r.state[t] = IF t = s.current[me] /\ s.state[t] = "RUNNING"
                    THEN "READY" ELSE s.state[t]

\* ... and of the stamp that goes with it.
StampedSwitch(s, c, r) ==
  /\ r.counter = (s.counter + 1) % SEQ_MOD
  /\ r.seq = [s.seq EXCEPT ![c] = r.counter]

\* switch_to gives the outgoing task back and claims and stamps the incoming.
LEMMA SwitchTo ==
  ASSUME NEW s \in KType, QueueInv(s), NEW me \in Harts, NEW c \in Tasks,
         s.current[me] \in s.used, c # s.current[me]
  PROVE  /\ Switched(s, me, c, switch_to(s, me, c))
         /\ StampedSwitch(s, c, switch_to(s, me, c))
<1> DEFINE g == s.current[me]
           k1 == IF s.state[g] = "RUNNING" THEN set_state(s, me, g, "READY") ELSE s
           k2 == set_state(k1, me, c, "RUNNING")
           k3 == [k2 EXCEPT !.current[me] = c]
           r == on_dispatch(k3, c)
<1>1. g \in Tasks /\ g \in s.used
  BY DEF KType
<1>2. /\ k1 \in KType /\ QueueInv(k1)
      /\ k1.used = s.used /\ SameElsewhere(s, k1)
      /\ \A t \in Tasks : k1.state[t] = IF t = g /\ s.state[t] = "RUNNING"
                                        THEN "READY" ELSE s.state[t]
  <2>1. CASE s.state[g] = "RUNNING"
    <3>1. MadeReady(s, g, k1)
      BY <1>1, <2>1, SetReady
    <3>2. QueueInv(k1)
      BY <1>1, <3>1, MadeReadyQueues
    <3> HIDE DEF k1
    <3> QED BY <1>1, <2>1, <3>1, <3>2 DEF MadeReady, KType
  <2>2. CASE s.state[g] # "RUNNING"
    BY <2>2 DEF SameElsewhere
  <2> QED BY <2>1, <2>2
<1> HIDE DEF k1
<1>3. MadeNotReady(k1, c, "RUNNING", k2)
  BY <1>2, SetNotReady DEF States
<1>4. QueueInv(k2)
  BY <1>2, <1>3, MadeNotReadyQueues DEF States
<1> HIDE DEF k2
<1>5. /\ k2 \in KType /\ k2.used = s.used /\ SameElsewhere(s, k2)
      /\ k2.state[c] = "RUNNING"
      /\ \A t \in Tasks \ {c} : k2.state[t] = k1.state[t]
  BY <1>2, <1>3 DEF MadeNotReady, SameElsewhere, KType
<1>6. /\ k3 \in KType /\ k3.current = [k2.current EXCEPT ![me] = c]
      /\ k3.state = k2.state /\ k3.queues = k2.queues /\ k3.bitmap = k2.bitmap
      /\ k3.used = k2.used /\ k3.base = k2.base /\ k3.eff = k2.eff
      /\ k3.seq = k2.seq /\ k3.counter = k2.counter
  BY <1>5, StoreCurrent
<1> HIDE DEF k3
<1>7. Stamped(k3, c, r)
  BY <1>6, OnDispatch
<1>8. r = switch_to(s, me, c)
  BY DEF switch_to, k1, k2, k3
<1> HIDE DEF r
<1>9. QueueInv(r)
  BY <1>4, <1>6, <1>7 DEF QueueInv, Stamped
<1>10. Switched(s, me, c, r)
  BY <1>2, <1>5, <1>6, <1>7, <1>9 DEF Switched, Stamped, SameElsewhere
<1>11. StampedSwitch(s, c, r)
  BY <1>5, <1>6, <1>7 DEF StampedSwitch, Stamped, SameElsewhere
<1> QED BY <1>8, <1>10, <1>11

\* on_tick_locked leaves the record alone when it keeps the task, and switches
\* to the best ready task otherwise.
LEMMA OnTickLocked ==
  ASSUME NEW s \in KType, QueueInv(s), NEW me \in Harts,
         s.current[me] # NO_TASK => s.current[me] \in s.used
  PROVE  LET r == on_tick_locked(s, me)
         IN  \/ r = s /\ (s.current[me] = NO_TASK \/ ~Switches(s, me))
             \/ /\ s.current[me] # NO_TASK
                /\ BestReady(s, schedule(s)) /\ schedule(s) # s.current[me]
                /\ Switched(s, me, schedule(s), r)
                /\ StampedSwitch(s, schedule(s), r)
<1>1. heal(s) = s
  BY HealsNothing
<1>2. CASE s.current[me] # NO_TASK /\ Switches(s, me)
  <2>1. schedule(s) # NO_TASK /\ schedule(s) # s.current[me]
    BY <1>2 DEF Switches
  <2>2. BestReady(s, schedule(s))
    BY <2>1, ScheduleChoice
  <2>3. on_tick_locked(s, me) = switch_to(s, me, schedule(s))
    BY <1>1, <1>2 DEF on_tick_locked
  <2>4. schedule(s) \in Tasks
    BY <2>2 DEF BestReady
  <2>5. /\ Switched(s, me, schedule(s), switch_to(s, me, schedule(s)))
        /\ StampedSwitch(s, schedule(s), switch_to(s, me, schedule(s)))
    BY <1>2, <2>1, <2>4, SwitchTo
  <2> QED BY <1>2, <2>1, <2>2, <2>3, <2>5
<1>3. CASE ~(s.current[me] # NO_TASK /\ Switches(s, me))
  BY <1>1, <1>3 DEF on_tick_locked
<1> QED BY <1>2, <1>3

\* A hart's first dispatch.
LEMMA FirstDispatch ==
  ASSUME NEW s \in KType, QueueInv(s), NEW me \in Harts,
         s.current[me] = NO_TASK, schedule(s) # NO_TASK
  PROVE  /\ BestReady(s, schedule(s))
         /\ Switched(s, me, schedule(s), first_dispatch(s, me))
         /\ StampedSwitch(s, schedule(s), first_dispatch(s, me))
<1> DEFINE c == schedule(s)
           k1 == [s EXCEPT !.current[me] = c]
           k2 == set_state(k1, me, c, "RUNNING")
           r == on_dispatch(k2, c)
<1>1. BestReady(s, c)
  BY ScheduleChoice
<1>2. c \in Tasks
  BY <1>1 DEF BestReady
<1>3. first_dispatch(s, me) = r
  BY HealsNothing DEF first_dispatch
<1> HIDE DEF c
<1>4. /\ k1 \in KType /\ k1.current = [s.current EXCEPT ![me] = c]
      /\ k1.state = s.state /\ k1.queues = s.queues /\ k1.bitmap = s.bitmap
      /\ k1.used = s.used /\ k1.base = s.base /\ k1.eff = s.eff
      /\ k1.seq = s.seq /\ k1.counter = s.counter
  BY <1>2, StoreCurrent
<1> HIDE DEF k1
<1>5. QueueInv(k1)
  BY <1>4 DEF QueueInv
<1>6. MadeNotReady(k1, c, "RUNNING", k2)
  BY <1>2, <1>4, SetNotReady DEF States
<1>7. QueueInv(k2)
  BY <1>2, <1>4, <1>5, <1>6, MadeNotReadyQueues DEF States
<1> HIDE DEF k2
<1>8. /\ k2 \in KType /\ k2.used = k1.used /\ SameElsewhere(k1, k2)
      /\ k2.state[c] = "RUNNING"
      /\ \A t \in Tasks \ {c} : k2.state[t] = k1.state[t]
  BY <1>2, <1>4, <1>6 DEF MadeNotReady, KType
<1>9. Stamped(k2, c, r)
  BY <1>2, <1>8, OnDispatch
<1> HIDE DEF r
<1>10. QueueInv(r)
  BY <1>7, <1>9 DEF QueueInv, Stamped
<1>11. \A t \in Tasks : t # s.current[me]
  BY DEF Tasks, NO_TASK
<1>12. Switched(s, me, c, r)
  BY <1>4, <1>8, <1>9, <1>10, <1>11 DEF Switched, Stamped, SameElsewhere
<1>13. StampedSwitch(s, c, r)
  BY <1>4, <1>8, <1>9 DEF StampedSwitch, Stamped, SameElsewhere
<1> QED BY <1>1, <1>3, <1>12, <1>13 DEF c

\* Blocking the faulting task and dispatching the next one.
LEMMA Isolate ==
  ASSUME NEW s \in KType, QueueInv(s), NEW me \in Harts, NEW k1,
         s.current[me] \in Tasks,
         k1 = set_state(s, me, s.current[me], "BLOCKED"),
         schedule(k1) # NO_TASK
  PROVE  /\ MadeNotReady(s, s.current[me], "BLOCKED", k1)
         /\ QueueInv(k1)
         /\ BestReady(k1, schedule(k1))
         /\ schedule(k1) # s.current[me]
         /\ Switched(k1, me, schedule(k1), isolate(s, me))
<1> DEFINE f == s.current[me]
           c == schedule(k1)
           k2 == set_state(k1, me, c, "RUNNING")
           r == [k2 EXCEPT !.current[me] = c]
<1>1. MadeNotReady(s, f, "BLOCKED", k1)
  BY SetNotReady DEF States
<1>2. QueueInv(k1)
  BY <1>1, MadeNotReadyQueues DEF States
<1>3. k1 \in KType /\ k1.current = s.current
  BY <1>1 DEF MadeNotReady, SameElsewhere
<1>4. BestReady(k1, c)
  BY <1>2, <1>3, ScheduleChoice
<1>5. c \in Tasks /\ c # f /\ k1.state[f] = "BLOCKED"
  <2>1. k1.state[f] = "BLOCKED"
    BY <1>1 DEF MadeNotReady, KType
  <2>2. c \in Tasks /\ k1.state[c] = "READY"
    BY <1>4 DEF BestReady
  <2>. QED
    BY <2>1, <2>2
<1>6. isolate(s, me) = r
  BY <1>2, <1>3, HealsNothing DEF isolate
<1> HIDE DEF c
<1>7. MadeNotReady(k1, c, "RUNNING", k2)
  BY <1>3, <1>5, SetNotReady DEF States
<1>8. QueueInv(k2)
  BY <1>2, <1>3, <1>5, <1>7, MadeNotReadyQueues DEF States
<1> HIDE DEF k2
<1>9. /\ k2 \in KType /\ k2.used = k1.used /\ SameElsewhere(k1, k2)
      /\ k2.state[c] = "RUNNING"
      /\ \A t \in Tasks \ {c} : k2.state[t] = k1.state[t]
  <2>1. k1.state \in [Tasks -> States]
    BY <1>3 DEF KType
  <2>2. k2.state = [k1.state EXCEPT ![c] = "RUNNING"]
    BY <1>7 DEF MadeNotReady
  <2>. QED
    BY <1>5, <1>7, <2>1, <2>2 DEF MadeNotReady
<1>10. /\ r \in KType /\ r.current = [k2.current EXCEPT ![me] = c]
       /\ r.state = k2.state /\ r.queues = k2.queues /\ r.bitmap = k2.bitmap
       /\ r.used = k2.used /\ r.base = k2.base /\ r.eff = k2.eff
  BY <1>5, <1>9, StoreCurrent
<1> HIDE DEF r
<1>11. QueueInv(r)
  BY <1>8, <1>10 DEF QueueInv
<1>12. Switched(k1, me, c, r)
  BY <1>3, <1>5, <1>9, <1>10, <1>11 DEF Switched, SameElsewhere
<1> QED BY <1>1, <1>2, <1>4, <1>5, <1>6, <1>12 DEF c

\* Unblocking the tasks of W.
Unblocked(s, W, r) ==
  /\ r \in KType /\ QueueInv(r)
  /\ r.used = s.used /\ SameElsewhere(s, r)
  /\ \A t \in Tasks : r.state[t] = IF t \in W \cap s.used THEN "READY" ELSE s.state[t]

\* wake_other_harts pends interrupts and changes nothing else.
LEMMA WakeOtherHarts ==
  ASSUME NEW s \in KType, NEW me \in Harts
  PROVE  LET r == wake_other_harts(s, me)
         IN  /\ r \in KType
             /\ r.state = s.state /\ r.queues = s.queues /\ r.bitmap = s.bitmap
             /\ r.used = s.used /\ SameElsewhere(s, r)
<1>1. s.msip \cup (Harts \ {me}) \in SUBSET Harts
  BY DEF KType
<1> QED BY <1>1 DEF wake_other_harts, KType, SameElsewhere

\* Expired deadlines make the registered ones among the tasks READY.
LEMMA UnblockAll ==
  ASSUME NEW s \in KType, QueueInv(s), NEW me \in Harts, NEW W \in SUBSET Tasks
  PROVE  Unblocked(s, W, unblock_all(s, me, W))
<1> DEFINE U == W \cap s.used
           st == [t \in Tasks |-> IF t \in U THEN "READY" ELSE s.state[t]]
           qs == [p \in Prios |-> s.queues[p] \cup {t \in U : s.eff[t] = p}]
           bm == s.bitmap \cup {s.eff[t] : t \in U}
           k1 == [s EXCEPT !.state = st, !.queues = qs, !.bitmap = bm]
<1>1. CASE U = {}
  BY <1>1 DEF unblock_all, Unblocked, SameElsewhere
<1>2. CASE U # {}
  <2>1. st \in [Tasks -> States] /\ qs \in [Prios -> SUBSET Tasks] /\ bm \in SUBSET Prios
    BY DEF KType, States
  <2>2. unblock_all(s, me, W) = wake_other_harts(k1, me)
    BY <1>2 DEF unblock_all
  <2> HIDE DEF st, qs, bm
  <2>3. /\ k1 \in KType /\ k1.state = st /\ k1.queues = qs /\ k1.bitmap = bm
        /\ k1.used = s.used /\ SameElsewhere(s, k1)
    BY <2>1 DEF KType, SameElsewhere
  <2> HIDE DEF k1
  <2>4. QueueInv(k1)
    <3>1. ASSUME NEW p \in Prios PROVE p \in k1.bitmap <=> k1.queues[p] # {}
      BY <2>3 DEF QueueInv, bm, qs, KType
    <3>2. ASSUME NEW p \in Prios, NEW t \in Tasks
          PROVE  t \in k1.queues[p]
                   <=> t \in k1.used /\ k1.state[t] = "READY" /\ k1.eff[t] = p
      BY <2>3 DEF QueueInv, st, qs, KType, SameElsewhere
    <3> QED BY <3>1, <3>2 DEF QueueInv
  <2>5. LET r == wake_other_harts(k1, me)
        IN  /\ r \in KType
            /\ r.state = k1.state /\ r.queues = k1.queues /\ r.bitmap = k1.bitmap
            /\ r.used = k1.used /\ SameElsewhere(k1, r)
    BY <2>3, WakeOtherHarts
  <2>6. QueueInv(wake_other_harts(k1, me))
    BY <2>4, <2>5 DEF QueueInv, SameElsewhere
  <2> QED BY <2>2, <2>3, <2>5, <2>6 DEF Unblocked, SameElsewhere, st
<1> QED BY <1>1, <1>2

\* Registering a task in the first free slot.
Registered(s, id, r) ==
  /\ r \in KType /\ QueueInv(r)
  /\ id \in Tasks \ s.used
  /\ r.used = s.used \cup {id}
  /\ r.current = s.current /\ r.seq = s.seq /\ r.counter = s.counter
  /\ r.state = [s.state EXCEPT ![id] = "READY"]
  /\ \A t \in Tasks \ {id} : r.eff[t] = s.eff[t]

\* register_full makes the first free slot a READY task.
LEMMA RegisterFull ==
  ASSUME NEW s \in KType, QueueInv(s), NEW me \in Harts, NEW priority \in Prios,
         FreeSlots(s) # {}
  PROVE  Registered(s, FirstFree(s), register_full(s, me, priority))
<1> DEFINE id == FirstFree(s)
           k1 == [s EXCEPT !.used = @ \cup {id},
                           !.state[id] = "READY",
                           !.base[id] = priority,
                           !.eff[id] = priority]
           r == ready_add(k1, me, id)
<1>1. id \in FreeSlots(s)
  <2>1. FreeSlots(s) \subseteq Nat
    BY DEF FreeSlots, Tasks
  <2> QED BY <2>1, NatMin DEF FirstFree
<1>2. id \in Tasks /\ id \notin s.used
  BY <1>1 DEF FreeSlots
<1> HIDE DEF id
<1>3. register_full(s, me, priority) = r
  BY DEF register_full, id
<1>4. /\ s.used \cup {id} \in SUBSET Tasks
      /\ [s.state EXCEPT ![id] = "READY"] \in [Tasks -> States]
      /\ [s.base EXCEPT ![id] = priority] \in [Tasks -> Prios]
      /\ [s.eff EXCEPT ![id] = priority] \in [Tasks -> Prios]
  BY <1>2 DEF KType, States
<1>5. /\ k1 \in KType /\ k1.used = s.used \cup {id}
      /\ k1.state = [s.state EXCEPT ![id] = "READY"]
      /\ k1.eff = [s.eff EXCEPT ![id] = priority]
      /\ k1.queues = s.queues /\ k1.bitmap = s.bitmap
      /\ k1.current = s.current /\ k1.seq = s.seq /\ k1.counter = s.counter
  BY <1>2, <1>4 DEF KType
<1> HIDE DEF k1
<1>6. /\ r \in KType
      /\ r.queues = [k1.queues EXCEPT ![k1.eff[id]] = @ \cup {id}]
      /\ r.bitmap = k1.bitmap \cup {k1.eff[id]}
      /\ r.state = k1.state /\ r.used = k1.used
      /\ SameElsewhere(k1, r)
  BY <1>2, <1>5, ReadyAdd
<1> HIDE DEF r
<1>7. k1.eff[id] = priority /\ \A t \in Tasks \ {id} : k1.eff[t] = s.eff[t]
  BY <1>2, <1>5 DEF KType
<1>8. QueueInv(r)
  <2>1. ASSUME NEW p \in Prios PROVE p \in r.bitmap <=> r.queues[p] # {}
    BY <1>5, <1>6, <1>7 DEF QueueInv, KType
  <2>2. ASSUME NEW p \in Prios, NEW t \in Tasks
        PROVE  t \in r.queues[p] <=> t \in r.used /\ r.state[t] = "READY" /\ r.eff[t] = p
    BY <1>2, <1>5, <1>6, <1>7 DEF QueueInv, KType, SameElsewhere
  <2> QED BY <2>1, <2>2 DEF QueueInv
<1>9. Registered(s, id, r)
  BY <1>2, <1>5, <1>6, <1>7, <1>8 DEF Registered, SameElsewhere
<1> QED BY <1>3, <1>9 DEF id

-----------------------------------------------------------------------------
\* A hart's current task is registered.
CurrentUsed(s) ==
  \A h \in Harts : s.current[h] # NO_TASK => s.current[h] \in s.used

\* A current task that does not sleep is never READY or SUSPENDED.
CurrentAwake(s) ==
  \A h \in Harts : s.current[h] \in Tasks \ Sleepers =>
    s.state[s.current[h]] \in {"RUNNING", "BLOCKED"}

\* SingleOwnerAwake and RunningIsCurrent of a scheduler record.
OwnedOnce(s) ==
  \A g, h \in Harts : g # h /\ s.current[g] \in Tasks \ Sleepers
                        => s.current[g] # s.current[h]

RunningOwned(s) ==
  \A t \in Tasks : s.state[t] = "RUNNING" => \E h \in Harts : s.current[h] = t

KInv(s) ==
  /\ s \in KType
  /\ QueueInv(s)
  /\ CurrentUsed(s)
  /\ CurrentAwake(s)
  /\ OwnedOnce(s)
  /\ RunningOwned(s)

\* Only parkers reach park_forever's labels.
ParkPc == \A t \in Tasks : pc[t] \in {"park_queue", "parked"} => t \in Parkers

IInv == TypeOK /\ KInv(k) /\ armed \subseteq Sleepers /\ ParkPc

-----------------------------------------------------------------------------
\* A switch of hart me to the best ready task keeps the invariant.
LEMMA SwitchedKInv ==
  ASSUME NEW s, KInv(s), NEW me \in Harts, NEW c, BestReady(s, c), NEW r,
         Switched(s, me, c, r)
  PROVE  KInv(r)
<1>. /\ s \in KType /\ r \in KType /\ QueueInv(r)
     /\ c \in Tasks /\ c \in s.used /\ s.state[c] = "READY"
  BY DEF KInv, BestReady, Switched
<1>. /\ s.current \in [Harts -> Tasks \cup {NO_TASK}]
     /\ s.state \in [Tasks -> States] /\ NO_TASK \notin Tasks
  BY DEF KType, NO_TASK, Tasks
<1>1. /\ r.used = s.used /\ r.state[c] = "RUNNING" /\ r.current[me] = c
      /\ \A h \in Harts \ {me} : r.current[h] = s.current[h]
      /\ \A t \in Tasks \ {c} :
           r.state[t] = IF t = s.current[me] /\ s.state[t] = "RUNNING"
                        THEN "READY" ELSE s.state[t]
  BY DEF Switched
<1>2. CurrentUsed(r)
  BY <1>1 DEF KInv, CurrentUsed
<1>3. OwnedOnce(r)
  BY <1>1 DEF KInv, OwnedOnce, CurrentAwake
<1>4. CurrentAwake(r)
  BY <1>1 DEF KInv, OwnedOnce, CurrentAwake
<1>5. RunningOwned(r)
  BY <1>1 DEF KInv, RunningOwned
<1>. QED
  BY <1>2, <1>3, <1>4, <1>5 DEF KInv

\* Making a task READY keeps the invariant when no hart runs the task, or it
\* is a sleeper.
LEMMA ReadyKInv ==
  ASSUME NEW s, KInv(s), NEW id \in Tasks, NEW r, id \in s.used,
         MadeReady(s, id, r),
         id \in Sleepers \/ s.state[id] = "SUSPENDED"
  PROVE  KInv(r)
<1>. s \in KType /\ r \in KType
  BY DEF KInv, MadeReady
<1>1. QueueInv(r)
  BY MadeReadyQueues DEF KInv
<1>2. /\ r.used = s.used /\ r.current = s.current
      /\ r.state = [s.state EXCEPT ![id] = "READY"]
  BY DEF MadeReady, SameElsewhere
<1>. /\ s.current \in [Harts -> Tasks \cup {NO_TASK}]
     /\ s.state \in [Tasks -> States]
  BY DEF KType
<1>. QED
  BY <1>1, <1>2 DEF KInv, CurrentUsed, CurrentAwake, OwnedOnce, RunningOwned

\* So does taking a task out of READY: to BLOCKED in any case, to SUSPENDED
\* when the task was READY.
LEMMA NotReadyKInv ==
  ASSUME NEW s, KInv(s), NEW id \in Tasks, NEW st \in {"BLOCKED", "SUSPENDED"},
         NEW r, MadeNotReady(s, id, st, r),
         st = "BLOCKED" \/ s.state[id] = "READY"
  PROVE  KInv(r)
<1>. s \in KType /\ r \in KType
  BY DEF KInv, MadeNotReady
<1>1. QueueInv(r)
  BY MadeNotReadyQueues DEF KInv, States
<1>2. /\ r.used = s.used /\ r.current = s.current
      /\ r.state = [s.state EXCEPT ![id] = st]
  BY DEF MadeNotReady, SameElsewhere
<1>. /\ s.current \in [Harts -> Tasks \cup {NO_TASK}]
     /\ s.state \in [Tasks -> States]
  BY DEF KType
<1>. QED
  BY <1>1, <1>2 DEF KInv, CurrentUsed, CurrentAwake, OwnedOnce, RunningOwned

\* Expired deadlines wake sleepers only.
LEMMA UnblockedKInv ==
  ASSUME NEW s, KInv(s), NEW W \in SUBSET Sleepers, NEW r, Unblocked(s, W, r)
  PROVE  KInv(r)
<1>. s \in KType /\ r \in KType /\ QueueInv(r)
  BY DEF KInv, Unblocked
<1>2. /\ r.used = s.used /\ r.current = s.current
      /\ \A t \in Tasks : r.state[t] = IF t \in W \cap s.used THEN "READY" ELSE s.state[t]
  BY DEF Unblocked, SameElsewhere
<1>. /\ s.current \in [Harts -> Tasks \cup {NO_TASK}]
     /\ s.state \in [Tasks -> States]
  BY DEF KType
<1>. QED
  BY <1>2 DEF KInv, CurrentUsed, CurrentAwake, OwnedOnce, RunningOwned

\* A registration takes a slot no hart runs.
LEMMA RegisteredKInv ==
  ASSUME NEW s, KInv(s), NEW id, NEW r, Registered(s, id, r)
  PROVE  KInv(r)
<1>. s \in KType /\ r \in KType /\ QueueInv(r)
  BY DEF KInv, Registered
<1>2. /\ id \in Tasks \ s.used
      /\ r.used = s.used \cup {id} /\ r.current = s.current
      /\ r.state = [s.state EXCEPT ![id] = "READY"]
  BY DEF Registered
<1>. /\ s.current \in [Harts -> Tasks \cup {NO_TASK}]
     /\ s.state \in [Tasks -> States] /\ NO_TASK \notin Tasks
  BY DEF KType, NO_TASK, Tasks
<1>. QED
  BY <1>2 DEF KInv, CurrentUsed, CurrentAwake, OwnedOnce, RunningOwned

\* Pending or acknowledging interrupts touches nothing the invariant reads.
LEMMA MsipKInv ==
  ASSUME NEW s, KInv(s), NEW r \in KType,
         r.state = s.state, r.queues = s.queues, r.bitmap = s.bitmap,
         r.used = s.used, r.eff = s.eff, r.current = s.current
  PROVE  KInv(r)
BY DEF KInv, QueueInv, CurrentUsed, CurrentAwake, OwnedOnce, RunningOwned

\* Acknowledging this hart's software interrupt.
LEMMA AckKInv ==
  ASSUME NEW s, KInv(s), NEW h
  PROVE  KInv([s EXCEPT !.msip = @ \ {h}])
<1>. DEFINE r == [s EXCEPT !.msip = @ \ {h}]
<1>. s \in KType
  BY DEF KInv
<1>1. s.msip \ {h} \in SUBSET Harts
  BY DEF KType
<1>2. /\ r \in KType
      /\ r.state = s.state /\ r.queues = s.queues /\ r.bitmap = s.bitmap
      /\ r.used = s.used /\ r.eff = s.eff /\ r.current = s.current
  BY <1>1 DEF KType
<1>. QED
  BY <1>2, MsipKInv

-----------------------------------------------------------------------------
\* The state run() is called in satisfies the invariant.
LEMMA InitIInv == Init => IInv
<1>. USE PreemptAssumption
<1>. SUFFICES ASSUME Init PROVE IInv
  OBVIOUS
<1>. DEFINE U == {t \in Tasks : BootUsed(t)}
            P == [t \in Tasks |-> BootPrio(t)]
            Q == [p \in Prios |-> {t \in Tasks : BootUsed(t) /\ BootPrio(t) = p}]
            B == {BootPrio(t) : t \in {u \in Tasks : BootUsed(u)}}
<1>1. \A t \in Tasks : BootPrio(t) \in Prios
  <2>. SUFFICES ASSUME NEW t \in Tasks PROVE BootPrio(t) \in Prios
    OBVIOUS
  <2>1. 0 \in Prios
    BY DEF Prios
  <2>2. CASE t = IDLE \/ ~BootUsed(t)
    BY <2>1, <2>2 DEF BootPrio
  <2>3. CASE t # IDLE /\ BootTasks[t] >= 0
    <3>1. t \in 1..(MAX_PTASKS - 1)
      BY <2>3 DEF Tasks, IDLE
    <3>2. BootTasks[t] \in Prios \cup {-1}
      BY <3>1
    <3>. QED
      BY <2>3, <3>2 DEF BootPrio, BootUsed
  <2>. QED
    BY <2>2, <2>3 DEF BootUsed
<1>2. /\ U \in SUBSET Tasks /\ P \in [Tasks -> Prios]
      /\ Q \in [Prios -> SUBSET Tasks] /\ B \in SUBSET Prios
  BY <1>1
<1>3. /\ \A t \in Tasks : t \in U <=> BootUsed(t)
      /\ \A t \in Tasks : P[t] = BootPrio(t)
      /\ \A p \in Prios : \A t \in Tasks : t \in Q[p] <=> BootUsed(t) /\ BootPrio(t) = p
      /\ \A p \in Prios : p \in B <=> Q[p] # {}
  OBVIOUS
<1>4. k = [EmptySched EXCEPT !.used = U, !.base = P, !.eff = P,
                             !.queues = Q, !.bitmap = B]
  BY DEF Init
<1>. HIDE DEF U, P, Q, B
<1>5. /\ 0 \in Stamps /\ 0 \in Prios /\ NO_TASK \notin Tasks
  BY DEF Stamps, Prios, NO_TASK, Tasks
<1>6. /\ k.used = U /\ k.base = P /\ k.eff = P /\ k.queues = Q /\ k.bitmap = B
      /\ k.state = [t \in Tasks |-> "READY"]
      /\ k.current = [h \in Harts |-> NO_TASK]
      /\ k \in KType
  BY <1>2, <1>4, <1>5 DEF EmptySched, KType, States
<1>7. QueueInv(k)
  BY <1>3, <1>6 DEF QueueInv
<1>8. KInv(k)
  BY <1>5, <1>6, <1>7 DEF KInv, CurrentUsed, CurrentAwake, OwnedOnce, RunningOwned
<1>9. TypeOK
  BY <1>6 DEF Init, TypeOK, PcLabels
<1>. QED
  BY <1>8, <1>9 DEF IInv, ParkPc, Init

\* The parts of the invariant that are not about the scheduler record follow
\* from the step's effect on pc and armed alone.
LEMMA StepIInv ==
  ASSUME TypeOK', KInv(k)', armed' \subseteq armed \/ armed' \subseteq Sleepers,
         IInv, pc' = pc
  PROVE  IInv'
BY DEF IInv, ParkPc

\* Every step keeps the invariant.
LEMMA NextIInv ==
  ASSUME Sleepers \cap Parkers = {}, IInv, [Next]_vars
  PROVE  IInv'
<1>. USE PreemptAssumption
<1>. /\ TypeOK /\ KInv(k) /\ armed \subseteq Sleepers /\ ParkPc
     /\ k \in KType /\ QueueInv(k) /\ CurrentUsed(k)
  BY DEF IInv, KInv
<1>. /\ k.current \in [Harts -> Tasks \cup {NO_TASK}]
     /\ k.state \in [Tasks -> States] /\ NO_TASK \notin Tasks
     /\ k.eff \in [Tasks -> Prios] /\ k.used \in SUBSET Tasks
  BY DEF KType, NO_TASK, Tasks
<1>t. /\ pc \in [Tasks -> PcLabels] /\ armed \subseteq Tasks
      /\ isr \in [Harts -> {"none", "on_tick"}] /\ ready \in BOOLEAN
      /\ halted \in BOOLEAN /\ faulted \subseteq Tasks
  BY DEF TypeOK
<1>u. CASE UNCHANGED vars
  <2>1. /\ k' = k /\ pc' = pc /\ armed' = armed /\ isr' = isr
        /\ ready' = ready /\ halted' = halted /\ faulted' = faulted
    BY <1>u DEF vars
  <2>2. TypeOK'
    BY <2>1 DEF TypeOK
  <2>. QED
    BY <2>1, <2>2, StepIInv
<1>run. CASE Run
  <2>1. /\ k' = k /\ pc' = pc /\ armed' = armed
    BY <1>run DEF Run
  <2>2. TypeOK'
    BY <1>run DEF TypeOK, Run
  <2>. QED
    BY <2>1, <2>2, StepIInv
<1>start. ASSUME NEW h \in Harts, Start(h) PROVE IInv'
  <2>. /\ pc' = pc /\ armed' = armed /\ isr' = isr /\ ready' = ready /\ faulted' = faulted
       /\ k.current[h] = NO_TASK
    BY <1>start DEF Start
  <2>1. KInv(k') /\ halted' \in BOOLEAN
    <3>1. CASE schedule(k) # NO_TASK /\ k' = first_dispatch(k, h) /\ UNCHANGED halted
      BY <3>1, <1>t, FirstDispatch, SwitchedKInv
    <3>2. CASE halted' = TRUE /\ UNCHANGED k
      BY <3>2
    <3>. QED
      BY <1>start, <3>1, <3>2 DEF Start
  <2>2. TypeOK'
    BY <2>1, <1>t DEF TypeOK, KInv
  <2>. QED
    BY <2>1, <2>2, StepIInv
<1>tick. ASSUME NEW h \in Harts, Tick(h) PROVE IInv'
  <2>. /\ pc' = pc /\ ready' = ready /\ halted' = halted /\ faulted' = faulted
       /\ isr' = [isr EXCEPT ![h] = "on_tick"]
    BY <1>tick DEF Tick
  <2>. PICK E \in SUBSET armed :
         /\ armed' = armed \ E
         /\ k' = IF E = {} THEN k ELSE wake_other_harts(unblock_all(k, h, E), h)
    BY <1>tick DEF Tick
  <2>1. KInv(k')
    <3>1. CASE E = {}
      BY <3>1
    <3>2. CASE E # {}
      <4>. DEFINE r == unblock_all(k, h, E)
      <4>1. E \in SUBSET Tasks /\ E \in SUBSET Sleepers
        OBVIOUS
      <4>2. KInv(r)
        BY <4>1, UnblockAll, UnblockedKInv
      <4>. HIDE DEF r
      <4>3. r \in KType
        BY <4>2 DEF KInv
      <4>4. KInv(wake_other_harts(r, h))
        BY <4>2, <4>3, WakeOtherHarts, MsipKInv DEF SameElsewhere
      <4>. QED
        BY <3>2, <4>4 DEF r
    <3>. QED
      BY <3>1, <3>2
  <2>2. TypeOK'
    BY <2>1, <1>t DEF TypeOK, KInv
  <2>. QED
    BY <2>1, <2>2, StepIInv
<1>soft. ASSUME NEW h \in Harts, SoftIrq(h) PROVE IInv'
  <2>1. /\ pc' = pc /\ armed' = armed /\ ready' = ready /\ halted' = halted
        /\ faulted' = faulted /\ isr' = [isr EXCEPT ![h] = "on_tick"]
        /\ k' = [k EXCEPT !.msip = @ \ {h}]
    BY <1>soft DEF SoftIrq
  <2>2. KInv(k')
    BY <2>1, AckKInv
  <2>3. TypeOK'
    BY <2>1, <2>2, <1>t DEF TypeOK, KInv
  <2>. QED
    BY <2>1, <2>2, <2>3, StepIInv
<1>on. ASSUME NEW h \in Harts, OnTick(h) PROVE IInv'
  <2>1. /\ pc' = pc /\ armed' = armed /\ ready' = ready /\ halted' = halted
        /\ faulted' = faulted /\ isr' = [isr EXCEPT ![h] = "none"]
        /\ k' = on_tick_locked(k, h)
    BY <1>on DEF OnTick
  <2>2. k.current[h] # NO_TASK => k.current[h] \in k.used
    BY DEF CurrentUsed
  <2>3. KInv(k')
    BY <2>1, <2>2, OnTickLocked, SwitchedKInv
  <2>4. TypeOK'
    BY <2>1, <2>3, <1>t DEF TypeOK, KInv
  <2>. QED
    BY <2>1, <2>3, <2>4, StepIInv
<1>fault. ASSUME NEW h \in Harts, OnTickFault(h) PROVE IInv'
  <2>. DEFINE t == k.current[h]
              k1 == set_state(k, h, t, "BLOCKED")
  <2>0. heal(k) = k
    BY HealsNothing
  <2>1. /\ pc' = pc /\ armed' = armed /\ ready' = ready
        /\ isr' = [isr EXCEPT ![h] = "none"]
        /\ t \in Faulters
        /\ \/ schedule(k1) = NO_TASK /\ halted' = TRUE /\ k' = k1 /\ UNCHANGED faulted
           \/ /\ schedule(k1) # NO_TASK /\ k' = isolate(k, h)
              /\ faulted' = faulted \cup {t} /\ UNCHANGED halted
    BY <1>fault, <2>0 DEF OnTickFault
  <2>2. t \in Tasks
    BY <2>1
  <2>3. KInv(k1)
    BY <2>2, SetNotReady, NotReadyKInv DEF States
  <2>4. schedule(k1) # NO_TASK => KInv(isolate(k, h))
    BY <2>2, <2>3, Isolate, SwitchedKInv
  <2>5. KInv(k') /\ halted' \in BOOLEAN /\ faulted' \subseteq Tasks
    BY <2>1, <2>2, <2>3, <2>4, <1>t
  <2>6. TypeOK'
    BY <2>1, <2>5, <1>t DEF TypeOK, KInv
  <2>. QED
    BY <2>1, <2>5, <2>6, StepIInv
<1>task. ASSUME NEW h \in Harts, NEW t \in Tasks, TaskStep(h, t) PROVE IInv'
  <2>x. CASE SleepBegin(h, t)
    <3>1. /\ k.current[h] = t /\ t \in Sleepers
          /\ k' = set_state(k, h, t, "BLOCKED") /\ armed' = armed \cup {t}
          /\ pc' = [pc EXCEPT ![t] = "resched"]
          /\ isr' = isr /\ ready' = ready /\ halted' = halted /\ faulted' = faulted
      BY <2>x DEF SleepBegin, At, block_current
    <3>2. KInv(k')
      BY <3>1, SetNotReady, NotReadyKInv DEF States
    <3>3. TypeOK'
      BY <3>1, <3>2, <1>t DEF TypeOK, KInv, PcLabels
    <3>4. ParkPc'
      BY <3>1, <1>t DEF ParkPc
    <3>. QED
      BY <3>1, <3>2, <3>3, <3>4 DEF IInv
  <2>r. CASE SleepResched(h, t) \/ YieldNow(h, t) \/ ParkLoop(h, t)
    <3>1. /\ k' = [k EXCEPT !.msip = @ \ {h}] /\ armed' = armed
          /\ pc' = pc \/ pc' = [pc EXCEPT ![t] = "cancel"]
          /\ isr' = [isr EXCEPT ![h] = "on_tick"]
          /\ ready' = ready /\ halted' = halted /\ faulted' = faulted
      BY <2>r DEF SleepResched, YieldNow, ParkLoop, RequestReschedule
    <3>2. KInv(k')
      BY <3>1, AckKInv
    <3>3. TypeOK'
      BY <3>1, <3>2, <1>t DEF TypeOK, KInv, PcLabels
    <3>4. ParkPc'
      BY <3>1, <1>t DEF ParkPc
    <3>. QED
      BY <3>1, <3>2, <3>3, <3>4 DEF IInv
  <2>e. CASE SleepEnd(h, t)
    <3>1. /\ k' = k /\ armed' = armed \ {t} /\ pc' = [pc EXCEPT ![t] = "run"]
          /\ isr' = isr /\ ready' = ready /\ halted' = halted /\ faulted' = faulted
      BY <2>e DEF SleepEnd
    <3>3. TypeOK'
      BY <3>1, <1>t DEF TypeOK, PcLabels
    <3>4. ParkPc'
      BY <3>1, <1>t DEF ParkPc
    <3>. QED
      BY <3>1, <3>3, <3>4 DEF IInv
  <2>ps. CASE ParkState(h, t)
    <3>1. /\ k.current[h] = t /\ t \in Parkers
          /\ k' = [k EXCEPT !.state[t] = "BLOCKED"] /\ armed' = armed
          /\ pc' = [pc EXCEPT ![t] = "park_queue"]
          /\ isr' = isr /\ ready' = ready /\ halted' = halted /\ faulted' = faulted
      BY <2>ps DEF ParkState, At
    <3>2. k.state[t] \in {"RUNNING", "BLOCKED"}
      BY <3>1 DEF KInv, CurrentAwake
    <3>. DEFINE r == [k EXCEPT !.state[t] = "BLOCKED"]
    <3>a. "BLOCKED" \in States
      BY DEF States
    <3>b. /\ r \in KType /\ r.state = [k.state EXCEPT ![t] = "BLOCKED"]
          /\ r.queues = k.queues /\ r.bitmap = k.bitmap /\ r.used = k.used
          /\ SameElsewhere(k, r)
      BY <3>a, StoreState
    <3>3. /\ k' \in KType /\ k'.state = [k.state EXCEPT ![t] = "BLOCKED"]
          /\ k'.queues = k.queues /\ k'.bitmap = k.bitmap /\ k'.used = k.used
          /\ k'.eff = k.eff /\ k'.current = k.current
      BY <3>1, <3>b DEF SameElsewhere
    <3>4. QueueInv(k')
      BY <3>2, <3>3 DEF QueueInv
    <3>5. KInv(k')
      BY <3>3, <3>4 DEF KInv, CurrentUsed, CurrentAwake, OwnedOnce, RunningOwned
    <3>6. TypeOK'
      BY <3>1, <3>5, <1>t DEF TypeOK, KInv, PcLabels
    <3>7. ParkPc'
      BY <3>1, <1>t DEF ParkPc
    <3>. QED
      BY <3>1, <3>5, <3>6, <3>7 DEF IInv
  <2>pq. CASE ParkQueue(h, t)
    <3>1. /\ k.current[h] = t /\ pc[t] = "park_queue"
          /\ k' = ready_remove(k, t) /\ armed' = armed
          /\ pc' = [pc EXCEPT ![t] = "parked"]
          /\ isr' = isr /\ ready' = ready /\ halted' = halted /\ faulted' = faulted
      BY <2>pq DEF ParkQueue, At
    <3>2. t \in Parkers /\ k.state[t] \in {"RUNNING", "BLOCKED"}
      BY <3>1 DEF ParkPc, KInv, CurrentAwake
    <3>3. t \notin k.queues[k.eff[t]]
      BY <3>2 DEF QueueInv
    <3>4. /\ k.queues[k.eff[t]] \ {t} = k.queues[k.eff[t]]
          /\ k.queues[k.eff[t]] # {t}
      BY <3>3
    <3>5. k' = k
      <4>1. k' = [k EXCEPT !.queues[k.eff[t]] = k.queues[k.eff[t]] \ {t},
                           !.bitmap = k.bitmap]
        BY <3>1, <3>4 DEF ready_remove
      <4>2. [k EXCEPT !.queues[k.eff[t]] = k.queues[k.eff[t]] \ {t}] = k
        BY <3>4 DEF KType
      <4>3. [k EXCEPT !.queues[k.eff[t]] = k.queues[k.eff[t]] \ {t},
                      !.bitmap = k.bitmap]
              = [[k EXCEPT !.queues[k.eff[t]] = k.queues[k.eff[t]] \ {t}]
                   EXCEPT !.bitmap = k.bitmap]
        OBVIOUS
      <4>4. [k EXCEPT !.bitmap = k.bitmap] = k
        BY DEF KType
      <4>. QED
        BY <4>1, <4>2, <4>3, <4>4
    <3>6. pc' = [pc EXCEPT ![t] = "parked"]
      BY <3>1
    <3>7. TypeOK'
      <4>1. pc' \in [Tasks -> PcLabels]
        BY <3>6, <1>t DEF PcLabels
      <4>. QED
        BY <3>1, <3>5, <4>1, <1>t DEF TypeOK
    <3>8. ParkPc'
      BY <3>2, <3>6, <1>t DEF ParkPc
    <3>. QED
      BY <3>1, <3>5, <3>7, <3>8 DEF IInv
  <2>pp. ASSUME NEW u \in Pausable, Pause(h, t, u) PROVE IInv'
    <3>1. /\ k.state[u] = "READY" /\ u \in Tasks
          /\ k' = set_state(k, h, u, "SUSPENDED") /\ armed' = armed /\ pc' = pc
          /\ isr' = isr /\ ready' = ready /\ halted' = halted /\ faulted' = faulted
      BY <2>pp DEF Pause, set_state
    <3>2. KInv(k')
      BY <3>1, SetNotReady, NotReadyKInv DEF States
    <3>3. TypeOK'
      BY <3>1, <3>2, <1>t DEF TypeOK, KInv
    <3>. QED
      BY <3>1, <3>2, <3>3, StepIInv
  <2>pr. ASSUME NEW u \in Pausable, Resume(h, t, u) PROVE IInv'
    <3>1. /\ k.state[u] = "SUSPENDED" /\ u \in k.used /\ u \in Tasks
          /\ k' = set_state(k, h, u, "READY") /\ armed' = armed /\ pc' = pc
          /\ isr' = isr /\ ready' = ready /\ halted' = halted /\ faulted' = faulted
      BY <2>pr DEF Resume, set_state
    <3>2. KInv(k')
      BY <3>1, SetReady, ReadyKInv
    <3>3. TypeOK'
      BY <3>1, <3>2, <1>t DEF TypeOK, KInv
    <3>. QED
      BY <3>1, <3>2, <3>3, StepIInv
  <2>s. ASSUME NEW p \in SpawnPrios, Spawn(h, t, p) PROVE IInv'
    <3>1. /\ FreeSlots(k) # {} /\ p \in Prios
          /\ k' = register_full(k, h, p) /\ armed' = armed /\ pc' = pc
          /\ isr' = isr /\ ready' = ready /\ halted' = halted /\ faulted' = faulted
      BY <2>s DEF Spawn
    <3>2. KInv(k')
      BY <3>1, RegisterFull, RegisteredKInv
    <3>3. TypeOK'
      BY <3>1, <3>2, <1>t DEF TypeOK, KInv
    <3>. QED
      BY <3>1, <3>2, <3>3, StepIInv
  <2>. QED
    BY <1>task, <2>x, <2>r, <2>e, <2>ps, <2>pq, <2>pp, <2>pr, <2>s
       DEF TaskStep
<1>. QED
  BY <1>u, <1>run, <1>start, <1>tick, <1>soft, <1>on, <1>fault, <1>task
     DEF Next, HartStep

-----------------------------------------------------------------------------
\* The inductive invariant holds throughout, for every number of harts, tasks
\* and priorities, if no task both sleeps and parks.
THEOREM Invariance ==
  ASSUME Sleepers \cap Parkers = {}
  PROVE  Spec => []IInv
<1>1. Init => IInv
  BY InitIInv
<1>2. IInv /\ [Next]_vars => IInv'
  BY NextIInv
<1>. QED
  BY <1>1, <1>2, PTL DEF Spec

\* set_state, ready_add, ready_remove, switches, faults and registrations on
\* any number of harts keep the state words of preempt/tcb.rs and the queues
\* of preempt/sched.rs in step.
THEOREM QueuesStayConsistent ==
  ASSUME Sleepers \cap Parkers = {}
  PROVE  Spec => [](TypeOK /\ QueueConsistent)
<1>1. IInv => TypeOK /\ QueueConsistent
  BY DEF IInv, KInv, QueueConsistent
<1>2. Spec => []IInv
  BY Invariance
<1>. QED
  BY <1>1, <1>2, PTL

\* on_tick_impl's critical section keeps two harts from claiming one ready
\* task, for every task that does not call sleep_until.
THEOREM AwakeTaskHasOneHart ==
  ASSUME Sleepers \cap Parkers = {}
  PROVE  Spec => []SingleOwnerAwake
<1>1. IInv => SingleOwnerAwake
  BY DEF IInv, KInv, OwnedOnce, SingleOwnerAwake
<1>2. Spec => []IInv
  BY Invariance
<1>. QED
  BY <1>1, <1>2, PTL

\* on_tick_locked gives back every task it leaves: no task stays RUNNING
\* without a hart.
THEOREM RunningTaskHasAHart ==
  ASSUME Sleepers \cap Parkers = {}
  PROVE  Spec => []RunningIsCurrent
<1>1. IInv => RunningIsCurrent
  BY DEF IInv, KInv, RunningOwned, RunningIsCurrent
<1>2. Spec => []IInv
  BY Invariance
<1>. QED
  BY <1>1, <1>2, PTL

\* on_tick_locked, sleep, park and the fault path keep tasks and harts matched,
\* however the harts' handlers interleave.
THEOREM HartsStayMatched ==
  ASSUME Sleepers \cap Parkers = {}
  PROVE  Spec => []HartsMatchTasks
<1>1. RunningIsCurrent /\ SingleOwnerAwake => HartsMatchTasks
  BY DEF HartsMatchTasks
<1>2. Spec => []RunningIsCurrent
  BY RunningTaskHasAHart
<1>3. Spec => []SingleOwnerAwake
  BY AwakeTaskHasOneHart
<1>. QED
  BY <1>1, <1>2, <1>3, PTL

-----------------------------------------------------------------------------
\* A hart that switches to the best ready task of the record satisfies the
\* action property.
LEMMA BestDispatch ==
  ASSUME k \in KType, NEW h \in Harts, NEW c, BestReady(k, c),
         k'.current = [k.current EXCEPT ![h] = c]
  PROVE  DispatchHighest
<1>. k.current \in [Harts -> Tasks \cup {NO_TASK}]
  BY DEF KType
<1>. QED
  BY DEF BestReady, DispatchHighest

\* Every dispatch picks a registered READY task of the highest priority.
LEMMA NextDispatch ==
  ASSUME IInv, [Next]_vars
  PROVE  DispatchHighest
<1>. USE PreemptAssumption
<1>. /\ k \in KType /\ QueueInv(k) /\ CurrentUsed(k)
  BY DEF IInv, KInv
<1>. /\ k.current \in [Harts -> Tasks \cup {NO_TASK}]
     /\ k.state \in [Tasks -> States] /\ NO_TASK \notin Tasks
     /\ k.eff \in [Tasks -> Prios] /\ k.used \in SUBSET Tasks
  BY DEF KType, NO_TASK, Tasks
<1>same. ASSUME k'.current = k.current PROVE DispatchHighest
  BY <1>same DEF DispatchHighest
<1>u. CASE UNCHANGED vars \/ Run
  BY <1>u, <1>same DEF vars, Run
<1>start. ASSUME NEW h \in Harts, Start(h) PROVE DispatchHighest
  <2>1. CASE k' = k
    BY <2>1, <1>same
  <2>2. CASE schedule(k) # NO_TASK /\ k' = first_dispatch(k, h)
    <3>1. k.current[h] = NO_TASK
      BY <1>start DEF Start
    <3>2. BestReady(k, schedule(k)) /\ Switched(k, h, schedule(k), k')
      BY <2>2, <3>1, FirstDispatch
    <3>3. k'.current = [k.current EXCEPT ![h] = schedule(k)]
      BY <3>2 DEF Switched
    <3>. QED
      BY <3>2, <3>3, BestDispatch
  <2>. QED
    BY <1>start, <2>1, <2>2 DEF Start
<1>tick. ASSUME NEW h \in Harts, Tick(h) PROVE DispatchHighest
  <2>. PICK E \in SUBSET armed :
         k' = IF E = {} THEN k ELSE wake_other_harts(unblock_all(k, h, E), h)
    BY <1>tick DEF Tick
  <2>. DEFINE r == unblock_all(k, h, E)
  <2>1. E \in SUBSET Tasks
    BY DEF IInv, TypeOK
  <2>2. r \in KType /\ r.current = k.current
    BY <2>1, UnblockAll DEF Unblocked, SameElsewhere
  <2>. HIDE DEF r
  <2>3. wake_other_harts(r, h).current = k.current
    BY <2>2, WakeOtherHarts DEF SameElsewhere
  <2>4. k' = k \/ k' = wake_other_harts(r, h)
    BY DEF r
  <2>5. k'.current = k.current
    BY <2>3, <2>4
  <2>. QED
    BY <2>5, <1>same
<1>on. ASSUME NEW h \in Harts, OnTick(h) PROVE DispatchHighest
  <2>1. k' = on_tick_locked(k, h)
    BY <1>on DEF OnTick
  <2>2. k.current[h] # NO_TASK => k.current[h] \in k.used
    BY DEF CurrentUsed
  <2>3. \/ k' = k
        \/ BestReady(k, schedule(k)) /\ Switched(k, h, schedule(k), k')
    BY <2>1, <2>2, OnTickLocked
  <2>4. CASE k' = k
    BY <2>4, <1>same
  <2>5. CASE BestReady(k, schedule(k)) /\ Switched(k, h, schedule(k), k')
    <3>1. k'.current = [k.current EXCEPT ![h] = schedule(k)]
      BY <2>5 DEF Switched
    <3>. QED
      BY <2>5, <3>1, BestDispatch
  <2>. QED
    BY <2>3, <2>4, <2>5
<1>fault. ASSUME NEW h \in Harts, OnTickFault(h) PROVE DispatchHighest
  <2>. DEFINE t == k.current[h]
              k1 == set_state(k, h, t, "BLOCKED")
              c == schedule(k1)
  <2>1. heal(k) = k
    BY HealsNothing
  <2>2. /\ t \in Faulters
        /\ \/ k' = k1
           \/ c # NO_TASK /\ k' = isolate(k, h) /\ faulted' = faulted \cup {t}
    BY <1>fault, <2>1 DEF OnTickFault
  <2>3. t \in Tasks
    BY <2>2
  <2>4. CASE k' = k1
    <3>1. MadeNotReady(k, t, "BLOCKED", k1)
      BY <2>3, SetNotReady DEF States
    <3>2. k'.current = k.current
      BY <2>4, <3>1 DEF MadeNotReady, SameElsewhere
    <3>. QED
      BY <3>2, <1>same
  <2>5. CASE c # NO_TASK /\ k' = isolate(k, h) /\ faulted' = faulted \cup {t}
    <3>1. /\ MadeNotReady(k, t, "BLOCKED", k1) /\ BestReady(k1, c)
          /\ c # t /\ Switched(k1, h, c, k')
      BY <2>3, <2>5, Isolate
    <3>. HIDE DEF k1, c
    <3>2. /\ k1.used = k.used /\ k1.eff = k.eff /\ k1.current = k.current
          /\ k1.state = [k.state EXCEPT ![t] = "BLOCKED"]
      BY <3>1 DEF MadeNotReady, SameElsewhere
    <3>3. k'.current = [k.current EXCEPT ![h] = c]
      BY <3>1, <3>2 DEF Switched
    <3>4. /\ c \in Tasks /\ c \in k.used /\ k.state[c] = "READY"
      BY <3>1, <3>2, <2>3 DEF BestReady
    <3>5. ASSUME NEW u \in Tasks \ faulted', u \in k.used, k.state[u] = "READY"
          PROVE  k.eff[u] <= k.eff[c]
      <4>1. u # t
        BY <2>5
      <4>2. u \in k1.used /\ k1.state[u] = "READY"
        BY <3>2, <3>5, <4>1, <2>3
      <4>. QED
        BY <3>1, <3>2, <4>2 DEF BestReady
    <3>. QED
      BY <3>3, <3>4, <3>5 DEF DispatchHighest
  <2>. QED
    BY <2>2, <2>4, <2>5
<1>soft. ASSUME NEW h \in Harts, k' = [k EXCEPT !.msip = @ \ {h}]
         PROVE  DispatchHighest
  BY <1>soft, <1>same DEF KType
<1>task. ASSUME NEW h \in Harts, NEW t \in Tasks, TaskStep(h, t)
         PROVE  DispatchHighest
  <2>1. CASE SleepBegin(h, t)
    <3>1. k' = set_state(k, h, t, "BLOCKED")
      BY <2>1 DEF SleepBegin, At, block_current
    <3>2. MadeNotReady(k, t, "BLOCKED", k')
      BY <3>1, SetNotReady DEF States
    <3>. QED
      BY <3>2, <1>same DEF MadeNotReady, SameElsewhere
  <2>2. CASE SleepResched(h, t) \/ YieldNow(h, t) \/ ParkLoop(h, t)
    BY <2>2, <1>soft DEF SleepResched, YieldNow, ParkLoop, RequestReschedule
  <2>3. CASE SleepEnd(h, t)
    BY <2>3, <1>same DEF SleepEnd
  <2>4. CASE ParkState(h, t) \/ ParkQueue(h, t)
    BY <2>4, <1>same DEF ParkState, ParkQueue, ready_remove, KType
  <2>5. ASSUME NEW u \in Pausable, Pause(h, t, u) PROVE DispatchHighest
    <3>1. k' = set_state(k, h, u, "SUSPENDED") /\ u \in Tasks
      BY <2>5 DEF Pause, set_state
    <3>2. MadeNotReady(k, u, "SUSPENDED", k')
      BY <3>1, SetNotReady DEF States
    <3>. QED
      BY <3>2, <1>same DEF MadeNotReady, SameElsewhere
  <2>6. ASSUME NEW u \in Pausable, Resume(h, t, u) PROVE DispatchHighest
    <3>1. k' = set_state(k, h, u, "READY") /\ u \in Tasks
      BY <2>6 DEF Resume, set_state
    <3>2. MadeReady(k, u, k')
      BY <3>1, SetReady
    <3>. QED
      BY <3>2, <1>same DEF MadeReady, SameElsewhere
  <2>7. ASSUME NEW p \in SpawnPrios, Spawn(h, t, p) PROVE DispatchHighest
    <3>1. Registered(k, FirstFree(k), k')
      BY <2>7, RegisterFull DEF Spawn
    <3>. QED
      BY <3>1, <1>same DEF Registered
  <2>. QED
    BY <1>task, <2>1, <2>2, <2>3, <2>4, <2>5, <2>6, <2>7 DEF TaskStep
<1>. QED
  BY <1>u, <1>start, <1>tick, <1>soft, <1>on, <1>fault, <1>task
     DEF Next, HartStep, SoftIrq

\* Whatever path switches a hart, the task it switches to was registered and
\* READY, and no ready task had a higher effective priority.
THEOREM HighestIsDispatched ==
  ASSUME Sleepers \cap Parkers = {}
  PROVE  Spec => DispatchesHighest
<1>1. IInv /\ [Next]_vars => [DispatchHighest]_vars
  BY NextDispatch
<1>2. Spec => []IInv
  BY Invariance
<1>3. Spec => [][Next]_vars
  BY PTL DEF Spec
<1>. QED
  BY <1>1, <1>2, <1>3, PTL DEF DispatchesHighest

-----------------------------------------------------------------------------
(***************************************************************************)
(* sleep_until on one hart.  A sleeper keeps its deadline armed until the  *)
(* tick that finds it passed, and is BLOCKED meanwhile.  What keeps its    *)
(* own hart from coming back to it early is the executor's task, which     *)
(* never blocks: when the sleeper's reschedule interrupt is handled there  *)
(* is something else to run.                                               *)
(***************************************************************************)
\* The armed tasks A are registered and BLOCKED; the executor's task is not.
Asleep(s, A) ==
  /\ A \subseteq s.used
  /\ \A t \in A : s.state[t] = "BLOCKED"
  /\ IDLE \in s.used /\ s.state[IDLE] \in {"READY", "RUNNING"}

\* An armed task is inside sleep_until.
ArmedPc == \A t \in armed : pc[t] \in {"resched", "cancel"}

\* A sleeper whose reschedule has been asked for is off its hart, or the hart
\* has yet to decide.
NotBack ==
  halted \/ \A t \in armed, h \in Harts :
              pc[t] = "cancel" /\ k.current[h] = t => isr[h] = "on_tick"

SleepInv == Asleep(k, armed) /\ ArmedPc /\ NotBack

LEMMA SwitchedAsleep ==
  ASSUME NEW s \in KType, NEW A \in SUBSET Tasks, Asleep(s, A), NEW me \in Harts,
         NEW c, BestReady(s, c), NEW r, Switched(s, me, c, r)
  PROVE  Asleep(r, A) /\ c \notin A /\ r.current = [s.current EXCEPT ![me] = c]
BY DEF Asleep, BestReady, Switched, KType

LEMMA NotReadyAsleep ==
  ASSUME NEW s \in KType, NEW A \in SUBSET Tasks, Asleep(s, A),
         NEW id \in Tasks \ {IDLE}, NEW st \in {"BLOCKED", "SUSPENDED"}, NEW r,
         MadeNotReady(s, id, st, r), st = "BLOCKED" \/ id \notin A
  PROVE  Asleep(r, A) /\ (st = "BLOCKED" /\ id \in s.used => Asleep(r, A \cup {id}))
BY DEF Asleep, MadeNotReady, KType

LEMMA ReadyAsleep ==
  ASSUME NEW s \in KType, NEW A \in SUBSET Tasks, Asleep(s, A),
         NEW id \in Tasks \ A, NEW r, MadeReady(s, id, r)
  PROVE  Asleep(r, A)
BY DEF Asleep, MadeReady, KType

LEMMA UnblockedAsleep ==
  ASSUME NEW s \in KType, NEW A \in SUBSET Tasks, Asleep(s, A),
         NEW W \in SUBSET A, NEW r, Unblocked(s, W, r)
  PROVE  Asleep(r, A \ W)
BY DEF Asleep, Unblocked, KType

LEMMA RegisteredAsleep ==
  ASSUME NEW s \in KType, NEW A \in SUBSET Tasks, Asleep(s, A),
         NEW id, NEW r, Registered(s, id, r)
  PROVE  Asleep(r, A)
BY DEF Asleep, Registered, KType

\* The record's fields Asleep reads, and the others.
LEMMA SameAsleep ==
  ASSUME NEW s, NEW A, Asleep(s, A), NEW r, r.used = s.used, r.state = s.state
  PROVE  Asleep(r, A)
BY DEF Asleep

\* On one hart the executor's task waits while a sleeper is current, so that
\* on_tick leaves the sleeper.
LEMMA SleeperIsLeft ==
  ASSUME MAX_HARTS = 1, NEW s, KInv(s), NEW A \in SUBSET (Tasks \ {IDLE}), Asleep(s, A),
         NEW h \in Harts, s.current[h] \in A
  PROVE  Switches(s, h)
<1>1. Harts = {h}
  BY DEF Harts
<1>2. s.state[IDLE] = "READY"
  BY <1>1 DEF Asleep, KInv, RunningOwned, Tasks, IDLE
<1>3. schedule(s) # NO_TASK
  BY <1>2, ScheduleFinds DEF KInv, Asleep
<1>4. s.state[schedule(s)] = "READY"
  BY <1>3, ScheduleChoice DEF KInv, BestReady
<1>5. s.current[h] # NO_TASK /\ s.state[s.current[h]] = "BLOCKED"
  <2>1. NO_TASK \notin Tasks
    BY DEF NO_TASK, Tasks
  <2>2. s.current[h] \in Tasks
    OBVIOUS
  <2>. QED
    BY <2>1, <2>2 DEF Asleep
<1>6. schedule(s) # s.current[h]
  BY <1>4, <1>5
<1>. QED
  BY <1>3, <1>5, <1>6 DEF Switches

LEMMA InitSleep == Init => SleepInv
<1>. SUFFICES ASSUME Init PROVE SleepInv
  OBVIOUS
<1>1. armed = {}
  BY DEF Init
<1>2. IDLE \in Tasks /\ BootUsed(IDLE)
  BY DEF IDLE, Tasks, BootUsed
<1>3. IDLE \in k.used /\ k.state[IDLE] = "READY"
  BY <1>2 DEF Init, EmptySched
<1>. QED
  BY <1>1, <1>3 DEF SleepInv, Asleep, ArmedPc, NotBack

\* A step that moves no hart, disarms no task and stays out of sleep_until.
LEMMA StaySleep ==
  ASSUME SleepInv, Asleep(k, armed)', armed' \subseteq armed, k'.current = k.current,
         halted' = halted,
         \A t \in armed' : pc'[t] = pc[t],
         \A h \in Harts : isr[h] = "on_tick" => isr'[h] = "on_tick"
  PROVE  SleepInv'
BY DEF SleepInv, ArmedPc, NotBack

\* Hart h moves to a task that is not armed.
LEMMA MoveSleep ==
  ASSUME SleepInv, Asleep(k, armed)', UNCHANGED <<armed, pc>>,
         k.current \in [Harts -> Tasks \cup {NO_TASK}],
         NEW h \in Harts, NEW c, c \notin armed,
         k'.current = [k.current EXCEPT ![h] = c],
         halted => halted',
         \A g \in Harts \ {h} : isr'[g] = isr[g]
  PROVE  SleepInv'
BY DEF SleepInv, ArmedPc, NotBack

LEMMA NextSleep ==
  ASSUME MAX_HARTS = 1, IInv, SleepInv, [Next]_vars
  PROVE  SleepInv'
<1>. USE PreemptAssumption
<1>. /\ k \in KType /\ QueueInv(k) /\ CurrentUsed(k) /\ KInv(k)
     /\ armed \in SUBSET Sleepers /\ armed \in SUBSET Tasks
     /\ armed \in SUBSET (Tasks \ {IDLE})
     /\ Asleep(k, armed)
     /\ pc \in [Tasks -> PcLabels] /\ isr \in [Harts -> {"none", "on_tick"}]
  BY DEF IInv, KInv, TypeOK, SleepInv
<1>. /\ k.current \in [Harts -> Tasks \cup {NO_TASK}]
     /\ k.used \in SUBSET Tasks /\ NO_TASK \notin Tasks
  BY DEF KType, NO_TASK, Tasks
<1>u. CASE UNCHANGED vars \/ Run
  BY <1>u, StaySleep DEF vars, Run
<1>start. ASSUME NEW h \in Harts, Start(h) PROVE SleepInv'
  <2>1. CASE k' = k
    <3>1. UNCHANGED <<k, armed, pc, isr>> /\ (halted => halted')
      BY <1>start, <2>1 DEF Start
    <3>. QED
      BY <3>1 DEF SleepInv, ArmedPc, NotBack
  <2>2. CASE /\ schedule(k) # NO_TASK /\ k' = first_dispatch(k, h)
             /\ UNCHANGED halted
    <3>1. k.current[h] = NO_TASK /\ UNCHANGED <<armed, pc, isr>>
      BY <1>start DEF Start
    <3>2. BestReady(k, schedule(k)) /\ Switched(k, h, schedule(k), k')
      BY <2>2, <3>1, FirstDispatch
    <3>3. /\ Asleep(k', armed) /\ schedule(k) \notin armed
          /\ k'.current = [k.current EXCEPT ![h] = schedule(k)]
      BY <3>2, SwitchedAsleep
    <3>4. Asleep(k, armed)'
      BY <3>1, <3>3
    <3>. QED
      BY <2>2, <3>1, <3>3, <3>4, MoveSleep
  <2>. QED
    BY <1>start, <2>1, <2>2 DEF Start
<1>tick. ASSUME NEW h \in Harts, Tick(h) PROVE SleepInv'
  <2>. PICK E \in SUBSET armed :
         /\ armed' = armed \ E
         /\ k' = IF E = {} THEN k ELSE wake_other_harts(unblock_all(k, h, E), h)
    BY <1>tick DEF Tick
  <2>1. /\ pc' = pc /\ halted' = halted /\ isr' = [isr EXCEPT ![h] = "on_tick"]
    BY <1>tick DEF Tick
  <2>. DEFINE r == unblock_all(k, h, E)
  <2>2. Unblocked(k, E, r)
    BY UnblockAll
  <2>3. Asleep(r, armed \ E) /\ r \in KType /\ r.current = k.current
    BY <2>2, UnblockedAsleep DEF Unblocked, SameElsewhere
  <2>. HIDE DEF r
  <2>4. /\ wake_other_harts(r, h).current = k.current
        /\ Asleep(wake_other_harts(r, h), armed \ E)
    BY <2>3, WakeOtherHarts, SameAsleep DEF SameElsewhere
  <2>5. Asleep(k', armed') /\ k'.current = k.current
    BY <2>4 DEF r
  <2>. QED
    BY <2>1, <2>5, StaySleep
<1>soft. ASSUME NEW h \in Harts, SoftIrq(h) PROVE SleepInv'
  <2>1. /\ UNCHANGED <<armed, pc, halted>> /\ isr' = [isr EXCEPT ![h] = "on_tick"]
        /\ k'.used = k.used /\ k'.state = k.state /\ k'.current = k.current
    BY <1>soft DEF SoftIrq, KType
  <2>2. Asleep(k, armed)'
    BY <2>1, SameAsleep
  <2>. QED
    BY <2>1, <2>2, StaySleep
<1>on. ASSUME NEW h \in Harts, OnTick(h) PROVE SleepInv'
  <2>1. /\ UNCHANGED <<armed, pc, halted>> /\ isr' = [isr EXCEPT ![h] = "none"]
        /\ k' = on_tick_locked(k, h)
    BY <1>on DEF OnTick
  <2>2. k.current[h] # NO_TASK => k.current[h] \in k.used
    BY DEF CurrentUsed
  <2>3. CASE k' = k /\ (k.current[h] = NO_TASK \/ ~Switches(k, h))
    <3>1. k.current[h] \notin armed
      BY <2>3, SleeperIsLeft
    <3>2. \A g \in Harts : g # h => isr'[g] = isr[g]
      BY <2>1
    <3>. QED
      BY <2>1, <2>3, <3>1, <3>2 DEF SleepInv, ArmedPc, NotBack
  <2>4. CASE BestReady(k, schedule(k)) /\ Switched(k, h, schedule(k), k')
    <3>1. /\ Asleep(k', armed) /\ schedule(k) \notin armed
          /\ k'.current = [k.current EXCEPT ![h] = schedule(k)]
      BY <2>4, SwitchedAsleep
    <3>2. Asleep(k, armed)'
      BY <2>1, <3>1
    <3>. QED
      BY <2>1, <3>1, <3>2, MoveSleep
  <2>. QED
    BY <2>1, <2>2, <2>3, <2>4, OnTickLocked
<1>fault. ASSUME NEW h \in Harts, OnTickFault(h) PROVE SleepInv'
  <2>. DEFINE t == k.current[h]
              k1 == set_state(k, h, t, "BLOCKED")
              c == schedule(k1)
  <2>1. heal(k) = k
    BY HealsNothing
  <2>2. /\ t \in Faulters /\ UNCHANGED <<armed, pc>>
        /\ isr' = [isr EXCEPT ![h] = "none"]
        /\ \/ k' = k1 /\ halted' = TRUE
           \/ c # NO_TASK /\ k' = isolate(k, h) /\ UNCHANGED halted
    BY <1>fault, <2>1 DEF OnTickFault
  <2>3. t \in Tasks \ {IDLE}
    BY <2>2
  <2>4. MadeNotReady(k, t, "BLOCKED", k1)
    BY <2>3, SetNotReady DEF States
  <2>5. Asleep(k1, armed) /\ k1 \in KType /\ k1.current = k.current
    BY <2>3, <2>4, NotReadyAsleep DEF MadeNotReady, SameElsewhere
  <2>6. CASE k' = k1 /\ halted' = TRUE
    BY <2>2, <2>5, <2>6 DEF SleepInv, ArmedPc, NotBack
  <2>7. CASE c # NO_TASK /\ k' = isolate(k, h) /\ UNCHANGED halted
    <3>1. BestReady(k1, c) /\ Switched(k1, h, c, k')
      BY <2>3, <2>7, Isolate
    <3>. HIDE DEF k1, c
    <3>2. Asleep(k', armed) /\ c \notin armed /\ k'.current = [k.current EXCEPT ![h] = c]
      BY <2>5, <3>1, SwitchedAsleep
    <3>3. Asleep(k, armed)'
      BY <2>2, <3>2
    <3>. QED
      BY <2>2, <2>7, <3>2, <3>3, MoveSleep
  <2>. QED
    BY <2>2, <2>6, <2>7
<1>task. ASSUME NEW h \in Harts, NEW t \in Tasks, TaskStep(h, t) PROVE SleepInv'
  <2>x. CASE SleepBegin(h, t)
    <3>1. /\ k.current[h] = t /\ t \in Sleepers /\ armed' = armed \cup {t}
          /\ k' = set_state(k, h, t, "BLOCKED") /\ pc' = [pc EXCEPT ![t] = "resched"]
          /\ isr' = isr /\ halted' = halted
      BY <2>x DEF SleepBegin, At, block_current
    <3>2. MadeNotReady(k, t, "BLOCKED", k') /\ t \in k.used
      BY <3>1, SetNotReady DEF States, CurrentUsed
    <3>3. Asleep(k', armed') /\ k'.current = k.current
      BY <3>1, <3>2, NotReadyAsleep DEF MadeNotReady, SameElsewhere
    <3>4. ArmedPc' /\ NotBack'
      BY <3>1, <3>3 DEF SleepInv, ArmedPc, NotBack
    <3>. QED
      BY <3>3, <3>4 DEF SleepInv
  <2>r. CASE SleepResched(h, t) \/ YieldNow(h, t) \/ ParkLoop(h, t)
    <3>1. /\ k.current[h] = t /\ (pc' = pc \/ pc' = [pc EXCEPT ![t] = "cancel"])
          /\ armed' = armed /\ halted' = halted /\ isr' = [isr EXCEPT ![h] = "on_tick"]
          /\ k' = [k EXCEPT !.msip = @ \ {h}]
      BY <2>r DEF SleepResched, YieldNow, ParkLoop, RequestReschedule, At
    <3>2. k'.used = k.used /\ k'.state = k.state /\ k'.current = k.current
      BY <3>1 DEF KType
    <3>3. Asleep(k', armed')
      BY <3>1, <3>2, SameAsleep
    <3>4. h = 0 /\ Harts = {0}
      BY DEF Harts
    <3>5. ArmedPc' /\ NotBack'
      BY <3>1, <3>2, <3>4 DEF SleepInv, ArmedPc, NotBack
    <3>. QED
      BY <3>3, <3>5 DEF SleepInv
  <2>e. CASE SleepEnd(h, t)
    <3>1. /\ k' = k /\ armed' = armed \ {t} /\ pc' = [pc EXCEPT ![t] = "run"]
          /\ isr' = isr /\ halted' = halted
      BY <2>e DEF SleepEnd
    <3>2. Asleep(k', armed')
      BY <3>1 DEF Asleep
    <3>. QED
      BY <3>1, <3>2, StaySleep
  <2>ps. CASE ParkState(h, t)
    <3>1. /\ t \in Parkers /\ k.current[h] = t /\ pc[t] = "run"
          /\ k' = [k EXCEPT !.state[t] = "BLOCKED"]
          /\ pc' = [pc EXCEPT ![t] = "park_queue"]
          /\ armed' = armed /\ isr' = isr /\ halted' = halted
      BY <2>ps DEF ParkState, At
    <3>2. /\ k'.state = [k.state EXCEPT ![t] = "BLOCKED"]
          /\ k'.used = k.used /\ k'.current = k.current
      BY <3>1, StoreState DEF States, SameElsewhere
    <3>3. t \notin armed
      BY <3>1 DEF SleepInv, ArmedPc
    <3>4. Asleep(k', armed')
      BY <3>1, <3>2 DEF Asleep, KType
    <3>. QED
      BY <3>1, <3>2, <3>3, <3>4, StaySleep
  <2>pq. CASE ParkQueue(h, t)
    <3>1. /\ k' = ready_remove(k, t) /\ pc[t] = "park_queue"
          /\ pc' = [pc EXCEPT ![t] = "parked"]
          /\ armed' = armed /\ isr' = isr /\ halted' = halted
      BY <2>pq DEF ParkQueue, At
    <3>2. k'.used = k.used /\ k'.state = k.state /\ k'.current = k.current
      BY <3>1 DEF ready_remove, KType
    <3>3. t \notin armed
      BY <3>1 DEF SleepInv, ArmedPc
    <3>4. Asleep(k', armed')
      BY <3>1, <3>2, SameAsleep
    <3>. QED
      BY <3>1, <3>2, <3>3, <3>4, StaySleep
  <2>pp. ASSUME NEW u \in Pausable, Pause(h, t, u) PROVE SleepInv'
    <3>1. /\ k.state[u] = "READY" /\ u \in Tasks \ {IDLE}
          /\ k' = set_state(k, h, u, "SUSPENDED")
          /\ UNCHANGED <<armed, pc, isr, halted>>
      BY <2>pp DEF Pause, set_state
    <3>2. MadeNotReady(k, u, "SUSPENDED", k') /\ u \notin armed
      BY <3>1, SetNotReady DEF States, Asleep
    <3>3. Asleep(k', armed') /\ k'.current = k.current
      BY <3>1, <3>2, NotReadyAsleep DEF MadeNotReady, SameElsewhere
    <3>. QED
      BY <3>1, <3>3, StaySleep
  <2>pr. ASSUME NEW u \in Pausable, Resume(h, t, u) PROVE SleepInv'
    <3>1. /\ k.state[u] = "SUSPENDED" /\ u \in Tasks
          /\ k' = set_state(k, h, u, "READY")
          /\ UNCHANGED <<armed, pc, isr, halted>>
      BY <2>pr DEF Resume, set_state
    <3>2. MadeReady(k, u, k') /\ u \notin armed
      BY <3>1, SetReady DEF Asleep
    <3>3. Asleep(k', armed') /\ k'.current = k.current
      BY <3>1, <3>2, ReadyAsleep DEF MadeReady, SameElsewhere
    <3>. QED
      BY <3>1, <3>3, StaySleep
  <2>s. ASSUME NEW p \in SpawnPrios, Spawn(h, t, p) PROVE SleepInv'
    <3>1. /\ FreeSlots(k) # {} /\ p \in Prios /\ k' = register_full(k, h, p)
          /\ UNCHANGED <<armed, pc, isr, halted>>
      BY <2>s DEF Spawn
    <3>2. Registered(k, FirstFree(k), k')
      BY <3>1, RegisterFull
    <3>3. Asleep(k', armed') /\ k'.current = k.current
      BY <3>1, <3>2, RegisteredAsleep DEF Registered
    <3>. QED
      BY <3>1, <3>3, StaySleep
  <2>. QED
    BY <1>task, <2>x, <2>r, <2>e, <2>ps, <2>pq, <2>pp, <2>pr, <2>s DEF TaskStep
<1>. QED
  BY <1>u, <1>start, <1>tick, <1>soft, <1>on, <1>fault, <1>task DEF Next, HartStep

\* Only a task that executes moves its pc, and no armed one executes sleep_until's
\* last step.
LEMMA NextLasts ==
  ASSUME IInv, SleepInv, [Next]_vars
  PROVE  [\A t \in Tasks : pc[t] = "cancel" /\ pc'[t] = "run" => t \notin armed]_vars
<1>. pc \in [Tasks -> PcLabels]
  BY DEF IInv, TypeOK
<1>. SUFFICES ASSUME NEW u \in Tasks, pc[u] = "cancel", pc'[u] = "run", Next
              PROVE  u \notin armed
  BY DEF vars
<1>1. PICK h \in Harts, t \in Tasks : TaskStep(h, t)
  BY DEF Next, Run, HartStep, Start, Tick, SoftIrq, OnTick, OnTickFault
<1>2. SleepEnd(h, u)
  BY <1>1 DEF TaskStep, SleepBegin, SleepResched, SleepEnd, YieldNow, ParkState,
              ParkQueue, ParkLoop, Pause, Resume, Spawn, At
<1>. QED
  BY <1>2 DEF SleepEnd, At, SleepInv, NotBack

\* On a board with one hart sleep_until never returns before the tick has
\* found its deadline passed, whatever else runs, faults or is woken.
THEOREM SleepsLast ==
  ASSUME MAX_HARTS = 1, Sleepers \cap Parkers = {}
  PROVE  Spec => SleepLastsToDeadline
<1>. DEFINE Lasts == \A t \in Tasks : pc[t] = "cancel" /\ pc'[t] = "run" => t \notin armed
<1>1. IInv /\ SleepInv /\ [Next]_vars => SleepInv'
  BY NextSleep
<1>2. IInv /\ SleepInv /\ [Next]_vars => [Lasts]_vars
  BY NextLasts
<1>3. Init => SleepInv
  BY InitSleep
<1>4. Spec => []IInv
  BY Invariance
<1>. HIDE DEF Lasts
<1>5. Spec => [][Lasts]_vars
  BY <1>1, <1>2, <1>3, <1>4, PTL DEF Spec
<1>. QED
  BY <1>5 DEF SleepLastsToDeadline, Lasts

-----------------------------------------------------------------------------
(***************************************************************************)
(* Bounded waiting.  A task that was dispatched ahead of a waiting one has *)
(* the later stamp from then on, so schedule() does not prefer it again.   *)
(* The argument ends where the stamps wrap, and isolation dispatches       *)
(* without a stamp: the theorem assumes fewer dispatches than stamps, and  *)
(* no faults.                                                              *)
(***************************************************************************)
\* A step that dispatches task c on hart h, with a stamp of its own.
Dispatch(h, c) ==
  /\ BestReady(k, c) /\ Switched(k, h, c, k') /\ StampedSwitch(k, c, k')
  /\ k'.counter <= DISPATCH_BOUND

\* A step that dispatches nothing and stamps nothing.
NoDispatch == k'.current = k.current /\ k'.seq = k.seq /\ k'.counter = k.counter

LEMMA NextStamps ==
  ASSUME Faulters = {}, IInv, [Next]_vars
  PROVE  NoDispatch \/ \E h \in Harts, c \in Tasks : Dispatch(h, c)
<1>. USE PreemptAssumption DEF NoDispatch
<1>. /\ k \in KType /\ QueueInv(k) /\ CurrentUsed(k) /\ armed \in SUBSET Tasks
  BY DEF IInv, KInv, TypeOK
<1>. /\ k.current \in [Harts -> Tasks \cup {NO_TASK}] /\ NO_TASK \notin Tasks
  BY DEF KType, NO_TASK, Tasks
<1>u. CASE UNCHANGED vars \/ Run
  BY <1>u DEF vars, Run
<1>start. ASSUME NEW h \in Harts, Start(h)
          PROVE  NoDispatch \/ \E c \in Tasks : Dispatch(h, c)
  <2>1. CASE k' = k
    BY <2>1
  <2>2. CASE /\ schedule(k) # NO_TASK /\ k' = first_dispatch(k, h)
             /\ k'.counter <= DISPATCH_BOUND
    <3>1. k.current[h] = NO_TASK
      BY <1>start DEF Start
    <3>2. /\ BestReady(k, schedule(k)) /\ Switched(k, h, schedule(k), k')
          /\ StampedSwitch(k, schedule(k), k')
      BY <2>2, <3>1, FirstDispatch
    <3>. QED
      BY <2>2, <3>2 DEF Dispatch, BestReady
  <2>. QED
    BY <1>start, <2>1, <2>2 DEF Start
<1>tick. ASSUME NEW h \in Harts, Tick(h) PROVE NoDispatch
  <2>. PICK E \in SUBSET armed :
         k' = IF E = {} THEN k ELSE wake_other_harts(unblock_all(k, h, E), h)
    BY <1>tick DEF Tick
  <2>. DEFINE r == unblock_all(k, h, E)
  <2>1. r \in KType /\ SameElsewhere(k, r)
    BY UnblockAll DEF Unblocked
  <2>. HIDE DEF r
  <2>2. SameElsewhere(r, wake_other_harts(r, h))
    BY <2>1, WakeOtherHarts
  <2>3. k' = k \/ k' = wake_other_harts(r, h)
    BY DEF r
  <2>. QED
    BY <2>1, <2>2, <2>3 DEF SameElsewhere
<1>on. ASSUME NEW h \in Harts, OnTick(h)
       PROVE  NoDispatch \/ \E c \in Tasks : Dispatch(h, c)
  <2>1. k' = on_tick_locked(k, h) /\ k'.counter <= DISPATCH_BOUND
    BY <1>on DEF OnTick
  <2>2. k.current[h] # NO_TASK => k.current[h] \in k.used
    BY DEF CurrentUsed
  <2>3. \/ k' = k
        \/ /\ BestReady(k, schedule(k)) /\ Switched(k, h, schedule(k), k')
           /\ StampedSwitch(k, schedule(k), k')
    BY <2>1, <2>2, OnTickLocked
  <2>. QED
    BY <2>1, <2>3 DEF Dispatch, BestReady
<1>soft. ASSUME NEW h \in Harts, k' = [k EXCEPT !.msip = @ \ {h}] PROVE NoDispatch
  BY <1>soft DEF KType
<1>task. ASSUME NEW h \in Harts, NEW t \in Tasks, TaskStep(h, t) PROVE NoDispatch
  <2>1. CASE SleepBegin(h, t)
    <3>1. k' = set_state(k, h, t, "BLOCKED")
      BY <2>1 DEF SleepBegin, At, block_current
    <3>2. MadeNotReady(k, t, "BLOCKED", k')
      BY <3>1, SetNotReady DEF States
    <3>. QED
      BY <3>2 DEF MadeNotReady, SameElsewhere
  <2>2. CASE SleepResched(h, t) \/ YieldNow(h, t) \/ ParkLoop(h, t)
    BY <2>2, <1>soft DEF SleepResched, YieldNow, ParkLoop, RequestReschedule
  <2>3. CASE SleepEnd(h, t)
    BY <2>3 DEF SleepEnd
  <2>4. CASE ParkState(h, t) \/ ParkQueue(h, t)
    BY <2>4 DEF ParkState, ParkQueue, ready_remove, KType
  <2>5. ASSUME NEW u \in Pausable, Pause(h, t, u) PROVE NoDispatch
    <3>1. k' = set_state(k, h, u, "SUSPENDED") /\ u \in Tasks
      BY <2>5 DEF Pause, set_state
    <3>2. MadeNotReady(k, u, "SUSPENDED", k')
      BY <3>1, SetNotReady DEF States
    <3>. QED
      BY <3>2 DEF MadeNotReady, SameElsewhere
  <2>6. ASSUME NEW u \in Pausable, Resume(h, t, u) PROVE NoDispatch
    <3>1. k' = set_state(k, h, u, "READY") /\ u \in Tasks
      BY <2>6 DEF Resume, set_state
    <3>2. MadeReady(k, u, k')
      BY <3>1, SetReady
    <3>. QED
      BY <3>2 DEF MadeReady, SameElsewhere
  <2>7. ASSUME NEW p \in SpawnPrios, Spawn(h, t, p) PROVE NoDispatch
    <3>1. Registered(k, FirstFree(k), k')
      BY <2>7, RegisterFull DEF Spawn
    <3>. QED
      BY <3>1 DEF Registered
  <2>. QED
    BY <1>task, <2>1, <2>2, <2>3, <2>4, <2>5, <2>6, <2>7 DEF TaskStep
<1>fault. ASSUME NEW h \in Harts, OnTickFault(h) PROVE FALSE
  BY <1>fault DEF OnTickFault
<1>. QED
  BY <1>u, <1>start, <1>tick, <1>soft, <1>on, <1>task, <1>fault
     DEF Next, HartStep, SoftIrq

\* The counter is the latest stamp, and has not wrapped.
StampsBelow ==
  k.counter <= DISPATCH_BOUND /\ \A t \in Tasks : k.seq[t] <= k.counter

\* Whoever went ahead of a waiting task has the later stamp.
AheadIsLater ==
  /\ overtook \in [Tasks -> SUBSET Tasks]
  /\ \A t \in Tasks : \A c \in overtook[t] : k.seq[t] < k.seq[c]

StampInv == k \in KType /\ StampsBelow /\ AheadIsLater

LEMMA NextStampInv ==
  ASSUME Faulters = {}, DISPATCH_BOUND < SEQ_MOD - 1, IInv, k' \in KType, StampInv,
         [FNext]_fvars
  PROVE  StampInv'
<1>1. CASE UNCHANGED fvars
  BY <1>1 DEF fvars, vars, StampInv, StampsBelow, AheadIsLater
<1>2. CASE FNext
  <2>. /\ k \in KType /\ k.seq \in [Tasks -> Nat] /\ k.counter \in Nat
       /\ k'.counter \in Nat
       /\ k.current \in [Harts -> Tasks \cup {NO_TASK}]
    BY DEF StampInv, KType, Stamps
  <2>. overtook \in [Tasks -> SUBSET Tasks]
    BY DEF StampInv, AheadIsLater
  <2>1. overtook' \in [Tasks -> SUBSET Tasks]
    BY <1>2 DEF FNext
  <2>2. \A t \in Tasks : \A c \in overtook'[t] :
          c \in Tasks /\ Waits(k', t) /\ (c \in overtook[t] \/ Dispatched(c))
    BY <1>2 DEF FNext
  <2>3. CASE NoDispatch
    <3>1. \A c \in Tasks : ~Dispatched(c)
      BY <2>3 DEF NoDispatch, Dispatched
    <3>. QED
      BY <2>1, <2>2, <2>3, <3>1 DEF NoDispatch, StampInv, StampsBelow, AheadIsLater
  <2>4. ASSUME NEW h \in Harts, NEW d \in Tasks, Dispatch(h, d)
        PROVE  StampInv'
    <3>1. /\ k'.current = [k.current EXCEPT ![h] = d]
          /\ k'.counter = (k.counter + 1) % SEQ_MOD
          /\ k'.seq = [k.seq EXCEPT ![d] = k'.counter]
          /\ k'.counter <= DISPATCH_BOUND
      BY <2>4 DEF Dispatch, Switched, StampedSwitch
    <3>2. k'.counter = k.counter + 1
      <4>1. k.counter + 1 < SEQ_MOD
        BY PreemptAssumption DEF StampInv, StampsBelow
      <4>2. (k.counter + 1) % SEQ_MOD = k.counter + 1
        BY <4>1
      <4>. QED
        BY <3>1, <4>2
    <3>3. \A c \in Tasks : Dispatched(c) => c = d
      BY <3>1 DEF Dispatched
    <3>4. ~Waits(k', d)
      BY <3>1 DEF Waits
    <3>5. StampsBelow'
      BY <3>1, <3>2 DEF StampInv, StampsBelow
    <3>6. ASSUME NEW t \in Tasks, NEW c \in overtook'[t]
          PROVE  k'.seq[t] < k'.seq[c]
      <4>1. t # d /\ c \in Tasks /\ (c \in overtook[t] \/ c = d)
        BY <2>2, <3>3, <3>4, <3>6
      <4>2. k'.seq[t] = k.seq[t] /\ k.seq[t] <= k.counter
        BY <3>1, <4>1 DEF StampInv, StampsBelow
      <4>3. CASE c = d
        BY <3>1, <3>2, <4>2, <4>3
      <4>4. CASE c # d
        BY <3>1, <4>1, <4>2, <4>4 DEF StampInv, AheadIsLater
      <4>. QED
        BY <4>3, <4>4
    <3>. QED
      BY <2>1, <3>5, <3>6 DEF StampInv, AheadIsLater
  <2>. QED
    BY <1>2, <2>3, <2>4, NextStamps DEF FNext
<1>. QED
  BY <1>1, <1>2

\* The action OvertakenAtMostOnce forbids to fail.
Overtaken ==
  \A t, c \in Tasks :
    Waits(k, t) /\ Waits(k', t) /\ Dispatched(c) /\ k.eff[c] = k.eff[t]
      => c \notin overtook[t]

LEMMA NextOvertaken ==
  ASSUME Faulters = {}, IInv, StampInv, [FNext]_fvars
  PROVE  [Overtaken]_fvars
<1>. SUFFICES ASSUME FNext, NEW t \in Tasks, NEW c \in Tasks, Waits(k, t), Dispatched(c),
                     k.eff[c] = k.eff[t]
              PROVE  c \notin overtook[t]
  BY DEF Overtaken
<1>. /\ k.seq \in [Tasks -> Nat] /\ k.current \in [Harts -> Tasks \cup {NO_TASK}]
  BY DEF StampInv, KType, Stamps
<1>1. PICK h \in Harts, d \in Tasks : Dispatch(h, d)
  BY NextStamps DEF FNext, NoDispatch, Dispatched
<1>2. c = d /\ BestReady(k, c)
  BY <1>1 DEF Dispatch, Switched, Dispatched
<1>3. DispatchedBefore(k, c, t)
  BY <1>2 DEF BestReady, Waits
<1>4. ~(k.seq[t] < k.seq[c])
  BY <1>3 DEF DispatchedBefore
<1>. QED
  BY <1>4 DEF StampInv, AheadIsLater

\* No ready task of a waiting task's priority is dispatched twice ahead of it
\* (the round robin DISPATCH_SEQ is for), for any number of harts, tasks and
\* priorities, as long as the stamps do not wrap and nothing is isolated.
THEOREM WaitsAreBounded ==
  ASSUME Faulters = {}, Sleepers \cap Parkers = {}, DISPATCH_BOUND < SEQ_MOD - 1
  PROVE  FSpec => OvertakenAtMostOnce
<1>1. FInit => IInv /\ StampInv
  <2>1. Init => k \in KType
    BY InitIInv DEF IInv, KInv
  <2>. QED
    BY <2>1, InitIInv, PreemptAssumption
       DEF FInit, Init, EmptySched, StampInv, StampsBelow, AheadIsLater
<1>2. IInv /\ [FNext]_fvars => IInv'
  BY NextIInv DEF FNext, fvars, vars
<1>3. IInv' => k' \in KType
  BY DEF IInv, KInv
<1>4. IInv /\ StampInv /\ [FNext]_fvars => StampInv'
  BY <1>2, <1>3, NextStampInv
<1>5. IInv /\ StampInv /\ [FNext]_fvars => [Overtaken]_fvars
  BY NextOvertaken
<1>6. FSpec => [][Overtaken]_fvars
  BY <1>1, <1>2, <1>4, <1>5, PTL DEF FSpec
<1>. QED
  BY <1>6 DEF OvertakenAtMostOnce, Overtaken
=============================================================================
