---------------------------- MODULE TimersProofs ----------------------------
(***************************************************************************)
(* The executor with its timers, for every number of tasks, priorities,    *)
(* remote wakers, timer slots and lengths of sleeps: a wake that was given *)
(* stays where the executor will find it, a Sleep that waits has its timer *)
(* slot, and no slot outlives its Sleep.                                   *)
(*                                                                         *)
(* The first part of the invariant is about the waker bitmaps: what each   *)
(* of next_ready's locals still says about the words it was read from      *)
(* (Locals), and that the bit of a priority with one sheltered task is     *)
(* never set over an empty word, so that it is never healed away (Backed). *)
(* The second is about the timer slots: a handle whose slot is not its own *)
(* any more has expired (Placed), so that a handle with the slot and the   *)
(* deadline of another's registration makes that one a late one (Alone).   *)
(***************************************************************************)
EXTENDS Timers, WellFoundedInduction, TLAPS

USE ExecutorAssumption, TimersAssumption

-----------------------------------------------------------------------------
\* A set of naturals with an element has a least one.
LEMMA NatMin ==
  ASSUME NEW T, T \subseteq Nat, T # {}
  PROVE  \E m \in T : \A y \in T : m <= y
<1>1. PICK m \in T : \A y \in T : ~ (<<y, m>> \in OpToRel(<, Nat))
  <2> HIDE DEF OpToRel
  <2> QED BY NatLessThanWellFounded, WFMin
<1>2. ASSUME NEW y \in T PROVE m <= y
  <2>1. y < m => <<y, m>> \in OpToRel(<, Nat)
    BY DEF OpToRel
  <2>2. ~ (y < m) BY <1>1, <2>1, Zenon
  <2> QED BY <2>2
<1> QED BY <1>2

\* The lowest bit of a word that is not zero is one of its bits ...
LEMMA LeastBit ==
  ASSUME NEW S, S \subseteq Nat, S # {}
  PROVE  Least(S) \in S
BY NatMin DEF Least

\* ... and the highest bit of the bitmap one of the bitmap's.
LEMMA GreatestBit ==
  ASSUME NEW S, S \subseteq Prios, S # {}
  PROVE  Greatest(S) \in S
<1> DEFINE T == {MAX_PRIORITY - p : p \in S}
<1>1. \A p \in S : p \in Nat /\ p <= MAX_PRIORITY
  BY DEF Prios
<1>2. T \subseteq Nat /\ T # {}
  BY <1>1
<1>3. PICK m \in T : \A y \in T : m <= y
  BY <1>2, NatMin
<1>4. PICK q \in S : m = MAX_PRIORITY - q
  BY <1>3
<1>5. ASSUME NEW p \in S PROVE p <= q
  <2>1. MAX_PRIORITY - p \in T
    OBVIOUS
  <2>2. m <= MAX_PRIORITY - p
    BY <1>3, <2>1
  <2> QED BY <1>1, <1>4, <2>2
<1> QED BY <1>4, <1>5 DEF Greatest

-----------------------------------------------------------------------------
WordTypes ==
  /\ queue \in [Prios -> SUBSET Tasks] /\ bitmap \subseteq Prios
  /\ owed \subseteq Tasks /\ completed \subseteq Tasks
  /\ rpc \in [Remote -> {"none", "bitmap", "flag"}]
  /\ rtask \in [Remote -> Tasks \cup {NONE}]

\* What the executor's locals say of the words, whatever has been woken since.
Locals ==
  /\ pc = "load_queue" => prio \in bitmap
  /\ pc = "heal" => \A t \in Sheltered : Priority[t] # prio
  /\ pc = "take" => prio \in Prios /\ id \in queue[prio]
  /\ pc = "clear_bit" => id \in Tasks /\ prio = Priority[id]
  /\ pc = "check" => id \in Tasks
  /\ pc \in {"poll", "register"} => cur \in Tasks \ completed
  /\ pc \notin {"poll", "register", "panic"} => cur = NONE

\* A queue word holds the tasks of its priority.
Sorted == \A p \in Prios : \A t \in queue[p] : Priority[t] = p

\* The bit of a sheltered task's priority is set with the task in the word, or
\* about to be cleared for the task that was just taken.
Backed ==
  \A t \in Sheltered : Priority[t] \in bitmap =>
    t \in queue[Priority[t]] \/ (pc = "clear_bit" /\ id = t)

\* A remote waker is waking one of its tasks.
Remotes == \A r \in Remote : rpc[r] = "bitmap" => rtask[r] \in RemoteTasks

WakeInv == WordTypes /\ Locals /\ Sorted /\ Backed /\ Remotes /\ WakeNotLost

\* No other task has the priority of a sheltered one.
LEMMA ShelteredAlone ==
  \A t \in Sheltered : /\ t \in Tasks /\ t \notin RemoteTasks /\ Priority[t] \in Prios
                       /\ \A u \in Tasks : Priority[u] = Priority[t] => u = t
BY DEF Sheltered, Prios

\* mark_ready keeps the invariant whoever calls it: an interrupt, the tick or
\* the task that is polled.
LEMMA MarkReadyKeeps ==
  ASSUME WakeInv, NEW W, W \subseteq Tasks, mark_ready_all(W), owed' = owed \cup W,
         UNCHANGED <<prio, id, rpc, rtask>>,
         \/ UNCHANGED <<pc, cur, completed>>
         \/ pc = "idle" /\ pc' = "clear_pend" /\ UNCHANGED <<cur, completed>>
         \/ pc = "poll" /\ pc' = "load_bitmap" /\ cur' = NONE /\ completed' \subseteq Tasks
  PROVE  WakeInv'
<1> USE DEF WakeInv
<1>1. \A p \in Prios : queue'[p] = queue[p] \cup {t \in W : Priority[t] = p}
  BY DEF mark_ready_all
<1>2. bitmap' = bitmap \cup {Priority[t] : t \in W}
  BY DEF mark_ready_all
<1>3. WordTypes'
  BY <1>2 DEF WordTypes, mark_ready_all, Prios
<1>4. Locals'
  BY <1>1, <1>2 DEF Locals
<1>5. Sorted'
  BY <1>1 DEF Sorted
<1>6. Backed'
  <2>1. ASSUME NEW t \in Sheltered, Priority[t] \in bitmap'
        PROVE  t \in queue'[Priority[t]] \/ (pc' = "clear_bit" /\ id' = t)
    <3>1. CASE Priority[t] \in bitmap
      BY <1>1, <3>1, ShelteredAlone DEF Backed
    <3>2. CASE Priority[t] \notin bitmap
      <4>1. t \in W
        BY <1>2, <2>1, <3>2, ShelteredAlone
      <4> QED BY <1>1, <4>1, ShelteredAlone
    <3> QED BY <3>1, <3>2
  <2> QED BY <2>1 DEF Backed
<1>7. Remotes'
  BY DEF Remotes
<1>8. WakeNotLost'
  <2>1. ASSUME NEW t \in Sheltered, t \in owed'
        PROVE  \/ pc' \in {"clear_bit", "check"} /\ id' = t
               \/ t \in queue'[Priority[t]] /\ Priority[t] \in bitmap'
    <3>1. CASE t \in owed
      BY <1>1, <1>2, <3>1, ShelteredAlone DEF WakeNotLost
    <3>2. CASE t \in W
      BY <1>1, <1>2, <3>2, ShelteredAlone
    <3> QED BY <2>1, <3>1, <3>2
  <2> QED BY <2>1 DEF WakeNotLost
<1> QED BY <1>3, <1>4, <1>5, <1>6, <1>7, <1>8

\* The steps of a remote waker.
LEMMA RemoteKeeps ==
  ASSUME WakeInv, NEW r \in Remote, RemoteStep(r)
  PROVE  WakeInv'
<1> USE DEF WakeInv
<1>1. ASSUME NEW u \in RemoteTasks, RemoteQueue(r, u) PROVE WakeInv'
  <2>0. u \in Tasks /\ u \notin Sheltered /\ Priority[u] \in Prios
    BY DEF Sheltered, Prios
  <2>1. WordTypes'
    BY <1>1, <2>0 DEF WordTypes, RemoteQueue
  <2>2. \A p \in Prios : /\ queue[p] \subseteq queue'[p]
                         /\ \A t \in queue'[p] : t \in queue[p] \/ (t = u /\ p = Priority[u])
    BY <1>1, <2>0 DEF WordTypes, RemoteQueue
  <2>3. Locals'
    BY <1>1, <2>2 DEF Locals, RemoteQueue
  <2>4. Sorted'
    BY <2>2 DEF Sorted
  <2>5. Backed'
    BY <1>1, <2>2, ShelteredAlone DEF Backed, RemoteQueue
  <2>6. Remotes'
    BY <1>1 DEF Remotes, RemoteQueue, WordTypes
  <2>7. WakeNotLost'
    BY <1>1, <2>0, <2>2, ShelteredAlone DEF WakeNotLost, RemoteQueue
  <2> QED BY <2>1, <2>3, <2>4, <2>5, <2>6, <2>7
<1>2. CASE RemoteBitmap(r)
  <2>0. /\ rtask[r] \in RemoteTasks /\ Priority[rtask[r]] \in Prios
        /\ \A t \in Sheltered : Priority[t] # Priority[rtask[r]]
    BY <1>2, ShelteredAlone DEF Remotes, RemoteBitmap, Prios
  <2>1. WordTypes' /\ Remotes'
    BY <1>2, <2>0 DEF WordTypes, RemoteBitmap, Remotes
  <2>2. Locals' /\ Sorted'
    BY <1>2 DEF Locals, Sorted, RemoteBitmap
  <2>3. Backed'
    BY <1>2, <2>0 DEF Backed, RemoteBitmap
  <2>4. WakeNotLost'
    BY <1>2 DEF WakeNotLost, RemoteBitmap
  <2> QED BY <2>1, <2>2, <2>3, <2>4
<1>3. CASE RemoteFlag(r)
  <2>1. WordTypes' /\ Remotes'
    BY <1>3 DEF WordTypes, RemoteFlag, Remotes
  <2>2. Locals' /\ Sorted'
    BY <1>3 DEF Locals, Sorted, RemoteFlag
  <2>3. Backed' /\ WakeNotLost'
    BY <1>3 DEF Backed, WakeNotLost, RemoteFlag
  <2> QED BY <2>1, <2>2, <2>3
<1> QED BY <1>1, <1>2, <1>3 DEF RemoteStep

\* The steps of the executor's loop.
LEMMA LoopKeeps ==
  ASSUME WakeInv, LoopStep
  PROVE  WakeInv'
<1> USE DEF WakeInv, wakervars
<1>1. CASE ClearPend
  BY <1>1 DEF ClearPend, WordTypes, Locals, Sorted, Backed, Remotes, WakeNotLost
<1>2. CASE LoadBitmap
  <2>1. pc' = "load_queue" => prio' \in bitmap
    BY <1>2, GreatestBit DEF LoadBitmap, WordTypes
  <2>2. Locals'
    BY <1>2, <2>1 DEF LoadBitmap, Locals
  <2> QED BY <1>2, <2>2 DEF LoadBitmap, WordTypes, Sorted, Backed, Remotes, WakeNotLost
<1>3. CASE LoadQueue
  <2>0. prio \in Prios /\ prio \in bitmap
    BY <1>3 DEF LoadQueue, Locals, WordTypes
  <2>1. CASE queue[prio] = {}
    <3>1. \A t \in Sheltered : Priority[t] # prio
      BY <1>3, <2>0, <2>1 DEF LoadQueue, Backed
    <3>2. Locals'
      BY <1>3, <2>1, <3>1 DEF LoadQueue, Locals
    <3> QED BY <1>3, <3>2 DEF LoadQueue, WordTypes, Sorted, Backed, Remotes, WakeNotLost
  <2>2. CASE queue[prio] # {}
    <3>1. id' \in queue[prio] /\ pc' = "take"
      BY <1>3, <2>0, <2>2, LeastBit DEF LoadQueue, WordTypes
    <3>2. Locals'
      BY <1>3, <2>0, <3>1 DEF LoadQueue, Locals
    <3> QED BY <1>3, <3>2 DEF LoadQueue, WordTypes, Sorted, Backed, Remotes, WakeNotLost
  <2> QED BY <2>1, <2>2
<1>4. CASE Heal
  <2>1. \A t \in Sheltered : Priority[t] # prio
    BY <1>4 DEF Heal, Locals
  <2>2. Backed' /\ WakeNotLost'
    BY <1>4, <2>1 DEF Heal, Backed, WakeNotLost
  <2> QED BY <1>4, <2>2 DEF Heal, WordTypes, Locals, Sorted, Remotes
<1>5. CASE Take
  <2>0. /\ prio \in Prios /\ id \in queue[prio] /\ id \in Tasks /\ Priority[id] = prio
        /\ queue \in [Prios -> SUBSET Tasks]
    BY <1>5 DEF Take, Locals, WordTypes, Sorted
  <2>1. /\ queue'[prio] = queue[prio] \ {id}
        /\ \A p \in Prios \ {prio} : queue'[p] = queue[p]
    BY <1>5, <2>0 DEF Take
  <2>2. WordTypes' /\ Remotes'
    BY <1>5, <2>0 DEF Take, WordTypes, Remotes
  <2>3. Locals'
    BY <1>5, <2>0 DEF Take, Locals
  <2>4. Sorted'
    BY <2>1 DEF Sorted
  <2>5. ASSUME id \in Sheltered PROVE pc' = "clear_bit"
    <3>1. \A t \in queue[prio] : t \in Tasks /\ Priority[t] = Priority[id]
      BY <2>0 DEF Sorted
    <3>2. \A t \in queue[prio] : t = id
      BY <2>5, <3>1, ShelteredAlone
    <3>3. queue[prio] = {id}
      BY <2>0, <3>2
    <3> QED BY <1>5, <3>3 DEF Take
  <2>6. ASSUME NEW t \in Sheltered
        PROVE  (t = id /\ pc' = "clear_bit" /\ id' = t) \/ queue'[Priority[t]] = queue[Priority[t]]
    BY <1>5, <2>0, <2>1, <2>5, ShelteredAlone DEF Take
  <2>7. Backed' /\ WakeNotLost'
    BY <1>5, <2>6 DEF Take, Backed, WakeNotLost
  <2> QED BY <2>2, <2>3, <2>4, <2>7
<1>6. CASE ClearBit
  <2>0. id \in Tasks /\ prio = Priority[id]
    BY <1>6 DEF ClearBit, Locals
  <2>1. \A t \in Sheltered : t # id => Priority[t] # prio
    BY <2>0, ShelteredAlone
  <2>2. Backed' /\ WakeNotLost'
    BY <1>6, <2>0, <2>1 DEF ClearBit, Backed, WakeNotLost
  <2> QED BY <1>6, <2>0, <2>2 DEF ClearBit, WordTypes, Locals, Sorted, Remotes
<1>7. CASE Check
  <2>1. Locals'
    BY <1>7 DEF Check, Locals
  <2>2. WakeNotLost'
    BY <1>7 DEF Check, WakeNotLost
  <2> QED BY <1>7, <2>1, <2>2 DEF Check, WordTypes, Sorted, Backed, Remotes
<1>8. CASE Pending
  BY <1>8 DEF Pending, WordTypes, Locals, Sorted, Backed, Remotes, WakeNotLost
<1>9. CASE Idle
  BY <1>9 DEF Idle, WordTypes, Locals, Sorted, Backed, Remotes, WakeNotLost
<1> QED BY <1>1, <1>2, <1>3, <1>4, <1>5, <1>6, <1>7, <1>8, <1>9 DEF LoopStep

-----------------------------------------------------------------------------
TimerTypes ==
  /\ now \in Nat /\ due \in Nat
  /\ slots \in [Slots -> [deadline : Nat, task : Sleepers \cup {NONE}]]
  /\ sleep \in [Sleepers -> [deadline : Nat, slot : Slots \cup {NONE}, late : BOOLEAN]]
  /\ \A i \in Slots : slots[i].deadline # 0 => slots[i].task \in Sleepers
  /\ \A t \in Sleepers : Asleep(t) => sleep[t].deadline # 0 /\ sleep[t].slot \in Slots

\* Between the two halves of Sleep's first poll the task has no Sleep yet, and a
\* completed task has none any more.
Registering ==
  /\ pc = "register" => cur \in Sleepers /\ ~Asleep(cur) /\ due # 0
  /\ \A t \in Sleepers \cap completed : ~Asleep(t)

\* The slot of t's handle is t's registration.
InPlace(t) == slots[sleep[t].slot] = [deadline |-> sleep[t].deadline, task |-> t]

\* A Sleep whose slot is not its own has reached its deadline.
Placed == \A t \in Sleepers : Asleep(t) => InPlace(t) \/ now >= sleep[t].deadline

\* A registration that the stale handle of another task could cancel is late.
Alone ==
  \A t, u \in Sleepers :
    /\ t # u /\ Asleep(t) /\ Asleep(u) /\ InPlace(t)
    /\ sleep[t].slot = sleep[u].slot /\ sleep[t].deadline = sleep[u].deadline
    => sleep[t].late

SlotInv ==
  TimerTypes /\ Registering /\ Placed /\ Alone /\ SleeperIsHeard /\ AheadIsOwned

\* What a step must leave alone, or only add to, for SlotInv to stay.
LEMMA SlotsUntouched ==
  ASSUME SlotInv, UNCHANGED timervars,
         completed' \ completed \subseteq {t \in Tasks : t \in Sleepers => ~Asleep(t)},
         pc' = "register" => pc = "register" /\ cur' = cur,
         \A t \in Sleepers : Asleep(t) /\ ~sleep[t].late /\ ~InPlace(t) /\ (t \in owed \/ cur = t)
                             => t \in owed' \/ cur' = t
  PROVE  SlotInv'
<1> USE DEF SlotInv, timervars
<1>1. TimerTypes'
  BY DEF TimerTypes, Asleep
<1>2. Registering'
  BY DEF Registering, Asleep, TimerTypes
<1>3. Placed' /\ Alone'
  BY DEF Placed, Alone, InPlace, Asleep
<1>4. SleeperIsHeard'
  BY DEF SleeperIsHeard, Heard, InPlace, Asleep
<1>5. AheadIsOwned'
  BY DEF AheadIsOwned
<1> QED BY <1>1, <1>2, <1>3, <1>4, <1>5

\* Register puts the Sleep of the polled task in a free slot.
LEMMA RegisterKeeps ==
  ASSUME WakeInv, SlotInv, Register
  PROVE  SlotInv'
<1> USE DEF SlotInv
<1> DEFINE free == {i \in Slots : slots[i].deadline = 0}
<1>0. /\ cur \in Sleepers /\ cur \notin completed /\ ~Asleep(cur) /\ due # 0 /\ due \in Nat
      /\ now \in Nat
  BY DEF Register, WakeInv, Locals, Registering, TimerTypes
<1>1. CASE free = {}
  <2>1. UNCHANGED <<slots, sleep, cur, now, owed, completed>> /\ pc' = "panic" /\ due' = 0
    BY <1>1 DEF Register
  <2>2. TimerTypes'
    BY <2>1 DEF TimerTypes, Asleep
  <2>3. Registering' /\ Placed' /\ Alone' /\ AheadIsOwned'
    BY <2>1 DEF Registering, Placed, Alone, InPlace, Asleep, AheadIsOwned
  <2>4. SleeperIsHeard'
    BY <2>1 DEF SleeperIsHeard, Heard, Asleep
  <2> QED BY <2>2, <2>3, <2>4
<1>2. CASE free # {}
  <2> DEFINE s == Least(free)
             h == [deadline |-> due, slot |-> s, late |-> now >= due]
  <2>1. s \in Slots /\ slots[s].deadline = 0
    <3>1. free \subseteq Nat
      BY DEF Slots
    <3> QED BY <1>2, <3>1, LeastBit
  <2> HIDE DEF s
  <2>2. /\ slots' = [slots EXCEPT ![s] = [deadline |-> due, task |-> cur]]
        /\ sleep' = [sleep EXCEPT ![cur] = h]
        /\ cur' = NONE /\ due' = 0 /\ pc' = "load_bitmap"
        /\ UNCHANGED <<now, owed, completed>>
    BY <1>2 DEF Register, s
  <2>3. /\ slots'[s] = [deadline |-> due, task |-> cur]
        /\ \A i \in Slots \ {s} : slots'[i] = slots[i]
        /\ sleep'[cur] = h
        /\ \A t \in Sleepers \ {cur} : sleep'[t] = sleep[t]
    BY <1>0, <2>1, <2>2 DEF TimerTypes
  <2>4. \A t \in Sleepers \ {cur} : Asleep(t)' = Asleep(t)
    BY <2>3 DEF Asleep
  <2>5. TimerTypes'
    <3>1. /\ slots' \in [Slots -> [deadline : Nat, task : Sleepers \cup {NONE}]]
          /\ sleep' \in [Sleepers -> [deadline : Nat, slot : Slots \cup {NONE}, late : BOOLEAN]]
      BY <1>0, <2>1, <2>2 DEF TimerTypes
    <3>2. \A i \in Slots : slots'[i].deadline # 0 => slots'[i].task \in Sleepers
      BY <1>0, <2>3 DEF TimerTypes
    <3>3. \A t \in Sleepers : Asleep(t)' => sleep'[t].deadline # 0 /\ sleep'[t].slot \in Slots
      BY <1>0, <2>1, <2>3, <2>4 DEF TimerTypes
    <3> QED BY <1>0, <2>2, <3>1, <3>2, <3>3 DEF TimerTypes
  <2>6. Registering'
    BY <1>0, <2>2, <2>4 DEF Registering
  <2>c. PICK c \in Sleepers : c = cur
    BY <1>0
  <2>7. InPlace(c)'
    BY <2>3, <2>c DEF InPlace
  <2>8. ASSUME NEW t \in Sleepers \ {cur}, Asleep(t)
        PROVE  /\ InPlace(t)' = InPlace(t)
               /\ sleep[t].slot = s => ~InPlace(t)
    <3>1. sleep[t].deadline # 0 /\ sleep[t].slot \in Slots /\ sleep'[t] = sleep[t]
      BY <2>3, <2>8 DEF TimerTypes
    <3>2. CASE sleep[t].slot = s
      BY <2>1, <2>3, <3>1, <3>2 DEF InPlace
    <3>3. CASE sleep[t].slot # s
      BY <2>3, <3>1, <3>3 DEF InPlace
    <3> QED BY <3>2, <3>3
  <2>9. Placed'
    <3>1. ASSUME NEW t \in Sleepers, Asleep(t)' PROVE InPlace(t)' \/ now >= sleep'[t].deadline
      <4>1. CASE t = c
        BY <2>7, <4>1
      <4>2. CASE t # c
        BY <2>3, <2>4, <2>8, <2>c, <3>1, <4>2 DEF Placed
      <4> QED BY <4>1, <4>2
    <3> QED BY <2>2, <3>1 DEF Placed
  <2>10. Alone'
    <3>1. ASSUME NEW t \in Sleepers, NEW u \in Sleepers,
                 t # u, Asleep(t)', Asleep(u)', InPlace(t)',
                 sleep'[t].slot = sleep'[u].slot, sleep'[t].deadline = sleep'[u].deadline
          PROVE  sleep'[t].late
      <4>1. CASE t = cur
        <5>1. Asleep(u) /\ sleep[u].slot = s /\ sleep[u].deadline = due
          BY <2>3, <2>4, <3>1, <4>1
        <5>2. now >= due
          BY <2>8, <3>1, <4>1, <5>1 DEF Placed
        <5>3. sleep'[t].late = (now >= due)
          BY <2>3, <4>1
        <5> QED BY <5>2, <5>3
      <4>2. CASE u = cur
        BY <2>3, <2>4, <2>8, <3>1, <4>2
      <4>3. CASE t # cur /\ u # cur
        BY <2>3, <2>4, <2>8, <3>1, <4>3 DEF Alone
      <4> QED BY <4>1, <4>2, <4>3
    <3> QED BY <3>1 DEF Alone
  <2>11. SleeperIsHeard'
    <3>1. ASSUME NEW t \in Sleepers, Asleep(t)', ~sleep'[t].late
          PROVE  InPlace(t)' \/ t \in owed' \/ cur' = t
      <4>1. CASE t = c
        BY <2>7, <4>1
      <4>2. CASE t # c
        BY <2>2, <2>c, <2>3, <2>4, <2>8, <3>1, <4>2 DEF SleeperIsHeard, Heard, InPlace
      <4> QED BY <4>1, <4>2
    <3> QED BY <3>1 DEF SleeperIsHeard, Heard, InPlace
  <2>12. AheadIsOwned'
    <3>1. ASSUME NEW i \in Slots, slots'[i].deadline > now
          PROVE  /\ sleep'[slots'[i].task].deadline = slots'[i].deadline
                 /\ sleep'[slots'[i].task].slot = i
      <4>1. CASE i = s
        BY <2>3, <4>1
      <4>2. CASE i # s
        <5>1. /\ slots'[i] = slots[i] /\ slots[i].deadline # 0 /\ slots[i].task \in Sleepers
              /\ sleep[slots[i].task].deadline = slots[i].deadline
              /\ sleep[slots[i].task].slot = i
          BY <1>0, <2>3, <3>1, <4>2 DEF AheadIsOwned, TimerTypes
        <5>2. slots[i].task # cur
          BY <1>0, <5>1 DEF Asleep, NoSleep
        <5> QED BY <2>3, <5>1, <5>2
      <4> QED BY <4>1, <4>2
    <3> QED BY <2>2, <3>1 DEF AheadIsOwned
  <2> QED BY <2>5, <2>6, <2>9, <2>10, <2>11, <2>12
<1> QED BY <1>1, <1>2

\* A Sleep that ends takes its task out of the sleepers, and a slot that it frees
\* is its own or a late registration's.
LEMMA SleepEnds ==
  ASSUME WakeInv, SlotInv, SleepReady \/ SleepDrop
  PROVE  SlotInv'
<1> USE DEF SlotInv
<1>c. PICK c \in Sleepers : c = cur
  BY DEF SleepReady, SleepDrop
<1>0. /\ Asleep(c) /\ sleep[c].slot \in Slots /\ sleep[c].deadline # 0
      /\ c \notin completed /\ pc = "poll"
      /\ sleep' = [sleep EXCEPT ![c] = NoSleep]
      /\ UNCHANGED <<vars, now, due>>
  BY <1>c DEF SleepReady, SleepDrop, TimerTypes, WakeInv, Locals
<1>1. /\ UNCHANGED <<pc, cur, owed, completed>>
  BY <1>0 DEF vars
<1>2. /\ ~Asleep(c)'
      /\ \A t \in Sleepers \ {c} : sleep'[t] = sleep[t] /\ Asleep(t)' = Asleep(t)
      /\ sleep' \in [Sleepers -> [deadline : Nat, slot : Slots \cup {NONE}, late : BOOLEAN]]
  BY <1>0 DEF TimerTypes, Asleep, NoSleep
<1> DEFINE s == sleep[c].slot
<1>3. \/ slots' = slots /\ now >= sleep[c].deadline
      \/ slots' = slots /\ slots[s].deadline # sleep[c].deadline
      \/ slots' = [slots EXCEPT ![s] = FreeSlot] /\ slots[s].deadline = sleep[c].deadline
  BY <1>0, <1>c DEF SleepReady, SleepDrop, Cancelled
<1>4. /\ \A i \in Slots : slots'[i] = slots[i] \/ (i = s /\ slots'[i] = FreeSlot)
      /\ slots' \in [Slots -> [deadline : Nat, task : Sleepers \cup {NONE}]]
  BY <1>0, <1>3 DEF TimerTypes, FreeSlot
<1>5. TimerTypes'
  BY <1>0, <1>2, <1>4 DEF TimerTypes, FreeSlot
<1>6. Registering'
  BY <1>0, <1>1, <1>2 DEF Registering
<1>7. ASSUME NEW t \in Sleepers \ {c}, Asleep(t), InPlace(t)
      PROVE  InPlace(t)' \/ (sleep[t].late /\ now >= sleep[t].deadline)
  <2>1. sleep[t].slot \in Slots /\ sleep'[t] = sleep[t]
    BY <1>2, <1>7 DEF TimerTypes
  <2>2. CASE slots'[sleep[t].slot] = slots[sleep[t].slot]
    BY <1>7, <2>1, <2>2 DEF InPlace
  <2>3. CASE slots'[sleep[t].slot] # slots[sleep[t].slot]
    <3>1. /\ sleep[t].slot = s /\ slots[s].deadline = sleep[c].deadline
          /\ slots[s] = [deadline |-> sleep[t].deadline, task |-> t]
      BY <1>3, <1>4, <1>7, <2>1, <2>3 DEF InPlace
    <3>2. sleep[t].deadline = sleep[c].deadline /\ ~InPlace(c)
      BY <3>1 DEF InPlace
    <3> QED BY <1>0, <1>7, <3>1, <3>2 DEF Alone, Placed
  <2> QED BY <2>2, <2>3
<1>8. \A t \in Sleepers \ {c} : Asleep(t) /\ InPlace(t)' => InPlace(t)
  <2>1. ASSUME NEW t \in Sleepers \ {c}, Asleep(t), InPlace(t)' PROVE InPlace(t)
    <3>1. sleep[t].slot \in Slots /\ sleep'[t] = sleep[t] /\ sleep[t].deadline # 0
      BY <1>2, <2>1 DEF TimerTypes
    <3> QED BY <1>4, <2>1, <3>1 DEF InPlace, FreeSlot
  <2> QED BY <2>1
<1>9. Placed'
  BY <1>0, <1>2, <1>7 DEF Placed
<1>10. Alone'
  BY <1>2, <1>8 DEF Alone
<1>11. SleeperIsHeard'
  <2>1. ASSUME NEW t \in Sleepers, Asleep(t)', ~sleep'[t].late
        PROVE  InPlace(t)' \/ t \in owed' \/ cur' = t
    <3>1. t # c /\ Asleep(t) /\ ~sleep[t].late
      BY <1>2, <2>1
    <3> QED BY <1>1, <1>7, <3>1 DEF SleeperIsHeard, Heard, InPlace
  <2> QED BY <2>1 DEF SleeperIsHeard, Heard, InPlace
<1>12. AheadIsOwned'
  <2>1. ASSUME NEW i \in Slots, slots'[i].deadline > now
        PROVE  /\ sleep'[slots'[i].task].deadline = slots'[i].deadline
               /\ sleep'[slots'[i].task].slot = i
    <3>1. /\ slots'[i] = slots[i] /\ slots[i].task \in Sleepers
          /\ sleep[slots[i].task].deadline = slots[i].deadline
          /\ sleep[slots[i].task].slot = i
      BY <1>4, <2>1 DEF AheadIsOwned, TimerTypes, FreeSlot
    <3>2. slots[i].task # c
      <4>1. ASSUME slots[i].task = c PROVE FALSE
        <5>1. i = s /\ slots[i].deadline = sleep[c].deadline /\ slots[i].deadline # 0
              /\ slots[i].deadline \in Nat /\ slots[i].deadline > now /\ now \in Nat
          BY <1>0, <2>1, <3>1, <4>1 DEF TimerTypes
        <5>2. slots'[i] = FreeSlot
          BY <1>3, <5>1 DEF TimerTypes
        <5> QED BY <3>1, <5>1, <5>2 DEF FreeSlot
      <4> QED BY <4>1
    <3> QED BY <1>2, <3>1, <3>2
  <2> QED BY <1>0, <2>1 DEF AheadIsOwned
<1> QED BY <1>5, <1>6, <1>9, <1>10, <1>11, <1>12

\* The tick frees the expired slots and owes their tasks a poll.
LEMMA TickKeeps ==
  ASSUME WakeInv, SlotInv, Tick
  PROVE  SlotInv'
<1> USE DEF SlotInv
<1>0. /\ slots' = [i \in Slots |-> IF i \in Expired THEN FreeSlot ELSE slots[i]]
      /\ owed' = owed \cup {slots[i].task : i \in Expired}
      /\ UNCHANGED <<cur, completed, now, sleep, due>>
      /\ pc' = "register" => pc = "register"
  BY DEF Tick
<1>1. \A i \in Slots : slots'[i] = IF i \in Expired THEN FreeSlot ELSE slots[i]
  BY <1>0
<1>2. \A i \in Expired : i \in Slots /\ now >= slots[i].deadline
  BY DEF Expired
<1>3. TimerTypes'
  <2>1. slots' \in [Slots -> [deadline : Nat, task : Sleepers \cup {NONE}]]
    BY <1>0 DEF TimerTypes, FreeSlot
  <2>2. \A i \in Slots : slots'[i].deadline # 0 => slots'[i].task \in Sleepers
    BY <1>1 DEF TimerTypes, FreeSlot
  <2> QED BY <1>0, <2>1, <2>2 DEF TimerTypes, Asleep
<1>4. Registering'
  BY <1>0 DEF Registering, Asleep
<1>5. ASSUME NEW t \in Sleepers, Asleep(t), InPlace(t)
      PROVE  InPlace(t)' \/ (now >= sleep[t].deadline /\ t \in owed')
  <2>1. sleep[t].slot \in Slots
    BY <1>5 DEF TimerTypes
  <2>2. CASE sleep[t].slot \in Expired
    BY <1>0, <1>2, <1>5, <2>2 DEF InPlace
  <2>3. CASE sleep[t].slot \notin Expired
    BY <1>0, <1>1, <1>5, <2>1, <2>3 DEF InPlace
  <2> QED BY <2>2, <2>3
<1>6. ASSUME NEW t \in Sleepers, Asleep(t), InPlace(t)' PROVE InPlace(t)
  <2>1. sleep[t].slot \in Slots /\ sleep[t].deadline # 0
    BY <1>6 DEF TimerTypes
  <2> QED BY <1>0, <1>1, <1>6, <2>1 DEF InPlace, FreeSlot
<1>7. Placed'
  BY <1>0, <1>5 DEF Placed, Asleep
<1>8. Alone'
  BY <1>0, <1>6 DEF Alone, Asleep
<1>9. SleeperIsHeard'
  <2>1. ASSUME NEW t \in Sleepers, Asleep(t)', ~sleep'[t].late
        PROVE  InPlace(t)' \/ t \in owed' \/ cur' = t
    <3>1. Asleep(t) /\ ~sleep[t].late
      BY <1>0, <2>1 DEF Asleep
    <3>2. InPlace(t) \/ t \in owed \/ cur = t
      BY <3>1 DEF SleeperIsHeard, Heard, InPlace
    <3> QED BY <1>0, <1>5, <3>1, <3>2
  <2> QED BY <2>1 DEF SleeperIsHeard, Heard, InPlace
<1>10. AheadIsOwned'
  <2>1. \A i \in Slots : slots'[i].deadline > now => slots'[i] = slots[i]
    BY <1>1 DEF FreeSlot, TimerTypes
  <2> QED BY <1>0, <2>1 DEF AheadIsOwned
<1> QED BY <1>3, <1>4, <1>7, <1>8, <1>9, <1>10

\* The first half of Sleep's first poll, and the clock.
LEMMA StartKeeps ==
  ASSUME WakeInv, SlotInv, NEW m \in Micros, SleepStart(m)
  PROVE  SlotInv'
<1> USE DEF SlotInv
<1>1. /\ UNCHANGED <<cur, completed, owed, now, slots, sleep>>
      /\ due' = now + m /\ m \in Nat \ {0} /\ now \in Nat
      /\ cur \in Sleepers /\ ~Asleep(cur)
  BY DEF SleepStart, TimerTypes
<1>2. TimerTypes'
  BY <1>1 DEF TimerTypes, Asleep
<1>3. due' # 0
  BY <1>1
<1>4. Registering'
  BY <1>1, <1>3 DEF Registering, Asleep
<1>5. Placed' /\ Alone' /\ SleeperIsHeard' /\ AheadIsOwned'
  BY <1>1 DEF Placed, Alone, SleeperIsHeard, Heard, AheadIsOwned, InPlace, Asleep
<1> QED BY <1>2, <1>4, <1>5

LEMMA ClockKeeps ==
  ASSUME WakeInv, SlotInv, Clock
  PROVE  SlotInv'
<1> USE DEF SlotInv
<1>1. /\ UNCHANGED <<pc, cur, completed, owed, slots, sleep, due>>
      /\ now' = now + 1 /\ now \in Nat
  BY DEF Clock, vars, TimerTypes
<1>2. TimerTypes'
  BY <1>1 DEF TimerTypes, Asleep
<1>3. Registering' /\ Alone' /\ SleeperIsHeard'
  BY <1>1 DEF Registering, Alone, SleeperIsHeard, Heard, InPlace, Asleep
<1>4. Placed'
  <2>1. \A t \in Sleepers : sleep[t].deadline \in Nat
    BY DEF TimerTypes
  <2> QED BY <1>1, <2>1 DEF Placed, InPlace, Asleep
<1>5. AheadIsOwned'
  <2>1. \A i \in Slots : slots[i].deadline \in Nat
    BY DEF TimerTypes
  <2> QED BY <1>1, <2>1 DEF AheadIsOwned
<1> QED BY <1>2, <1>3, <1>4, <1>5

-----------------------------------------------------------------------------
IInv == WakeInv /\ SlotInv

\* The rest of a poll; the poll of a task whose Sleep waits leaves it in its slot.
LEMMA PollKeeps ==
  ASSUME IInv, NEW W \in WakeSets, NEW result \in {"Ready", "Pending"}, TimerPoll(W, result)
  PROVE  IInv'
<1> USE DEF IInv
<1>1. /\ pc = "poll" /\ pc' = "load_bitmap" /\ cur' = NONE
      /\ mark_ready_all(W) /\ owed' = owed \cup W /\ W \subseteq Tasks
      /\ completed' = IF result = "Ready" THEN completed \cup {cur} ELSE completed
      /\ UNCHANGED <<prio, id, rpc, rtask>> /\ UNCHANGED timervars
      /\ cur \in Tasks
  BY DEF TimerPoll, Poll, WakeSets, WakeInv, Locals
<1>2. WakeInv'
  <2>1. completed' \subseteq Tasks
    BY <1>1 DEF WakeInv, WordTypes
  <2> QED BY <1>1, <2>1, MarkReadyKeeps
<1>3. cur \in Sleepers /\ Asleep(cur) => result = "Pending" /\ InPlace(cur)
  <2>1. ASSUME cur \in Sleepers, Asleep(cur) PROVE result = "Pending" /\ InPlace(cur)
    <3>1. result = "Pending" /\ now < sleep[cur].deadline
      BY <2>1 DEF TimerPoll
    <3>2. now \in Nat /\ sleep[cur].deadline \in Nat
      BY <2>1 DEF SlotInv, TimerTypes
    <3> QED BY <2>1, <3>1, <3>2 DEF SlotInv, Placed
  <2> QED BY <2>1
<1>4. SlotInv'
  <2>1. completed' \ completed \subseteq {t \in Tasks : t \in Sleepers => ~Asleep(t)}
    BY <1>1, <1>3
  <2>2. \A t \in Sleepers :
          Asleep(t) /\ ~sleep[t].late /\ ~InPlace(t) /\ (t \in owed \/ cur = t)
            => t \in owed' \/ cur' = t
    BY <1>1, <1>3
  <2> QED BY <1>1, <2>1, <2>2, SlotsUntouched
<1> QED BY <1>2, <1>4

\* The steps that have nothing to do with sleeps.
LEMMA OthersKeep ==
  ASSUME IInv, UNCHANGED timervars,
         LoopStep \/ (\E r \in Remote : RemoteStep(r)) \/ (\E W \in WakeSets : Irq(W))
  PROVE  IInv'
<1> USE DEF IInv
<1>1. CASE LoopStep
  <2>1. WakeInv'
    BY <1>1, LoopKeeps
  <2>2. completed' = completed /\ pc' # "register"
    BY <1>1 DEF LoopStep, ClearPend, LoadBitmap, LoadQueue, Heal, Take, ClearBit, Check,
                Pending, Idle
  <2>3. CASE Check
    <3>1. /\ cur = NONE /\ id \in Tasks /\ owed' = owed \ {id}
          /\ id \in completed \/ cur' = id
      BY <2>3 DEF Check, WakeInv, Locals
    <3>2. \A t \in Sleepers : t \in completed => ~Asleep(t)
      BY DEF SlotInv, Registering
    <3>3. \A t \in Sleepers : t # NONE
      BY DEF NONE
    <3>4. \A t \in Sleepers : Asleep(t) /\ (t \in owed \/ cur = t) => t \in owed' \/ cur' = t
      BY <3>1, <3>2, <3>3
    <3> QED BY <2>1, <2>2, <3>4, SlotsUntouched
  <2>4. CASE ~Check
    <3>1. owed' = owed /\ cur' = cur
      BY <1>1, <2>4 DEF LoopStep, ClearPend, LoadBitmap, LoadQueue, Heal, Take, ClearBit,
                        Pending, Idle
    <3> QED BY <2>1, <2>2, <3>1, SlotsUntouched
  <2> QED BY <2>3, <2>4
<1>2. ASSUME NEW r \in Remote, RemoteStep(r) PROVE IInv'
  <2>1. WakeInv'
    BY <1>2, RemoteKeeps
  <2>2. /\ completed' = completed /\ owed \subseteq owed' /\ cur' = cur
        /\ pc' = "register" => pc = "register"
    BY <1>2 DEF RemoteStep, RemoteQueue, RemoteBitmap, RemoteFlag
  <2> QED BY <2>1, <2>2, SlotsUntouched
<1>3. ASSUME NEW W \in WakeSets, Irq(W) PROVE IInv'
  <2>1. WakeInv'
    <3>1. W \subseteq Tasks
      BY DEF WakeSets
    <3>2. UNCHANGED <<pc, cur, completed>>
            \/ (pc = "idle" /\ pc' = "clear_pend" /\ UNCHANGED <<cur, completed>>)
      BY <1>3 DEF Irq
    <3> QED BY <1>3, <3>1, <3>2, MarkReadyKeeps DEF Irq
  <2>2. /\ completed' = completed /\ owed \subseteq owed' /\ cur' = cur
        /\ pc' = "register" => pc = "register"
    BY <1>3 DEF Irq
  <2> QED BY <2>1, <2>2, SlotsUntouched
<1> QED BY <1>1, <1>2, <1>3

\* The steps of Sleep leave the waker bitmaps alone; the tick marks tasks ready.
LEMMA SleepStepsKeep ==
  ASSUME IInv,
         (\E m \in Micros : SleepStart(m)) \/ Register \/ SleepReady \/ SleepDrop \/ Clock
  PROVE  IInv'
<1> USE DEF IInv
<1>1. ASSUME NEW m \in Micros, SleepStart(m) PROVE IInv'
  <2>1. WakeInv'
    BY <1>1 DEF SleepStart, wakervars, WakeInv, WordTypes, Locals, Sorted, Backed, Remotes,
                WakeNotLost
  <2> QED BY <1>1, <2>1, StartKeeps
<1>2. CASE Register
  <2>1. /\ pc = "register" /\ (pc' = "panic" \/ (pc' = "load_bitmap" /\ cur' = NONE))
        /\ UNCHANGED <<queue, bitmap, prio, id, completed, owed, rpc, rtask>>
    BY <1>2 DEF Register, wakervars
  <2>2. WakeInv'
    BY <2>1 DEF WakeInv, WordTypes, Locals, Sorted, Backed, Remotes, WakeNotLost
  <2> QED BY <1>2, <2>2, RegisterKeeps
<1>3. CASE SleepReady \/ SleepDrop \/ Clock
  <2>1. UNCHANGED vars
    BY <1>3 DEF SleepReady, SleepDrop, Clock
  <2>2. WakeInv'
    BY <2>1 DEF vars, WakeInv, WordTypes, Locals, Sorted, Backed, Remotes, WakeNotLost
  <2> QED BY <1>3, <2>2, SleepEnds, ClockKeeps
<1> QED BY <1>1, <1>2, <1>3

LEMMA TickStepKeeps ==
  ASSUME IInv, Tick
  PROVE  IInv'
<1> USE DEF IInv
<1> DEFINE W == {slots[i].task : i \in Expired}
<1>1. W \subseteq Tasks
  BY DEF Expired, SlotInv, TimerTypes
<1>2. /\ mark_ready_all(W) /\ owed' = owed \cup W
      /\ UNCHANGED <<prio, id, rpc, rtask>>
      /\ \/ UNCHANGED <<pc, cur, completed>>
         \/ pc = "idle" /\ pc' = "clear_pend" /\ UNCHANGED <<cur, completed>>
  BY DEF Tick, wakervars
<1>3. WakeInv'
  BY <1>1, <1>2, MarkReadyKeeps
<1> QED BY <1>3, TickKeeps

\* The invariant holds initially and every step keeps it.
THEOREM Invariance == TimerSpec => []IInv
<1>1. TimerInit => IInv
  <2> SUFFICES ASSUME TimerInit PROVE IInv
    OBVIOUS
  <2>1. \A t \in Tasks : Priority[t] \in Prios
    BY DEF Prios
  <2>2. WordTypes
    BY <2>1 DEF TimerInit, Init, WordTypes
  <2>3. Locals /\ Sorted /\ Remotes
    BY DEF TimerInit, Init, Locals, Sorted, Remotes
  <2>4. Backed /\ WakeNotLost
    BY <2>1, ShelteredAlone DEF TimerInit, Init, Backed, WakeNotLost
  <2>5. \A t \in Sleepers : ~Asleep(t)
    BY DEF TimerInit, Asleep
  <2>6. /\ slots \in [Slots -> [deadline : Nat, task : Sleepers \cup {NONE}]]
        /\ sleep \in [Sleepers -> [deadline : Nat, slot : Slots \cup {NONE}, late : BOOLEAN]]
    BY DEF TimerInit, FreeSlot, NoSleep
  <2>7. now = 0 /\ due = 0 /\ \A i \in Slots : slots[i].deadline = 0
    BY DEF TimerInit, FreeSlot
  <2>8. TimerTypes /\ Registering
    BY <2>5, <2>6, <2>7 DEF TimerInit, Init, TimerTypes, Registering
  <2>9. Placed /\ Alone /\ SleeperIsHeard /\ AheadIsOwned
    BY <2>5, <2>7 DEF Placed, Alone, SleeperIsHeard, AheadIsOwned
  <2> QED BY <2>2, <2>3, <2>4, <2>8, <2>9 DEF IInv, WakeInv, SlotInv
<1>2. IInv /\ [TimerNext]_<<vars, timervars>> => IInv'
  <2> SUFFICES ASSUME IInv, [TimerNext]_<<vars, timervars>> PROVE IInv'
    OBVIOUS
  <2>1. ASSUME NEW W \in WakeSets, NEW result \in {"Ready", "Pending"}, TimerPoll(W, result)
        PROVE  IInv'
    BY <2>1, PollKeeps
  <2>2. CASE Tick
    BY <2>2, TickStepKeeps
  <2>3. CASE (\E m \in Micros : SleepStart(m)) \/ Register \/ SleepReady \/ SleepDrop \/ Clock
    BY <2>3, SleepStepsKeep
  <2>4. CASE /\ UNCHANGED timervars
             /\ LoopStep \/ (\E r \in Remote : RemoteStep(r)) \/ (\E W \in WakeSets : Irq(W))
    BY <2>4, OthersKeep
  <2>5. CASE UNCHANGED <<vars, timervars>>
    <3>1. WakeInv'
      BY <2>5 DEF IInv, vars, WakeInv, WordTypes, Locals, Sorted, Backed, Remotes, WakeNotLost
    <3>2. SlotInv'
      BY <2>5, SlotsUntouched DEF IInv, vars
    <3> QED BY <3>1, <3>2 DEF IInv
  <2> QED BY <2>1, <2>2, <2>3, <2>4, <2>5 DEF TimerNext, TimerStep
<1> QED BY <1>1, <1>2, PTL DEF TimerSpec

\* Whatever is woken, healed, cleared and recycled: a task that is woken on the
\* executor's hart and alone at its priority is where next_ready will find it
\* until its poll begins; a Sleep registered in time has its timer slot or its
\* task has been woken; and a slot whose deadline lies ahead belongs to a Sleep
\* that waits (mark_ready and next_ready, register_deadline, cancel_deadline).
THEOREM WakesStay == TimerSpec => []WakesAreKept
<1>1. IInv => WakesAreKept
  BY DEF IInv, WakeInv, SlotInv, WakesAreKept
<1> QED BY <1>1, Invariance, PTL
=============================================================================
