------------------------------ MODULE Executor ------------------------------
(***************************************************************************)
(* The cooperative tier: the executor's polling loop and the waker bitmaps *)
(* it dequeues from (executor.rs, waker.rs, TaskCell::poll of task.rs).    *)
(*                                                                         *)
(* Each access to an atomic of waker.rs is a step.  A waker that runs on   *)
(* another hart interleaves with the executor's steps; one in an interrupt *)
(* handler of the executor's own hart runs from beginning to end between   *)
(* two of them, and so does a waker inside a task's poll.  An interrupt    *)
(* ends the executor's wait in idle() if the wait has begun; one that      *)
(* comes just before has been handled and does not.                        *)
(***************************************************************************)
EXTENDS Integers, FiniteSets

CONSTANTS Tasks,         \* the async tasks, numbered as their queue bits are
          MAX_PRIORITY,  \* the highest priority
          Priority,      \* the priority of each task
          Remote,        \* wakers on other harts
          RemoteTasks,   \* the tasks they wake
          WAKE_BOUND     \* bound on the number of wakes

ASSUME ExecutorAssumption ==
  /\ Tasks \subseteq Nat /\ IsFiniteSet(Tasks)
  /\ MAX_PRIORITY \in Nat
  /\ Priority \in [Tasks -> 0..MAX_PRIORITY]
  /\ RemoteTasks \subseteq Tasks
  /\ WAKE_BOUND \in Nat

Prios == 0..MAX_PRIORITY

\* No task: what a local holds before it is set, and CURRENT_TASK outside of a
\* poll.
NONE == -1

VARIABLES queue,       \* PRIORITY_QUEUES, a set of tasks per priority
          bitmap,      \* READY_BITMAP, a set of priorities
          pend,        \* EXECUTOR_PEND_FLAG
          pc,          \* where the executor is
          prio,        \* next_ready's local: the priority it looks at
          id,          \* the task next_ready takes
          cur,         \* CURRENT_TASK
          completed,   \* tasks whose future has returned Ready
          live,        \* LIVE_TASKS
          rpc,         \* where each remote waker is in mark_ready
          rtask,       \* and the task it wakes
          owed,        \* tasks woken since their last poll began
          wakes        \* wakes so far

vars == <<queue, bitmap, pend, pc, prio, id, cur, completed, live, rpc, rtask,
          owed, wakes>>

wakervars == <<rpc, rtask, wakes>>

PcLabels == {"clear_pend", "load_bitmap", "load_queue", "heal", "take",
             "clear_bit", "check", "poll", "pending", "wfi", "idle"}

TypeOK ==
  /\ queue \in [Prios -> SUBSET Tasks]
  /\ bitmap \subseteq Prios
  /\ pend \in {0, 1}
  /\ pc \in PcLabels
  /\ prio \in Prios \cup {NONE}
  /\ id \in Tasks \cup {NONE}
  /\ cur \in Tasks \cup {NONE}
  /\ completed \subseteq Tasks
  /\ live \in 0..Cardinality(Tasks)
  /\ rpc \in [Remote -> {"none", "bitmap", "flag"}]
  /\ rtask \in [Remote -> Tasks \cup {NONE}]
  /\ owed \subseteq Tasks
  /\ wakes \in 0..WAKE_BOUND

\* Executor::init: every task is marked ready so that it is polled once.
Init ==
  /\ queue = [p \in Prios |-> {t \in Tasks : Priority[t] = p}]
  /\ bitmap = {Priority[t] : t \in Tasks}
  /\ pend = 1
  /\ pc = "clear_pend"
  /\ prio = NONE /\ id = NONE /\ cur = NONE
  /\ completed = {}
  /\ live = Cardinality(Tasks)
  /\ rpc = [r \in Remote |-> "none"]
  /\ rtask = [r \in Remote |-> NONE]
  /\ owed = Tasks
  /\ wakes = 0

Least(S) == CHOOSE t \in S : \A u \in S : t <= u

Greatest(S) == CHOOSE p \in S : \A q \in S : q <= p

-----------------------------------------------------------------------------
\* The bitmap is forgotten.
mark_ready_all_Bad(W) ==
  /\ queue' = [p \in Prios |-> queue[p] \cup {t \in W : Priority[t] = p}]
  /\ pend' = IF W = {} THEN pend ELSE 1
  /\ UNCHANGED bitmap

\* mark_ready for each task of W, uninterrupted: queue, bitmap, flag.
mark_ready_all(W) ==
  /\ queue' = [p \in Prios |-> queue[p] \cup {t \in W : Priority[t] = p}]
  /\ bitmap' = bitmap \cup {Priority[t] : t \in W}
  /\ pend' = IF W = {} THEN pend ELSE 1

\* An interrupt on the executor's hart; it wakes a task or, like the tick,
\* none, and ends the wait in idle().
Irq(W) ==
  /\ wakes + Cardinality(W) <= WAKE_BOUND
  /\ W # {} \/ pc = "idle"
  /\ mark_ready_all(W)
  /\ owed' = owed \cup W
  /\ wakes' = wakes + Cardinality(W)
  /\ pc' = IF pc = "idle" THEN "clear_pend" ELSE pc
  /\ UNCHANGED <<prio, id, cur, completed, live, rpc, rtask>>

\* The same calls on another hart: the queue word, ...
RemoteQueue(r, t) ==
  /\ rpc[r] = "none"
  /\ wakes < WAKE_BOUND
  /\ queue' = [queue EXCEPT ![Priority[t]] = @ \cup {t}]
  /\ rpc' = [rpc EXCEPT ![r] = "bitmap"]
  /\ rtask' = [rtask EXCEPT ![r] = t]
  /\ owed' = owed \cup {t}
  /\ wakes' = wakes + 1
  /\ UNCHANGED <<bitmap, pend, pc, prio, id, cur, completed, live>>

\* ... the bitmap ...
RemoteBitmap(r) ==
  /\ rpc[r] = "bitmap"
  /\ bitmap' = bitmap \cup {Priority[rtask[r]]}
  /\ rpc' = [rpc EXCEPT ![r] = "flag"]
  /\ UNCHANGED <<queue, pend, pc, prio, id, cur, completed, live, rtask, owed, wakes>>

\* ... the flag, and the broadcast that ends wake_task: an interrupt on the
\* executor's hart.
RemoteFlag(r) ==
  /\ rpc[r] = "flag"
  /\ pend' = 1
  /\ pc' = IF pc = "idle" THEN "clear_pend" ELSE pc
  /\ rpc' = [rpc EXCEPT ![r] = "none"]
  /\ rtask' = [rtask EXCEPT ![r] = NONE]
  /\ UNCHANGED <<queue, bitmap, prio, id, cur, completed, live, owed, wakes>>

-----------------------------------------------------------------------------
\* Executor::run: clear_pend() starts a round.
ClearPend ==
  /\ pc = "clear_pend"
  /\ pend' = 0
  /\ pc' = "load_bitmap"
  /\ UNCHANGED <<queue, bitmap, prio, id, cur, completed, live, owed, wakervars>>

\* next_ready: the highest bit of the bitmap, ...
LoadBitmap ==
  /\ pc = "load_bitmap"
  /\ \/ bitmap = {} /\ pc' = "pending" /\ UNCHANGED prio
     \/ bitmap # {} /\ pc' = "load_queue" /\ prio' = Greatest(bitmap)
  /\ UNCHANGED <<queue, bitmap, pend, id, cur, completed, live, owed, wakervars>>

\* ... the lowest bit of that queue word, ...
LoadQueue ==
  /\ pc = "load_queue"
  /\ \/ queue[prio] = {} /\ pc' = "heal" /\ UNCHANGED id
     \/ queue[prio] # {} /\ pc' = "take" /\ id' = Least(queue[prio])
  /\ UNCHANGED <<queue, bitmap, pend, prio, cur, completed, live, owed, wakervars>>

\* ... or, with an empty word, the bit is cleared and the round ends, ...
Heal ==
  /\ pc = "heal"
  /\ bitmap' = bitmap \ {prio}
  /\ pc' = "pending"
  /\ prio' = NONE
  /\ UNCHANGED <<queue, pend, id, cur, completed, live, owed, wakervars>>

\* ... the task's bit is cleared, and if it was the last ...
Take ==
  /\ pc = "take"
  /\ queue' = [queue EXCEPT ![prio] = @ \ {id}]
  /\ pc' = IF queue[prio] = {id} THEN "clear_bit" ELSE "check"
  /\ UNCHANGED <<bitmap, pend, prio, id, cur, completed, live, owed, wakervars>>

\* ... the priority's bit too.
ClearBit ==
  /\ pc = "clear_bit"
  /\ bitmap' = bitmap \ {prio}
  /\ pc' = "check"
  /\ UNCHANGED <<queue, pend, prio, id, cur, completed, live, owed, wakervars>>

\* A completed task is skipped; another becomes CURRENT_TASK and its poll begins.
\* next_ready has returned: its locals are gone.
Check ==
  /\ pc = "check"
  /\ owed' = owed \ {id}
  /\ prio' = NONE /\ id' = NONE
  /\ \/ id \in completed /\ pc' = "load_bitmap" /\ UNCHANGED cur
     \/ id \notin completed /\ pc' = "poll" /\ cur' = id
  /\ UNCHANGED <<queue, bitmap, pend, completed, live, wakervars>>

\* TaskCell::poll: the future wakes the tasks W and returns Pending, or Ready,
\* which completes the task.  A completed one is not entered but reads Ready.
Poll(W, result) ==
  /\ pc = "poll"
  /\ cur \in completed => W = {} /\ result = "Ready"
  /\ wakes + Cardinality(W) <= WAKE_BOUND
  /\ wakes' = wakes + Cardinality(W)
  /\ mark_ready_all(W)
  /\ owed' = owed \cup W
  /\ completed' = IF result = "Ready" THEN completed \cup {cur} ELSE completed
  /\ live' = IF result = "Ready" THEN live - 1 ELSE live
  /\ cur' = NONE
  /\ pc' = "load_bitmap"
  /\ UNCHANGED <<prio, id, rpc, rtask>>

\* has_pending: sleep only if the flag and the bitmap are clear.
Pending ==
  /\ pc = "pending"
  /\ pc' = IF pend = 0 /\ bitmap = {} THEN "wfi" ELSE "clear_pend"
  /\ UNCHANGED <<queue, bitmap, pend, prio, id, cur, completed, live, owed, wakervars>>

\* idle(): the wait for an interrupt begins.
Idle ==
  /\ pc = "wfi"
  /\ pc' = "idle"
  /\ UNCHANGED <<queue, bitmap, pend, prio, id, cur, completed, live, owed, wakervars>>

\* At most one task is woken by an interrupt or a poll.
WakeSets == {{}} \cup {{t} : t \in Tasks}

LoopStep ==
  \/ ClearPend \/ LoadBitmap \/ LoadQueue \/ Heal \/ Take \/ ClearBit \/ Check
  \/ Pending \/ Idle

ExecutorStep ==
  LoopStep \/ \E W \in WakeSets, result \in {"Ready", "Pending"} : Poll(W, result)

RemoteStep(r) ==
  (\E t \in RemoteTasks : RemoteQueue(r, t)) \/ RemoteBitmap(r) \/ RemoteFlag(r)

Next ==
  \/ ExecutorStep
  \/ \E r \in Remote : RemoteStep(r)
  \/ \E W \in WakeSets : Irq(W)

Spec == Init /\ [][Next]_vars

-----------------------------------------------------------------------------
\* The tasks alone at their priority and woken on the executor's hart only.
Sheltered ==
  {t \in Tasks \ RemoteTasks : \A u \in Tasks : Priority[u] = Priority[t] => u = t}

\* No wake of such a task is lost: once its queue bit is set, and until its poll
\* begins, it is the very task the executor is about to poll or it is where
\* next_ready will find it, whatever next_ready heals and clears for the others.
WakeNotLost ==
  \A t \in Sheltered \cap owed :
    \/ pc \in {"clear_bit", "check"} /\ id = t
    \/ t \in queue[Priority[t]] /\ Priority[t] \in bitmap

=============================================================================
