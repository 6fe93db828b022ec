------------------------------- MODULE Sched -------------------------------
(***************************************************************************)
(* The scheduler's data structure and the operations on it: the per-task   *)
(* control blocks of preempt/tcb.rs and the ready queues, the current-task *)
(* table and the dispatch stamps of preempt/sched.rs.                      *)
(*                                                                         *)
(* The scheduler state is a record k:                                      *)
(*   used                     the registered task slots                    *)
(*   state, base, eff         the other TCB fields, per task slot          *)
(*   queues, bitmap           QUEUES (a set of tasks per priority) and     *)
(*                            READY_BITMAP (a set of priorities)           *)
(*   seq, counter             DISPATCH_SEQ and DISPATCH_COUNTER            *)
(*   current                  CURRENT, per hart                            *)
(*   msip                     harts whose reschedule interrupt is pending  *)
(* Every operator takes the record and returns the record the code leaves, *)
(* so that modules with different callers compose them in the order the    *)
(* code does.  `me' is the calling hart (port::arch::hart_id()).           *)
(*                                                                         *)
(* An operator whose name ends in _Bad is a defect the code could have in  *)
(* the operator defined after it; no specification uses it.                *)
(***************************************************************************)
EXTENDS Integers

CONSTANTS MAX_PTASKS,   \* task slots
          NUM_PRIOS,    \* priority levels (32 in the code)
          MAX_HARTS,    \* harts sharing the one run queue
          SEQ_MOD       \* dispatch stamps wrap at SEQ_MOD (2^32 in the code)

ASSUME SchedAssumption ==
  /\ MAX_PTASKS \in Nat \ {0}
  /\ NUM_PRIOS \in Nat \ {0}
  /\ MAX_HARTS \in Nat \ {0}
  /\ SEQ_MOD \in Nat \ {0, 1}

Tasks == 0..(MAX_PTASKS - 1)
Prios == 0..(NUM_PRIOS - 1)
Harts == 0..(MAX_HARTS - 1)
Stamps == 0..(SEQ_MOD - 1)

\* The out-of-range id the code uses for "no task".
NO_TASK == MAX_PTASKS

States == {"READY", "RUNNING", "BLOCKED", "SUSPENDED"}

KType == [used    : SUBSET Tasks,
          state   : [Tasks -> States],
          base    : [Tasks -> Prios],
          eff     : [Tasks -> Prios],
          queues  : [Prios -> SUBSET Tasks],
          bitmap  : SUBSET Prios,
          seq     : [Tasks -> Stamps],
          counter : Stamps,
          current : [Harts -> Tasks \cup {NO_TASK}],
          msip    : SUBSET Harts]

\* The statics before anything is registered.
EmptySched == [used    |-> {},
               state   |-> [t \in Tasks |-> "READY"],
               base    |-> [t \in Tasks |-> 0],
               eff     |-> [t \in Tasks |-> 0],
               queues  |-> [p \in Prios |-> {}],
               bitmap  |-> {},
               seq     |-> [t \in Tasks |-> 0],
               counter |-> 0,
               current |-> [h \in Harts |-> NO_TASK],
               msip    |-> {}]

-----------------------------------------------------------------------------
\* The broadcast dropped.
wake_other_harts_Bad(k, me) == k

\* The broadcast of wake_other_harts: pend it on every other hart.
wake_other_harts(k, me) ==
  [k EXCEPT !.msip = @ \cup (Harts \ {me})]

ready_add(k, me, id) ==
  wake_other_harts([k EXCEPT !.queues[k.eff[id]] = @ \cup {id},
                             !.bitmap = @ \cup {k.eff[id]}], me)

\* The emptied queue keeps its bit.
ready_remove_Bad(k, id) == [k EXCEPT !.queues[k.eff[id]] = @ \ {id}]

ready_remove(k, id) ==
  [k EXCEPT !.queues[k.eff[id]] = @ \ {id},
            !.bitmap = IF k.queues[k.eff[id]] = {id} THEN @ \ {k.eff[id]} ELSE @]

\* Tcb::state(): every code that is neither RUNNING nor BLOCKED reads as Ready.
state_of(k, id) ==
  IF k.state[id] \in {"RUNNING", "BLOCKED"} THEN k.state[id] ELSE "READY"

set_state(k, me, id, s) ==
  LET k1 == [k EXCEPT !.state[id] = s]
  IN  IF s = "READY" THEN ready_add(k1, me, id) ELSE ready_remove(k1, id)

\* Tcb::set_effective_priority with sched::on_effective_priority_change.
set_effective_priority(k, id, new) ==
  LET old == k.eff[id]
      k1  == [k EXCEPT !.eff[id] = new]
  IN  IF old = new \/ state_of(k, id) # "READY"
      THEN k1
      ELSE [k1 EXCEPT
              !.queues[old] = @ \ {id},
              !.queues[new] = @ \cup {id},
              !.bitmap = (IF k.queues[old] = {id} THEN @ \ {old} ELSE @) \cup {new}]

unblock(k, me, id) ==
  IF id \in k.used THEN set_state(k, me, id, "READY") ELSE k

\* A loop that unblocks every task of W: the order does not show.
unblock_all(k, me, W) ==
  LET U == W \cap k.used
      k1 == [k EXCEPT
              !.state  = [t \in Tasks |-> IF t \in U THEN "READY" ELSE k.state[t]],
              !.queues = [p \in Prios |-> k.queues[p] \cup {t \in U : k.eff[t] = p}],
              !.bitmap = @ \cup {k.eff[t] : t \in U}]
  IN  IF U = {} THEN k ELSE wake_other_harts(k1, me)

\* Only called with a current task whose slot is in use.
block_current(k, me) == set_state(k, me, k.current[me], "BLOCKED")

-----------------------------------------------------------------------------
(***************************************************************************)
(* schedule(): the highest priority whose bit is set and whose queue word  *)
(* is not empty; bits found set over an empty word are cleared on the way. *)
(* Within the word the least stamp wins, and the scan from the lowest bit  *)
(* with a strict comparison gives ties to the lowest id.  A stamp equal to *)
(* u32::MAX never beats the scan's start value, so a word in which every   *)
(* stamp is u32::MAX falls back to its lowest bit: the same order.         *)
(***************************************************************************)
LiveBits(k) == {p \in k.bitmap : k.queues[p] # {}}

\* trailing_zeros for leading_zeros.
TopBit_Bad(k) == CHOOSE p \in LiveBits(k) : \A q \in LiveBits(k) : p <= q

TopBit(k) == CHOOSE p \in LiveBits(k) : \A q \in LiveBits(k) : q <= p

\* The stamps are not consulted: the lowest ready id wins.
DispatchedBefore_Bad(k, t, u) == t <= u

DispatchedBefore(k, t, u) ==
  \/ k.seq[t] < k.seq[u]
  \/ k.seq[t] = k.seq[u] /\ t <= u

schedule(k) ==
  IF LiveBits(k) = {}
  THEN NO_TASK
  ELSE CHOOSE t \in k.queues[TopBit(k)] :
         \A u \in k.queues[TopBit(k)] : DispatchedBefore(k, t, u)

\* What schedule() leaves behind: the stale bits it met are cleared.
heal(k) ==
  [k EXCEPT !.bitmap = {p \in @ : \E q \in LiveBits(k) : p <= q}]

on_dispatch(k, id) ==
  LET s == (k.counter + 1) % SEQ_MOD
  IN  [k EXCEPT !.counter = s, !.seq[id] = s]

should_preempt(k, candidate, running) ==
  candidate # running /\ k.eff[candidate] >= k.eff[running]

\* start() and start_secondary_hart(): the first dispatch of a hart.
first_dispatch(k, me) ==
  LET first == schedule(k)
      k1 == [heal(k) EXCEPT !.current[me] = first]
  IN  on_dispatch(set_state(k1, me, first, "RUNNING"), first)

(***************************************************************************)
(* on_tick_locked: keep the interrupted task, or switch.  A task that is   *)
(* not BLOCKED is left only for a candidate of at least its priority; a    *)
(* BLOCKED one is left for whatever is ready.                              *)
(***************************************************************************)
\* A BLOCKED task is left only for one of at least its priority.
Switches_Bad(k, me) ==
  /\ k.current[me] # NO_TASK
  /\ schedule(k) # NO_TASK
  /\ should_preempt(k, schedule(k), k.current[me])

Switches(k, me) ==
  LET running   == k.current[me]
      candidate == schedule(k)
  IN  /\ running # NO_TASK
      /\ candidate # NO_TASK
      /\ candidate # running
      /\ \/ k.state[running] = "BLOCKED"
         \/ should_preempt(k, candidate, running)

\* The task that is dispatched stays READY and queued.
switch_to_BadIncoming(k, me, candidate) ==
  LET running == k.current[me]
      k1 == IF k.state[running] = "RUNNING"
            THEN set_state(k, me, running, "READY")
            ELSE k
  IN  on_dispatch([k1 EXCEPT !.current[me] = candidate], candidate)

switch_to(k, me, candidate) ==
  LET running == k.current[me]
      k1 == IF k.state[running] = "RUNNING"
            THEN set_state(k, me, running, "READY")
            ELSE k
      k2 == set_state(k1, me, candidate, "RUNNING")
  IN  on_dispatch([k2 EXCEPT !.current[me] = candidate], candidate)

on_tick_locked(k, me) ==
  IF k.current[me] = NO_TASK THEN k
  ELSE IF Switches(k, me) THEN switch_to(heal(k), me, schedule(k))
  ELSE heal(k)

(***************************************************************************)
(* fault::isolate, reached from on_tick_locked: the faulting task blocks   *)
(* and the next ready task runs.  The dispatch is not stamped.             *)
(***************************************************************************)
isolate(k, me) ==
  LET k1   == set_state(k, me, k.current[me], "BLOCKED")
      next == schedule(k1)
  IN  [set_state(heal(k1), me, next, "RUNNING") EXCEPT !.current[me] = next]

-----------------------------------------------------------------------------
\* The first free slot, and whether there is one.
FreeSlots(k) == Tasks \ k.used

FirstFree(k) == CHOOSE t \in FreeSlots(k) : \A u \in FreeSlots(k) : t <= u

\* register_full: publish the first free slot READY at its base priority.
register_full(k, me, priority) ==
  LET id == FirstFree(k)
      k1 == [k EXCEPT !.used = @ \cup {id},
                      !.state[id] = "READY",
                      !.base[id] = priority,
                      !.eff[id] = priority]
  IN  ready_add(k1, me, id)

-----------------------------------------------------------------------------
\* Queue membership is authoritative for "ready": a slot is in exactly the
\* queue of its effective priority while it is registered and READY, in none
\* otherwise, and a priority's bit is set exactly when its queue has a task
\* (sched.rs's header and its Kani harness).
QueueInv(k) ==
  /\ \A p \in Prios : p \in k.bitmap <=> k.queues[p] # {}
  /\ \A p \in Prios, t \in Tasks :
       t \in k.queues[p] <=> t \in k.used /\ k.state[t] = "READY" /\ k.eff[t] = p

=============================================================================
