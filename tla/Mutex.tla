------------------------------- MODULE Mutex -------------------------------
(***************************************************************************)
(* PriorityMutex (preempt/mutex.rs) on top of the preemptive tier: locks   *)
(* with priority inheritance, timeouts, the held lists of the TCBs, and    *)
(* the poisoning of a faulting holder's mutexes by fault::isolate.         *)
(*                                                                         *)
(* A call of lock_timeout is a sequence of labels in the task's pc:        *)
(*   fast          the poison check and the lock-free CAS                  *)
(*   store_owner, push_held, undo_owner, undo_lock                         *)
(*                 the rest of try_acquire_guarded, interruptible          *)
(*   slow          the checks for recursion and for the deadline           *)
(*   block         the critical section that retries, boosts and blocks    *)
(*   yield         the reschedule after it, back to fast                   *)
(* The loads of `poisoned' just before a CAS are one step with it: a mutex *)
(* is poisoned while it is locked, and then the CAS fails anyway.          *)
(***************************************************************************)
EXTENDS Preempt, FiniteSets

CONSTANTS Mutexes,    \* the PriorityMutexes
          Lockers,    \* tasks whose program locks them
          Timed,      \* the lockers that may give lock_timeout a timeout
          Triers,     \* the lockers that also call try_lock
          MAX_HELD    \* entries of a TCB's held list

ASSUME MutexAssumption ==
  /\ Lockers \subseteq Tasks \ {IDLE}
  /\ Timed \subseteq Lockers /\ Triers \subseteq Lockers
  /\ MAX_HELD \in Nat

VARIABLES locked,     \* the locked mutexes
          owner,      \* `owner' of each mutex
          waiters,    \* `waiters': MAX_PTASKS slots per mutex
          poisoned,   \* the poisoned mutexes
          held,       \* Tcb::held: the mutexes registered per task
          want,       \* the mutex a task's lock_timeout is about
          dl,         \* its deadline: none, ahead, passed; or "try" for try_lock
          unboosted,  \* waiters that found no owner to boost when they blocked
          late        \* waiters whose mutex was poisoned before they blocked, or
                      \* whose mutex's acquire was rolled back since

mutexvars == <<locked, owner, waiters, poisoned, held, want, dl, unboosted, late>>

allvars == <<vars, mutexvars>>

MutexLabels == {"fast", "store_owner", "push_held", "undo_owner", "undo_lock",
                "slow", "block", "yield", "unlocked"}

MutexTypeOK ==
  /\ k \in KType
  /\ pc \in [Tasks -> PcLabels \cup MutexLabels]
  /\ armed \subseteq Tasks
  /\ isr \in [Harts -> {"none", "on_tick"}]
  /\ locked \subseteq Mutexes /\ poisoned \subseteq Mutexes
  /\ owner \in [Mutexes -> Tasks \cup {NO_TASK}]
  /\ waiters \in [Mutexes -> [Tasks -> Tasks \cup {NO_TASK}]]
  /\ held \in [Tasks -> SUBSET Mutexes]
  /\ \A t \in Tasks : Cardinality(held[t]) <= MAX_HELD
  /\ want \in [Tasks -> Mutexes]
  /\ dl \in [Tasks -> {"none", "ahead", "passed", "try"}]
  /\ unboosted \subseteq Tasks /\ late \subseteq Tasks

MutexInit ==
  /\ Init
  /\ locked = {} /\ poisoned = {} /\ unboosted = {} /\ late = {}
  /\ owner = [x \in Mutexes |-> NO_TASK]
  /\ waiters = [x \in Mutexes |-> [s \in Tasks |-> NO_TASK]]
  /\ held = [t \in Tasks |-> {}]
  /\ want = [t \in Tasks |-> CHOOSE x \in Mutexes : TRUE]
  /\ dl = [t \in Tasks |-> "none"]

-----------------------------------------------------------------------------
\* The tasks registered in a mutex's waiter slots.
WaitersOf(x) == {waiters[x][s] : s \in Tasks} \ {NO_TASK}

\* add_waiter: the first free slot; a full list is left as it is.
add_waiter(ws, id) ==
  LET free == {s \in Tasks : ws[s] = NO_TASK}
  IN  IF free = {} THEN ws
      ELSE [ws EXCEPT ![CHOOSE s \in free : \A r \in free : s <= r] = id]

remove_waiter(ws, id) == [s \in Tasks |-> IF ws[s] = id THEN NO_TASK ELSE ws[s]]

NoWaiters == [s \in Tasks |-> NO_TASK]

Highest(S) == CHOOSE p \in S : \A q \in S : q <= p

highest_waiter_priority(x) == Highest({0} \cup {k.base[w] : w \in WaitersOf(x) \cap k.used})

\* Raise the owner, if one is recorded, to the base priority of the caller.
boost_holder(me, x) ==
  IF owner[x] # NO_TASK /\ owner[x] \in k.used /\ k.base[me] > k.eff[owner[x]]
  THEN set_effective_priority(k, owner[x], k.base[me])
  ELSE k

\* Room in the caller's held list.
CanPush(t) == Cardinality(held[t]) < MAX_HELD

-----------------------------------------------------------------------------
\* lock_timeout() or try_lock(), called for a mutex the program picks.
Lock(h, t, x) ==
  /\ t \in Lockers
  /\ At(h, t, "run")
  /\ want' = [want EXCEPT ![t] = x]
  /\ \/ dl' = [dl EXCEPT ![t] = "none"]
     \/ t \in Timed /\ dl' = [dl EXCEPT ![t] = "ahead"]
     \/ t \in Triers /\ dl' = [dl EXCEPT ![t] = "try"]
  /\ pc' = [pc EXCEPT ![t] = "fast"]
  /\ UNCHANGED <<k, armed, isr, ready, halted, faulted,
                 locked, owner, waiters, poisoned, held, unboosted, late>>

\* Where a failed attempt goes on: try_lock returns None.
Failed(t) == IF dl[t] = "try" THEN "run" ELSE "slow"

\* A load and a store in place of the CAS: a locked mutex may be taken.
Fast_Bad(h, t) ==
  /\ At(h, t, "fast")
  /\ locked' = locked \cup {want[t]}
  /\ pc' = [pc EXCEPT ![t] = IF want[t] \in poisoned THEN "run" ELSE "store_owner"]
  /\ UNCHANGED <<k, armed, isr, ready, halted, faulted,
                 owner, waiters, poisoned, held, want, dl, unboosted, late>>

\* The fast path: Err(Poisoned), or the CAS.
Fast(h, t) ==
  /\ At(h, t, "fast")
  /\ \/ /\ want[t] \in poisoned
        /\ pc' = [pc EXCEPT ![t] = "run"]
        /\ UNCHANGED locked
     \/ /\ want[t] \in locked \ poisoned
        /\ pc' = [pc EXCEPT ![t] = Failed(t)]
        /\ UNCHANGED locked
     \/ /\ want[t] \notin locked \cup poisoned
        /\ locked' = locked \cup {want[t]}
        /\ pc' = [pc EXCEPT ![t] = "store_owner"]
  /\ UNCHANGED <<k, armed, isr, ready, halted, faulted,
                 owner, waiters, poisoned, held, want, dl, unboosted, late>>

StoreOwner(h, t) ==
  /\ At(h, t, "store_owner")
  /\ owner' = [owner EXCEPT ![want[t]] = t]
  /\ pc' = [pc EXCEPT ![t] = "push_held"]
  /\ UNCHANGED <<k, armed, isr, ready, halted, faulted,
                 locked, waiters, poisoned, held, want, dl, unboosted, late>>

\* push_held: the guard is returned, or the acquire is rolled back.
PushHeld(h, t) ==
  /\ At(h, t, "push_held")
  /\ IF CanPush(t)
     THEN held' = [held EXCEPT ![t] = @ \cup {want[t]}] /\ pc' = [pc EXCEPT ![t] = "run"]
     ELSE UNCHANGED held /\ pc' = [pc EXCEPT ![t] = "undo_owner"]
  /\ UNCHANGED <<k, armed, isr, ready, halted, faulted,
                 locked, owner, waiters, poisoned, want, dl, unboosted, late>>

UndoOwner(h, t) ==
  /\ At(h, t, "undo_owner")
  /\ owner' = [owner EXCEPT ![want[t]] = NO_TASK]
  /\ pc' = [pc EXCEPT ![t] = "undo_lock"]
  /\ UNCHANGED <<k, armed, isr, ready, halted, faulted,
                 locked, waiters, poisoned, held, want, dl, unboosted, late>>

UndoLock(h, t) ==
  /\ At(h, t, "undo_lock")
  /\ locked' = locked \ {want[t]}
  /\ late' = late \cup WaitersOf(want[t])
  /\ pc' = [pc EXCEPT ![t] = Failed(t)]
  /\ UNCHANGED <<k, armed, isr, ready, halted, faulted,
                 owner, waiters, poisoned, held, want, dl, unboosted>>

\* Err(Recursive) for the owner, Err(Timeout) once the deadline has passed.
Slow(h, t) ==
  /\ At(h, t, "slow")
  /\ \/ /\ owner[want[t]] = t
        /\ pc' = [pc EXCEPT ![t] = "run"]
        /\ UNCHANGED <<armed, waiters>>
     \/ /\ owner[want[t]] # t /\ dl[t] # "none"
        /\ waiters' = [waiters EXCEPT ![want[t]] = remove_waiter(@, t)]
        /\ armed' = armed \ {t}
        /\ pc' = [pc EXCEPT ![t] = "run"]
     \/ /\ owner[want[t]] # t /\ dl[t] # "passed"
        /\ pc' = [pc EXCEPT ![t] = "block"]
        /\ UNCHANGED <<armed, waiters>>
  /\ UNCHANGED <<k, isr, ready, halted, faulted,
                 locked, owner, poisoned, held, want, dl, unboosted, late>>

\* The CAS is not tested again in the critical section.
Block_Bad(h, t) ==
  LET x == want[t]
  IN  /\ At(h, t, "block")
      /\ k' = block_current(boost_holder(t, x), h)
      /\ waiters' = [waiters EXCEPT ![x] = add_waiter(@, t)]
      /\ armed' = IF dl[t] # "none" THEN armed \cup {t} ELSE armed
      /\ unboosted' = IF owner[x] = NO_TASK THEN unboosted \cup {t} ELSE unboosted \ {t}
      /\ late' = IF x \in poisoned THEN late \cup {t} ELSE late \ {t}
      /\ pc' = [pc EXCEPT ![t] = "yield"]
      /\ UNCHANGED <<isr, ready, halted, faulted,
                     locked, owner, poisoned, held, want, dl>>

\* The critical section: acquire after all, or boost, register and block.
Block(h, t) ==
  LET x == want[t]
  IN  /\ At(h, t, "block")
      /\ IF x \notin locked \cup poisoned /\ CanPush(t)
         THEN /\ locked' = locked \cup {x}
              /\ owner' = [owner EXCEPT ![x] = t]
              /\ held' = [held EXCEPT ![t] = @ \cup {x}]
              /\ pc' = [pc EXCEPT ![t] = "run"]
              /\ UNCHANGED <<k, armed, waiters, unboosted, late>>
         ELSE /\ k' = block_current(boost_holder(t, x), h)
              /\ waiters' = [waiters EXCEPT ![x] = add_waiter(@, t)]
              /\ armed' = IF dl[t] # "none" THEN armed \cup {t} ELSE armed
              /\ unboosted' = IF owner[x] = NO_TASK THEN unboosted \cup {t}
                                                    ELSE unboosted \ {t}
              /\ late' = IF x \in poisoned THEN late \cup {t} ELSE late \ {t}
              /\ pc' = [pc EXCEPT ![t] = "yield"]
              /\ UNCHANGED <<locked, owner, held>>
      /\ UNCHANGED <<isr, ready, halted, faulted, poisoned, want, dl>>

\* request_reschedule() after it, and after an unlock.
Yield(h, t) ==
  /\ \/ At(h, t, "yield") /\ pc' = [pc EXCEPT ![t] = "fast"]
     \/ At(h, t, "unlocked") /\ pc' = [pc EXCEPT ![t] = "run"]
  /\ RequestReschedule(h)
  /\ UNCHANGED <<armed, ready, halted, faulted, mutexvars>>

-----------------------------------------------------------------------------
\* The boost is dropped whatever else the task still holds.
RecomputedPriority_Bad(t, rest) == k.base[t]

\* The priority a holder keeps: its own, or that of a waiter of what it holds.
RecomputedPriority(t, rest) ==
  Highest({k.base[t]} \cup {highest_waiter_priority(x) : x \in rest})

\* Dropping the guard: give the mutex up, recompute the holder's priority from
\* what it still holds, and wake every waiter, as one step.
Unlock(h, t, x) ==
  /\ At(h, t, "run")
  /\ x \in held[t]
  /\ owner' = [owner EXCEPT ![x] = NO_TASK]
  /\ held' = [held EXCEPT ![t] = @ \ {x}]
  /\ k' = unblock_all(set_effective_priority(k, t, RecomputedPriority(t, held[t] \ {x})),
                      h, WaitersOf(x))
  /\ locked' = locked \ {x}
  /\ waiters' = [waiters EXCEPT ![x] = NoWaiters]
  /\ unboosted' = unboosted \ WaitersOf(x)
  /\ armed' = armed \ WaitersOf(x)
  /\ pc' = [pc EXCEPT ![t] = "unlocked"]
  /\ UNCHANGED <<isr, ready, halted, faulted, poisoned, want, dl, late>>

-----------------------------------------------------------------------------
\* A tick that finds a lock's deadline passed wakes the task like any other.
MutexTick(h) ==
  /\ Tick(h)
  /\ dl' = [t \in Tasks |-> IF t \in armed \ armed' /\ dl[t] = "ahead"
                            THEN "passed" ELSE dl[t]]
  /\ UNCHANGED <<locked, owner, waiters, poisoned, held, want, unboosted, late>>

\* isolate: poison what the task holds and wake the waiters, before the task
\* is blocked and the next one is dispatched.
MutexFault(h) ==
  LET t     == k.current[h]
      woken == UNION {WaitersOf(x) : x \in held[t]}
      k1    == unblock_all(heal(k), h, woken)
  IN  /\ ~halted
      /\ isr[h] = "on_tick"
      /\ t \in Faulters
      /\ schedule(k) # NO_TASK
      /\ poisoned' = poisoned \cup held[t]
      /\ waiters' = [x \in Mutexes |-> IF x \in held[t] THEN NoWaiters ELSE waiters[x]]
      /\ unboosted' = unboosted \ woken
      /\ armed' = armed \ woken
      /\ IF schedule(set_state(k1, h, t, "BLOCKED")) = NO_TASK
         THEN halted' = TRUE /\ k' = set_state(k1, h, t, "BLOCKED") /\ UNCHANGED faulted
         ELSE k' = isolate(k1, h) /\ faulted' = faulted \cup {t} /\ UNCHANGED halted
      /\ isr' = [isr EXCEPT ![h] = "none"]
      /\ UNCHANGED <<pc, ready, locked, owner, held, want, dl, late>>

MutexTaskStep(h, t) ==
  \/ \E x \in Mutexes : Lock(h, t, x) \/ Unlock(h, t, x)
  \/ Fast(h, t) \/ StoreOwner(h, t) \/ PushHeld(h, t)
  \/ UndoOwner(h, t) \/ UndoLock(h, t)
  \/ Slow(h, t) \/ Block(h, t) \/ Yield(h, t)

MutexNext ==
  \/ Run /\ UNCHANGED mutexvars
  \/ \E h \in Harts :
       \/ (Start(h) \/ SoftIrq(h) \/ OnTick(h)) /\ UNCHANGED mutexvars
       \/ MutexTick(h) \/ MutexFault(h)
       \/ \E t \in Tasks : MutexTaskStep(h, t) \/ (TaskStep(h, t) /\ UNCHANGED mutexvars)

MutexSpec == MutexInit /\ [][MutexNext]_allvars

-----------------------------------------------------------------------------
\* No two tasks hold a guard of one mutex, and a holder is what the mutex
\* itself says: locked, with that owner.
HoldersExclude ==
  \A t \in Tasks : \A x \in held[t] :
    x \in locked /\ owner[x] = t /\ \A u \in Tasks \ {t} : x \notin held[u]

\* Task t waits in lock_timeout: blocked, or blocked once more.
Waiting(t) == pc[t] \in {"yield", "fast"} /\ k.state[t] = "BLOCKED"

\* Task u has a mutex or is in the middle of acquiring it.
Has(u, x) ==
  \/ x \in held[u]
  \/ want[u] = x /\ pc[u] \in {"store_owner", "push_held", "undo_owner", "undo_lock"}

\* An isolated task has the mutex and nobody was told: it was isolated between the
\* CAS and push_held, or was woken as a waiter afterwards and took it.
Orphaned(x) == x \notin poisoned /\ \E u \in faulted : Has(u, x)

\* A task blocked in lock_timeout has something that wakes it: its deadline, or
\* its registration with a mutex that a task still able to run has and so will
\* unlock: no release, time-out, rollback or isolation passes it by.  (Nothing wakes
\* one that blocks on a mutex already poisoned, on one that is orphaned, on one whose
\* acquire is then rolled back, or with a full held list on a free one.)
WaiterIsRegistered ==
  \A t \in Lockers \ (faulted \cup late) :
    Waiting(t) /\ CanPush(t) /\ ~Orphaned(want[t]) =>
      \/ t \in armed
      \/ /\ t \in WaitersOf(want[t])
         /\ want[t] \in locked /\ \E u \in Tasks \ faulted : Has(u, want[t])

\* A waiter of a poisoned mutex is woken to see that it is: none without a deadline
\* is left blocked.
PoisonIsHeard ==
  \A t \in Lockers \ faulted : Waiting(t) /\ want[t] \in poisoned => t \in armed

\* While a task is blocked on a mutex, the owner it met there, whatever other
\* mutexes that owner takes and releases meanwhile, has at least the waiter's
\* priority.
HolderKeepsBoost ==
  \A t \in Lockers \ unboosted : Waiting(t) /\ t \in WaitersOf(want[t])
                                   /\ owner[want[t]] # NO_TASK
    => k.eff[owner[want[t]]] >= k.base[t]

\* A boost ends with the unlock: a task that holds nothing and is not about to
\* runs at its own priority.
BoostEnds ==
  \A t \in Tasks : held[t] = {} /\ pc[t] \in {"run", "unlocked", "slow", "block"}
    => k.eff[t] = k.base[t]

\* The boost is neither taken away early nor kept: it lasts as long as somebody
\* waits, across nested mutexes, timeouts and faults.
BoostLastsAsOwed == HolderKeepsBoost /\ BoostEnds

=============================================================================
