----------------------------- MODULE Semaphore -----------------------------
(***************************************************************************)
(* sync::Semaphore (sync/semaphore.rs).  Acquirers are tasks of the one    *)
(* executor, so at most one of them is inside a poll at a time; a release  *)
(* runs in an interrupt handler of the executor's hart, and then between   *)
(* two steps of a poll, or on another hart, interleaved with them.  The    *)
(* CAS loops are single steps: they take effect where the CAS succeeds.    *)
(***************************************************************************)
EXTENDS Integers, FiniteSets

CONSTANTS Acquirers,      \* tasks that await acquire(), numbered by queue bit
          Priority,       \* their priorities
          MAX_PRIORITY,   \* the highest priority
          Remote,         \* releasers on other harts
          Droppers,       \* acquirers that may drop a pending acquire()
          MAX,            \* the semaphore's MAX
          RELEASE_BOUND   \* bound on the number of releases

ASSUME SemaphoreAssumption ==
  /\ Acquirers \subseteq Nat /\ IsFiniteSet(Acquirers)
  /\ MAX_PRIORITY \in Nat
  /\ Priority \in [Acquirers -> 0..MAX_PRIORITY]
  /\ Droppers \subseteq Acquirers
  /\ MAX \in Nat \ {0}
  /\ RELEASE_BOUND \in Nat

\* No acquirer.
NONE == -1

VARIABLES count, waiters,   \* the semaphore; waiters is a set of acquirers
          future,           \* where each acquirer's future is
          marked,           \* acquirers whose task is marked ready
          call, callPrio, claimed,   \* each remote release(): step, priority, waiter
          acquired,         \* tokens taken so far
          released,         \* releases so far
          since             \* waiters registered all through a remote release()

acquirer == <<future, acquired>>
remote == <<call, callPrio, claimed>>
semvars == <<count, waiters, acquirer, marked, remote, released, since>>

SemTypeOK ==
  /\ count \in 0..MAX
  /\ waiters \subseteq Acquirers
  /\ future \in [Acquirers -> {"idle", "try", "register", "retry", "ready", "pending"}]
  /\ marked \subseteq Acquirers
  /\ call \in [Remote -> {"idle", "scan", "store", "wake", "increment"}]
  /\ callPrio \in [Remote -> 0..MAX_PRIORITY]
  /\ claimed \in [Remote -> Acquirers \cup {NONE}]
  /\ acquired \in Nat
  /\ released \in 0..RELEASE_BOUND
  /\ since \in [Remote -> SUBSET Acquirers]

SemInit ==
  /\ count = 0 /\ waiters = {}
  /\ future = [a \in Acquirers |-> "idle"]
  /\ marked = {}
  /\ call = [r \in Remote |-> "idle"]
  /\ callPrio = [r \in Remote |-> MAX_PRIORITY]
  /\ claimed = [r \in Remote |-> NONE]
  /\ acquired = 0 /\ released = 0
  /\ since = [r \in Remote |-> {}]

-----------------------------------------------------------------------------
\* The executor polls one task at a time.
Polling(a) == future[a] \notin {"idle", "pending"}

Free == \A a \in Acquirers : ~Polling(a)

\* acquire() is called and polled.
Acquire(a) ==
  /\ future[a] = "idle" /\ Free
  /\ future' = [future EXCEPT ![a] = "try"]
  /\ UNCHANGED <<count, waiters, marked, remote, acquired, released>>

\* A marked task polls its future again.
Poll(a) ==
  /\ future[a] = "pending" /\ Free
  /\ a \in marked
  /\ marked' = marked \ {a}
  /\ future' = [future EXCEPT ![a] = "try"]
  /\ UNCHANGED <<count, waiters, remote, acquired, released>>

\* The token stays where it is.
TryAcquire_Bad(a) ==
  /\ future[a] \in {"try", "retry"}
  /\ \/ /\ count > 0
        /\ acquired' = acquired + 1
        /\ future' = [future EXCEPT ![a] = "ready"]
     \/ /\ count = 0
        /\ future' = [future EXCEPT ![a] = IF future[a] = "try" THEN "register" ELSE "pending"]
        /\ UNCHANGED acquired
  /\ UNCHANGED <<count, waiters, marked, remote, released>>

\* try_acquire, before and after the registration.
TryAcquire(a) ==
  /\ future[a] \in {"try", "retry"}
  /\ \/ /\ count > 0
        /\ count' = count - 1 /\ acquired' = acquired + 1
        /\ future' = [future EXCEPT ![a] = "ready"]
     \/ /\ count = 0
        /\ future' = [future EXCEPT ![a] = IF future[a] = "try" THEN "register" ELSE "pending"]
        /\ UNCHANGED <<count, acquired>>
  /\ UNCHANGED <<waiters, marked, remote, released>>

RegisterWaiter(a) ==
  /\ future[a] = "register"
  /\ waiters' = waiters \cup {a}
  /\ future' = [future EXCEPT ![a] = "retry"]
  /\ UNCHANGED <<count, marked, remote, acquired, released>>

\* remove_waiter when the completed future is dropped, or a pending one.
RemoveWaiter(a) ==
  /\ \/ future[a] = "ready"
     \/ future[a] = "pending" /\ a \in Droppers /\ Free
  /\ waiters' = waiters \ {a}
  /\ future' = [future EXCEPT ![a] = "idle"]
  /\ UNCHANGED <<count, marked, remote, acquired, released>>

\* try_acquire() by a task of the preemptive tier.
OtherTryAcquire ==
  /\ count > 0
  /\ count' = count - 1 /\ acquired' = acquired + 1
  /\ UNCHANGED <<waiters, future, marked, remote, released>>

-----------------------------------------------------------------------------
\* The waiters of one priority; the lowest bit is claimed.
WaitersAt(p) == {a \in waiters : Priority[a] = p}

Least(S) == CHOOSE a \in S : \A b \in S : a <= b

TopPriority ==
  CHOOSE p \in 0..MAX_PRIORITY : WaitersAt(p) # {} /\ \A q \in (p+1)..MAX_PRIORITY : WaitersAt(q) = {}

\* release() in an interrupt handler: the highest-priority waiter is handed the
\* token, or the count goes up to MAX.
Release ==
  /\ released < RELEASE_BOUND
  /\ released' = released + 1
  /\ \/ LET a == Least(WaitersAt(TopPriority))
        IN  /\ waiters # {}
            /\ waiters' = waiters \ {a}
            /\ count' = 1
            /\ marked' = marked \cup {a}
     \/ /\ waiters = {}
        /\ count' = IF count < MAX THEN count + 1 ELSE count
        /\ UNCHANGED <<waiters, marked>>
  /\ UNCHANGED <<acquirer, remote>>

\* release() on another hart: the scan from the highest priority ...
ReleaseBegin(r) ==
  /\ call[r] = "idle" /\ released < RELEASE_BOUND
  /\ released' = released + 1
  /\ call' = [call EXCEPT ![r] = "scan"]
  /\ callPrio' = [callPrio EXCEPT ![r] = MAX_PRIORITY]
  /\ UNCHANGED <<count, waiters, acquirer, marked, claimed>>

\* The scan stops above the lowest priority.
Scan_Bad(r) ==
  /\ call[r] = "scan"
  /\ \/ /\ WaitersAt(callPrio[r]) # {}
        /\ claimed' = [claimed EXCEPT ![r] = Least(WaitersAt(callPrio[r]))]
        /\ waiters' = waiters \ {Least(WaitersAt(callPrio[r]))}
        /\ call' = [call EXCEPT ![r] = "store"]
     \/ /\ WaitersAt(callPrio[r]) = {}
        /\ call' = [call EXCEPT ![r] = "increment"]
        /\ UNCHANGED <<claimed, waiters>>
  /\ UNCHANGED <<count, callPrio, acquirer, marked, released>>

\* ... claims the first waiter it meets or ends without one ...
Scan(r) ==
  /\ call[r] = "scan"
  /\ \/ /\ WaitersAt(callPrio[r]) # {}
        /\ claimed' = [claimed EXCEPT ![r] = Least(WaitersAt(callPrio[r]))]
        /\ waiters' = waiters \ {Least(WaitersAt(callPrio[r]))}
        /\ call' = [call EXCEPT ![r] = "store"]
        /\ UNCHANGED callPrio
     \/ /\ WaitersAt(callPrio[r]) = {} /\ callPrio[r] > 0
        /\ callPrio' = [callPrio EXCEPT ![r] = @ - 1]
        /\ UNCHANGED <<claimed, waiters, call>>
     \/ /\ WaitersAt(callPrio[r]) = {} /\ callPrio[r] = 0
        /\ call' = [call EXCEPT ![r] = "increment"]
        /\ UNCHANGED <<claimed, waiters, callPrio>>
  /\ UNCHANGED <<count, acquirer, marked, released>>

\* ... puts a token there for it ...
StoreOne(r) ==
  /\ call[r] = "store"
  /\ count' = 1
  /\ call' = [call EXCEPT ![r] = "wake"]
  /\ UNCHANGED <<waiters, acquirer, marked, callPrio, claimed, released>>

\* ... and wakes it ...
WakeTask(r) ==
  /\ call[r] = "wake"
  /\ marked' = marked \cup {claimed[r]}
  /\ call' = [call EXCEPT ![r] = "idle"]
  /\ claimed' = [claimed EXCEPT ![r] = NONE]
  /\ UNCHANGED <<count, waiters, acquirer, callPrio, released>>

\* ... or, with no waiter, counts up to MAX.
Increment(r) ==
  /\ call[r] = "increment"
  /\ count' = IF count < MAX THEN count + 1 ELSE count
  /\ call' = [call EXCEPT ![r] = "idle"]
  /\ UNCHANGED <<waiters, acquirer, marked, callPrio, claimed, released>>

SemStep ==
  \/ \E a \in Acquirers : \/ Acquire(a) \/ Poll(a) \/ TryAcquire(a)
                          \/ RegisterWaiter(a) \/ RemoveWaiter(a)
  \/ OtherTryAcquire
  \/ Release
  \/ \E r \in Remote : \/ ReleaseBegin(r) \/ Scan(r) \/ StoreOne(r)
                       \/ WakeTask(r) \/ Increment(r)

\* Every step, and the history of who stays registered while a release() runs.
SemNext ==
  /\ SemStep
  /\ since' = [r \in Remote |->
       IF call'[r] = "idle" THEN {}
       ELSE IF call[r] = "idle" THEN waiters'
       ELSE since[r] \cap waiters']

SemSpec == SemInit /\ [][SemNext]_semvars

-----------------------------------------------------------------------------
\* No token comes from nowhere: however releases overlap, no more are taken or
\* left than were released.
NoTokenInvented == acquired + count <= released

\* release() passes nobody over: a task registered since before the call began,
\* while other harts claim, register and remove waiters, is not left behind for
\* one of lower priority or for the count.
ReleaseFindsHighest ==
  \A r \in Remote :
    /\ call[r] = "increment" => since[r] = {}
    /\ call[r] \in {"store", "wake"} =>
         \A a \in since[r] : Priority[a] <= Priority[claimed[r]]

=============================================================================
