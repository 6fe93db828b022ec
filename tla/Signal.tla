------------------------------- MODULE Signal -------------------------------
(***************************************************************************)
(* sync::Signal (sync/signal.rs): a latch with one waiter slot, between    *)
(* the task that drives a peripheral and the contexts that signal it.  An  *)
(* interrupt handler of the task's own hart signals between two steps of   *)
(* the task; a signaller on another hart interleaves with them.            *)
(***************************************************************************)
EXTENDS Integers

CONSTANTS Remote    \* signallers on other harts

VARIABLES fired, waiter,   \* the latch; whether the slot names the task
          pc,              \* where the task's wait() is
          registered,      \* Wait::registered
          woken,           \* the task is marked ready
          rpc              \* where each remote signal() is

task == <<pc, registered>>
vars == <<fired, waiter, task, woken, rpc>>

TypeOK ==
  /\ fired \in BOOLEAN /\ waiter \in BOOLEAN
  /\ pc \in {"idle", "take", "register", "retake", "ready", "pending"}
  /\ registered \in BOOLEAN
  /\ woken \in BOOLEAN
  /\ rpc \in [Remote -> {"idle", "swap", "wake"}]

Init ==
  /\ fired = FALSE /\ waiter = FALSE
  /\ pc = "idle" /\ registered = FALSE
  /\ woken = FALSE
  /\ rpc = [r \in Remote |-> "idle"]

-----------------------------------------------------------------------------
\* reset(), try_take(): the latch is cleared.
Reset ==
  /\ pc = "idle"
  /\ fired' = FALSE
  /\ UNCHANGED <<waiter, task, woken, rpc>>

\* wait() is called and polled, or polled again because the task was woken.
Wait ==
  /\ \/ pc = "idle" /\ registered' = FALSE /\ UNCHANGED woken
     \/ pc = "pending" /\ woken /\ woken' = FALSE /\ UNCHANGED registered
  /\ pc' = "take"
  /\ UNCHANGED <<fired, waiter, rpc>>

\* try_take, before and after the registration.
TryTake ==
  /\ pc \in {"take", "retake"}
  /\ fired' = FALSE
  /\ pc' = IF fired THEN "ready" ELSE IF pc = "take" THEN "register" ELSE "pending"
  /\ UNCHANGED <<waiter, registered, woken, rpc>>

\* The latch is not looked at again.
Register_Bad ==
  /\ pc = "register"
  /\ waiter' = TRUE /\ registered' = TRUE
  /\ pc' = "pending"
  /\ UNCHANGED <<fired, woken, rpc>>

Register ==
  /\ pc = "register"
  /\ waiter' = TRUE /\ registered' = TRUE
  /\ pc' = "retake"
  /\ UNCHANGED <<fired, woken, rpc>>

\* The future ends, or a pending one is dropped: the slot is cleared if this
\* future has registered; the latch is left alone.
Drop ==
  /\ pc \in {"ready", "pending"}
  /\ waiter' = IF registered THEN FALSE ELSE waiter
  /\ registered' = FALSE
  /\ pc' = "idle"
  /\ UNCHANGED <<fired, woken, rpc>>

-----------------------------------------------------------------------------
\* signal() in an interrupt handler.
SignalIsr ==
  /\ fired' = TRUE
  /\ waiter' = FALSE
  /\ woken' = (woken \/ waiter)
  /\ UNCHANGED <<task, rpc>>

\* signal() on another hart: the latch, ...
Latch(r) ==
  /\ rpc[r] = "idle"
  /\ fired' = TRUE
  /\ rpc' = [rpc EXCEPT ![r] = "swap"]
  /\ UNCHANGED <<waiter, task, woken>>

\* ... the slot ...
Swap(r) ==
  /\ rpc[r] = "swap"
  /\ waiter' = FALSE
  /\ rpc' = [rpc EXCEPT ![r] = IF waiter THEN "wake" ELSE "idle"]
  /\ UNCHANGED <<fired, task, woken>>

\* ... and the task that was in it.
Wake(r) ==
  /\ rpc[r] = "wake"
  /\ woken' = TRUE
  /\ rpc' = [rpc EXCEPT ![r] = "idle"]
  /\ UNCHANGED <<fired, waiter, task>>

Next ==
  \/ Reset \/ Wait \/ TryTake \/ Register \/ Drop
  \/ SignalIsr
  \/ \E r \in Remote : Latch(r) \/ Swap(r) \/ Wake(r)

Spec == Init /\ [][Next]_vars

-----------------------------------------------------------------------------
\* wait().await as a driver uses it: the polls of the future, its end, and its
\* drop while it is pending.
Await == Wait \/ TryTake \/ Register
Awaited == pc = "ready" /\ Drop
Abandon == pc = "pending" /\ Drop

-----------------------------------------------------------------------------
\* The task does not sleep beside a latched signal: it has been woken, or a
\* signaller is about to take its registration or has taken it.
WaiterIsWoken ==
  pc = "pending" /\ fired =>
    \/ woken
    \/ \E r \in Remote : rpc[r] = "wake" \/ (rpc[r] = "swap" /\ waiter)

=============================================================================
