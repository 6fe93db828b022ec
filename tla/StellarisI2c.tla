---------------------------- MODULE StellarisI2c ----------------------------
(***************************************************************************)
(* The LM3S6965's I2C master (rivet-bsp-support/src/stellaris_i2c.rs): one *)
(* task that runs transactions command by command, polling or waiting, on  *)
(* a controller that may finish a command inside the store that starts it  *)
(* (the emulated one) or later (the real one).                             *)
(***************************************************************************)
EXTENDS Signal, SequencesExt

CONSTANT Transactions   \* sequences of operations <<direction, bytes>>

VARIABLES
  ic,        \* where the driver is
  polls,     \* the polling trait
  ops,       \* operations left, the first one under way
  byte,      \* its bytes done
  busy, error, ris,   \* MCS.BUSY, MCS.ERROR, the raw interrupt
  bus,       \* who holds the bus: "free" or "ours"
  cut        \* a transaction began with the command of a dropped one under way

stellaris == <<ic, polls, ops, byte, busy, error, ris, bus, cut>>

\* init: master enabled, its interrupt unmasked for good.
IcInit ==
  /\ ic = "idle" /\ polls = FALSE /\ ops = <<>> /\ byte = 0
  /\ busy = FALSE /\ error = FALSE /\ ris = FALSE
  /\ bus = "free" /\ cut = FALSE

\* The driver's code runs with interrupts enabled.
At(place) == ic = place /\ ~ris

\* A transaction begins.
IcCall(t, how) ==
  /\ At("idle")
  /\ ops' = t /\ polls' = how /\ byte' = 0
  /\ cut' = (cut \/ busy)
  /\ ic' = "command"
  /\ UNCHANGED <<busy, error, ris, bus, vars>>

\* The blocking trait and the async one.
IcTransaction(t) == IcCall(t, TRUE)
IcAsyncTransaction(t) == IcCall(t, FALSE)

\* The command of the byte at hand: START with the operation's first, STOP with
\* its last, even when another operation follows.
Starts == byte = 0
Stops == byte + 1 = ops[1][2]

\* run_async begins by clearing the latch, run_sync at once.
IcReset ==
  /\ At("command") /\ ops # <<>>
  /\ fired' = IF polls THEN fired ELSE FALSE
  /\ ic' = "write"
  /\ UNCHANGED <<polls, ops, byte, busy, error, ris, bus, cut>>
  /\ UNCHANGED <<waiter, task, woken, rpc>>

\* The store to MCS: the emulated controller is done when it returns, and raises
\* no interrupt when the address is not acknowledged.
IcWrite ==
  /\ At("write")
  /\ bus' = IF Stops THEN "free" ELSE "ours"
  /\ \/ busy' = TRUE /\ error' = FALSE /\ ris' = FALSE
     \/ busy' = FALSE /\ error' = FALSE /\ ris' = TRUE
     \/ Starts /\ busy' = FALSE /\ error' = TRUE /\ ris' = FALSE
  /\ ic' = IF polls THEN "spin" ELSE "look"
  /\ UNCHANGED <<polls, ops, byte, cut, vars>>

IcSpin ==
  /\ At("spin") /\ ~busy
  /\ ic' = "check"
  /\ UNCHANGED <<polls, ops, byte, busy, error, ris, bus, cut, vars>>

\* The fast path: done already, and the latch is consumed.
IcLook ==
  /\ At("look")
  /\ IF busy THEN ic' = "wait" /\ UNCHANGED fired
     ELSE ic' = "check" /\ fired' = FALSE
  /\ UNCHANGED <<polls, ops, byte, busy, error, ris, bus, cut>>
  /\ UNCHANGED <<waiter, task, woken, rpc>>

IcWait ==
  /\ At("wait")
  /\ Await \/ Awaited
  /\ ic' = IF pc' = "idle" THEN "check" ELSE "wait"
  /\ UNCHANGED <<polls, ops, byte, busy, error, ris, bus, cut>>

IcDrop ==
  /\ At("wait") /\ Abandon
  /\ ic' = "idle"
  /\ UNCHANGED <<polls, ops, byte, busy, error, ris, bus, cut>>

\* The command failed and the transaction with it, or the next byte and the next
\* operation.
IcCheck ==
  /\ At("check")
  /\ IF error THEN ic' = "idle" /\ UNCHANGED <<ops, byte>>
     ELSE IF Stops
     THEN /\ ops' = Tail(ops) /\ byte' = 0
          /\ ic' = IF ops' = <<>> THEN "idle" ELSE "command"
     ELSE byte' = byte + 1 /\ ic' = "command" /\ UNCHANGED ops
  /\ UNCHANGED <<polls, busy, error, ris, bus, cut, vars>>

\* The real controller finishes, well or not.
IcDone ==
  /\ busy
  /\ busy' = FALSE /\ ris' = TRUE /\ error' \in BOOLEAN
  /\ UNCHANGED <<ic, polls, ops, byte, bus, cut, vars>>

\* isr_ack: the raw interrupt cleared, and the signal.
IcIsr ==
  /\ ris
  /\ ris' = FALSE
  /\ SignalIsr
  /\ UNCHANGED <<ic, polls, ops, byte, busy, error, bus, cut>>

IcStep ==
  \/ \E t \in Transactions : IcTransaction(t) \/ IcAsyncTransaction(t)
  \/ IcReset \/ IcWrite \/ IcSpin \/ IcLook \/ IcWait \/ IcDrop \/ IcCheck
  \/ IcDone \/ IcIsr

-----------------------------------------------------------------------------
\* The status a command is judged by is its own: the controller has finished when
\* the driver looks, whatever interrupts earlier commands and dropped waits have
\* left behind, as long as no transaction began on top of a dropped one's command.
StatusIsOwn == ic = "check" /\ ~cut => ~busy
=============================================================================
