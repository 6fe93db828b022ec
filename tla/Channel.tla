------------------------------ MODULE Channel ------------------------------
(***************************************************************************)
(* sync::Channel: the single-producer single-consumer ring with its two    *)
(* waiter slots (sync/channel.rs).  The sender and the receiver run        *)
(* concurrently, each access to a shared atomic or to the buffer a step:   *)
(* two tasks of the executor, or, with try_send and try_recv, an interrupt *)
(* handler or another hart.                                                *)
(*                                                                         *)
(* `att' tells the calls apart: 0 is try_send or try_recv alone, 1 and 2   *)
(* are the attempts before and after a future registers itself.  A future  *)
(* that returned Pending is polled again when its task is woken, by the    *)
(* other side or, if SPURIOUS, for a reason of its own (a timeout it is    *)
(* raced with), and may be dropped.                                        *)
(***************************************************************************)
EXTENDS Integers, Sequences

CONSTANTS Values,     \* what is sent
          N,          \* slots of the ring, one of them always empty
          SPURIOUS    \* whether a pending task may be woken by others

ASSUME ChannelAssumption == N \in Nat \ {0, 1} /\ SPURIOUS \in BOOLEAN

Slots == 0..(N - 1)

VARIABLES buffer, head, tail,
          recv_waiter, send_waiter,   \* whether the slot names the task
          woken,                      \* which of the two tasks is marked ready
          spc, val, satt, sreg,       \* the sender: pc, value, attempt, registered
          rpc, got, ratt, rreg        \* the receiver: got is what it read last

shared == <<buffer, head, tail, recv_waiter, send_waiter, woken>>
sender == <<spc, val, satt, sreg>>
receiver == <<rpc, got, ratt, rreg>>
channelvars == <<shared, sender, receiver>>

ChannelTypeOK ==
  /\ buffer \in [Slots -> Values]
  /\ head \in Slots /\ tail \in Slots
  /\ recv_waiter \in BOOLEAN /\ send_waiter \in BOOLEAN
  /\ woken \subseteq {"sender", "receiver"}
  /\ spc \in {"idle", "check", "write", "publish", "swap", "wake", "done",
              "register", "pending"}
  /\ rpc \in {"idle", "check", "read", "publish", "swap", "wake", "done",
              "register", "pending"}
  /\ val \in Values /\ got \in Values
  /\ satt \in 0..2 /\ ratt \in 0..2
  /\ sreg \in BOOLEAN /\ rreg \in BOOLEAN

ChannelInit ==
  /\ buffer \in [Slots -> Values] /\ \A i, j \in Slots : buffer[i] = buffer[j]
  /\ head = 0 /\ tail = 0
  /\ recv_waiter = FALSE /\ send_waiter = FALSE
  /\ woken = {}
  /\ spc = "idle" /\ val = buffer[0] /\ satt = 0 /\ sreg = FALSE
  /\ rpc = "idle" /\ got = buffer[0] /\ ratt = 0 /\ rreg = FALSE

next(i) == (i + 1) % N

-----------------------------------------------------------------------------
\* send() or try_send() is called.
SendCall(v, a) ==
  /\ spc = "idle"
  /\ val' = v /\ satt' = a /\ sreg' = FALSE
  /\ spc' = "check"
  /\ UNCHANGED <<shared, receiver>>

\* A full ring is not noticed.
SendCheck_Bad ==
  /\ spc = "check"
  /\ spc' = "write"
  /\ UNCHANGED <<shared, val, satt, sreg, receiver>>

\* try_send: full, or room at the tail.
SendCheck ==
  /\ spc = "check"
  /\ spc' = IF next(tail) # head THEN "write"
            ELSE IF satt = 0 THEN "idle"
            ELSE IF satt = 1 THEN "register"
            ELSE "pending"
  /\ UNCHANGED <<shared, val, satt, sreg, receiver>>

\* The slot is published without the value in it.
SendWrite_Bad ==
  /\ spc = "write"
  /\ tail' = next(tail)
  /\ spc' = "swap"
  /\ UNCHANGED <<buffer, head, recv_waiter, send_waiter, woken, val, satt, sreg, receiver>>

SendWrite ==
  /\ spc = "write"
  /\ buffer' = [buffer EXCEPT ![tail] = val]
  /\ spc' = "publish"
  /\ UNCHANGED <<head, tail, recv_waiter, send_waiter, woken, val, satt, sreg, receiver>>

SendPublish ==
  /\ spc = "publish"
  /\ tail' = next(tail)
  /\ spc' = "swap"
  /\ UNCHANGED <<buffer, head, recv_waiter, send_waiter, woken, val, satt, sreg, receiver>>

\* wake_waiter: take the receiver's registration ...
SendSwap ==
  /\ spc = "swap"
  /\ recv_waiter' = FALSE
  /\ spc' = IF recv_waiter THEN "wake" ELSE "done"
  /\ UNCHANGED <<buffer, head, tail, send_waiter, woken, val, satt, sreg, receiver>>

\* ... and wake it.
SendWake ==
  /\ spc = "wake"
  /\ woken' = woken \cup {"receiver"}
  /\ spc' = "done"
  /\ UNCHANGED <<buffer, head, tail, recv_waiter, send_waiter, val, satt, sreg, receiver>>

\* clear_registration, and Ready.
SendDone ==
  /\ spc = "done"
  /\ send_waiter' = IF sreg THEN FALSE ELSE send_waiter
  /\ sreg' = FALSE
  /\ spc' = "idle"
  /\ UNCHANGED <<buffer, head, tail, recv_waiter, woken, val, satt, receiver>>

\* Register, then check once more.
SendRegister ==
  /\ spc = "register"
  /\ send_waiter' = TRUE /\ sreg' = TRUE
  /\ satt' = 2 /\ spc' = "check"
  /\ UNCHANGED <<buffer, head, tail, recv_waiter, woken, val, receiver>>

SendPoll ==
  /\ spc = "pending"
  /\ "sender" \in woken \/ SPURIOUS
  /\ woken' = woken \ {"sender"}
  /\ satt' = 1 /\ spc' = "check"
  /\ UNCHANGED <<buffer, head, tail, recv_waiter, send_waiter, val, sreg, receiver>>

\* A pending SendFut is dropped with its value.
SendDrop ==
  /\ spc = "pending"
  /\ send_waiter' = IF sreg THEN FALSE ELSE send_waiter
  /\ sreg' = FALSE
  /\ spc' = "idle"
  /\ UNCHANGED <<buffer, head, tail, recv_waiter, woken, val, satt, receiver>>

-----------------------------------------------------------------------------
\* recv() or try_recv() is called.
RecvCall(a) ==
  /\ rpc = "idle"
  /\ ratt' = a /\ rreg' = FALSE
  /\ rpc' = "check"
  /\ UNCHANGED <<shared, sender, got>>

\* try_recv: empty, or a value at the head.
RecvCheck ==
  /\ rpc = "check"
  /\ rpc' = IF head # tail THEN "read"
            ELSE IF ratt = 0 THEN "idle"
            ELSE IF ratt = 1 THEN "register"
            ELSE "pending"
  /\ UNCHANGED <<shared, sender, got, ratt, rreg>>

RecvRead ==
  /\ rpc = "read"
  /\ got' = buffer[head]
  /\ rpc' = "publish"
  /\ UNCHANGED <<shared, sender, ratt, rreg>>

RecvPublish ==
  /\ rpc = "publish"
  /\ head' = next(head)
  /\ rpc' = "swap"
  /\ UNCHANGED <<buffer, tail, recv_waiter, send_waiter, woken, sender, got, ratt, rreg>>

RecvSwap ==
  /\ rpc = "swap"
  /\ send_waiter' = FALSE
  /\ rpc' = IF send_waiter THEN "wake" ELSE "done"
  /\ UNCHANGED <<buffer, head, tail, recv_waiter, woken, sender, got, ratt, rreg>>

RecvWake ==
  /\ rpc = "wake"
  /\ woken' = woken \cup {"sender"}
  /\ rpc' = "done"
  /\ UNCHANGED <<buffer, head, tail, recv_waiter, send_waiter, sender, got, ratt, rreg>>

RecvDone ==
  /\ rpc = "done"
  /\ recv_waiter' = IF rreg THEN FALSE ELSE recv_waiter
  /\ rreg' = FALSE
  /\ rpc' = "idle"
  /\ UNCHANGED <<buffer, head, tail, send_waiter, woken, sender, got, ratt>>

\* No second try_recv after the registration.
RecvRegister_Bad ==
  /\ rpc = "register"
  /\ recv_waiter' = TRUE /\ rreg' = TRUE
  /\ ratt' = 2 /\ rpc' = "pending"
  /\ UNCHANGED <<buffer, head, tail, send_waiter, woken, sender, got>>

RecvRegister ==
  /\ rpc = "register"
  /\ recv_waiter' = TRUE /\ rreg' = TRUE
  /\ ratt' = 2 /\ rpc' = "check"
  /\ UNCHANGED <<buffer, head, tail, send_waiter, woken, sender, got>>

RecvPoll ==
  /\ rpc = "pending"
  /\ "receiver" \in woken \/ SPURIOUS
  /\ woken' = woken \ {"receiver"}
  /\ ratt' = 1 /\ rpc' = "check"
  /\ UNCHANGED <<buffer, head, tail, recv_waiter, send_waiter, sender, got, rreg>>

\* A pending Recv is dropped.
RecvDrop ==
  /\ rpc = "pending"
  /\ recv_waiter' = IF rreg THEN FALSE ELSE recv_waiter
  /\ rreg' = FALSE
  /\ rpc' = "idle"
  /\ UNCHANGED <<buffer, head, tail, send_waiter, woken, sender, got, ratt>>

-----------------------------------------------------------------------------
\* What each side does once it has been called.
SendStep ==
  \/ SendCheck \/ SendWrite \/ SendPublish \/ SendSwap \/ SendWake \/ SendDone
  \/ SendRegister \/ SendPoll

RecvStep ==
  \/ RecvCheck \/ RecvRead \/ RecvPublish \/ RecvSwap \/ RecvWake \/ RecvDone
  \/ RecvRegister \/ RecvPoll

ChannelNext ==
  \/ \E v \in Values, a \in {0, 1} : SendCall(v, a)
  \/ \E a \in {0, 1} : RecvCall(a)
  \/ SendStep \/ RecvStep \/ SendDrop \/ RecvDrop

ChannelSpec == ChannelInit /\ [][ChannelNext]_channelvars

-----------------------------------------------------------------------------
\* The sender never writes the slot the receiver is reading.
NoTornRead == spc = "write" /\ rpc = "read" => head # tail

\* A receiver that went to sleep over a value is being woken: its task is
\* marked ready, or the sender has yet to take its registration, or has.
ReceiverIsWoken ==
  rpc = "pending" /\ head # tail =>
    \/ "receiver" \in woken
    \/ spc = "wake"
    \/ spc = "swap" /\ recv_waiter

\* A sender that went to sleep over a free slot is being woken.
SenderIsWoken ==
  spc = "pending" /\ next(tail) # head =>
    \/ "sender" \in woken
    \/ rpc = "wake"
    \/ rpc = "swap" /\ send_waiter

\* Neither side sleeps through what it waits for.
SidesAreWoken == ReceiverIsWoken /\ SenderIsWoken

\* How many values the ring holds, and the values, oldest first.
UsedSlots == (tail - head) % N

Contents == [i \in 1..UsedSlots |-> buffer[(head + i - 1) % N]]

\* A value counts as received once it has been read out of its slot.
Queued == IF rpc = "publish" THEN Tail(Contents) ELSE Contents

F == INSTANCE Fifo WITH Capacity <- N - 1, q <- Queued, arg <- val

\* The channel implements a bounded queue: the values passed to send arrive in
\* that order, none lost, duplicated, torn or invented, and never more than
\* N - 1 in flight.
ImplementsFifo == F!Spec
=============================================================================
