----------------------------- MODULE DevicesProofs -----------------------------
(***************************************************************************)
(* What the parts of a board promise, for any number of signallers, tasks, *)
(* pins, interrupts and bytes: the signal and the drivers that wait for    *)
(* it, the watchdogs, the interrupt table and the GPIO drivers.            *)
(*                                                                         *)
(* One part moves in a behaviour of DevSpec, so each part has an inductive *)
(* invariant of its own; those of the drivers share the signal's, which    *)
(* adds to WaiterIsWoken that a task past its registration (about to look  *)
(* at the latch again, or pending) is still in the slot or on its way to   *)
(* being woken: whoever emptied the slot under it has the wake in hand.    *)
(***************************************************************************)
EXTENDS MCDevices, SequenceTheorems, WellFoundedInduction, TLAPS

\* Whoever took the task out of the slot wakes it.
Reachable ==
  pc \in {"retake", "pending"} =>
    waiter \/ woken \/ \E r \in Remote : rpc[r] = "wake"

IInv == TypeOK /\ Reachable /\ WaiterIsWoken

\* The signal's invariant holds initially, ...
LEMMA SignalInit == Init => IInv
BY DEF Init, IInv, TypeOK, Reachable, WaiterIsWoken

\* ... and every step of Signal keeps it.
LEMMA SignalNext == ASSUME IInv, [Next]_vars PROVE IInv'
<1> USE DEF IInv, TypeOK, Reachable, WaiterIsWoken, task
<1>1. CASE Reset BY <1>1 DEF Reset
<1>2. CASE Wait BY <1>2 DEF Wait
<1>3. CASE TryTake BY <1>3 DEF TryTake
<1>4. CASE Register BY <1>4 DEF Register
<1>5. CASE Drop BY <1>5 DEF Drop
<1>6. CASE SignalIsr BY <1>6 DEF SignalIsr
<1>7. ASSUME NEW r \in Remote, Latch(r) PROVE IInv'
  BY <1>7 DEF Latch
<1>8. ASSUME NEW r \in Remote, Swap(r) PROVE IInv'
  BY <1>8 DEF Swap
<1>9. ASSUME NEW r \in Remote, Wake(r) PROVE IInv'
  BY <1>9 DEF Wake
<1>10. CASE UNCHANGED vars BY <1>10 DEF vars
<1> QED BY <1>1, <1>2, <1>3, <1>4, <1>5, <1>6, <1>7, <1>8, <1>9, <1>10 DEF Next

THEOREM Invariance == Spec => []IInv
BY SignalInit, SignalNext, PTL DEF Spec

\* A task pending on a signal that has fired has been woken or is being woken
\* (Wait::poll's check after its registration, against any interleaving).
THEOREM NoSignalMissed == Spec => []WaiterIsWoken
<1>1. IInv => WaiterIsWoken
  BY DEF IInv
<1> QED BY <1>1, Invariance, PTL

-----------------------------------------------------------------------------
\* A driver's steps under the signal: its own task polls, its handler signals,
\* or the latch is cleared; nobody signals from another hart.
Alone == \A r \in Remote : rpc[r] = "idle"

Polled ==
  \/ Reset \/ Await \/ Awaited \/ Abandon \/ SignalIsr
  \/ fired' = FALSE /\ UNCHANGED <<waiter, task, woken, rpc>>
  \/ UNCHANGED vars

LEMMA PolledKeeps == ASSUME IInv, Alone, Polled PROVE IInv' /\ Alone'
<1>1. CASE fired' = FALSE /\ UNCHANGED <<waiter, task, woken, rpc>>
  BY <1>1 DEF IInv, TypeOK, Reachable, WaiterIsWoken, task, Alone
<1>2. CASE ~(fired' = FALSE /\ UNCHANGED <<waiter, task, woken, rpc>>)
  <2>1. [Next]_vars
    BY <1>2 DEF Polled, Await, Awaited, Abandon, Next
  <2>2. rpc' = rpc
    BY <1>2 DEF Polled, Await, Awaited, Abandon, Reset, Wait, TryTake, Register, Drop, SignalIsr, vars
  <2> QED BY <2>1, <2>2, SignalNext DEF Alone
<1> QED BY <1>1, <1>2

\* The steps of the waiting task, by what they do to the latch: it stays as it
\* is until the task consumes it, and then the wait is over.
LEMMA PollsConsumeOnce ==
  ASSUME TypeOK, Await \/ Awaited
  PROVE  /\ pc' = "ready" \/ (pc = "ready" /\ pc' = "idle") \/ fired' = fired
         /\ pc' = "idle" <=> pc = "ready"
         /\ pc' = "ready" => pc \in {"take", "retake"} /\ fired
         /\ pc # "ready" => pc' # "idle"
BY DEF TypeOK, Await, Awaited, Wait, TryTake, Register, Drop, task

\* What a pending task has been told, when nobody signals from another hart.
LEMMA FiredIsWoken == ASSUME IInv, Alone, pc = "pending", fired PROVE woken
BY DEF IInv, WaiterIsWoken, Alone

\* What Append and Tail leave where.
LEMMA Appended ==
  ASSUME NEW S, NEW q \in Seq(S), NEW e \in S
  PROVE  /\ Append(q, e) \in Seq(S) /\ Len(Append(q, e)) = Len(q) + 1
         /\ \A i \in 1 .. Len(q) : Append(q, e)[i] = q[i]
         /\ Append(q, e)[Len(q) + 1] = e
BY AppendProperties, LenProperties

LEMMA HeadTaken ==
  ASSUME NEW S, NEW q \in Seq(S), q # <<>>
  PROVE  /\ Head(q) \in S /\ Head(q) = q[1] /\ Len(q) >= 1
         /\ Tail(q) \in Seq(S) /\ Len(Tail(q)) = Len(q) - 1
         /\ \A i \in 1 .. Len(Tail(q)) : Tail(q)[i] = q[i + 1]
BY HeadTailProperties, EmptySeq

-----------------------------------------------------------------------------
(* The PL022.  Its interrupt comes for RX_LEVEL bytes, so no asynchronous  *)
(* chunk may be shorter.                                                   *)

\* Lengths whose last chunk is full or has RX_LEVEL bytes at least.
LongTails ==
  {n \in Nat : \E q \in Nat : n = q * FIFO_DEPTH \/ n - q * FIFO_DEPTH \in RX_LEVEL .. FIFO_DEPTH}

Words == {0, 1} \X Nat

SpiType ==
  /\ spi \in {"idle", "next", "reset", "unmask", "push", "wait", "drain"}
  /\ mode \in {"async", "sync"} /\ xfer \in {0, 1}
  /\ left \in Nat /\ chunk \in 0 .. FIFO_DEPTH /\ pushed \in 0 .. chunk
  /\ got \in Seq(Words) /\ txfifo \in Seq(Words) /\ rxfifo \in Seq(Words)
  /\ Len(rxfifo) <= FIFO_DEPTH

\* Every chunk that is waited for can reach the receive level.
SpiChunks ==
  /\ spi \in {"reset", "unmask", "wait"} => mode = "async"
  /\ mode = "async" /\ spi # "idle" => left \in LongTails
  /\ mode = "async" /\ spi \in {"reset", "unmask", "push", "wait"} => chunk >= RX_LEVEL
  /\ spi = "wait" => pushed = chunk
  /\ spi \in {"reset", "unmask"} => pushed = 0

\* The latch is set, or the bytes that will set it are in the FIFOs with the
\* interrupt unmasked.
SpiHeard ==
  LET bytes == Len(rxfifo) + Len(txfifo)
  IN  /\ spi # "wait" => pc = "idle"
      /\ spi = "push" /\ mode = "async" =>
           fired \/ (rxim /\ (bytes >= RX_LEVEL \/ bytes >= pushed))
      /\ spi = "wait" /\ pc # "ready" => fired \/ (rxim /\ bytes >= RX_LEVEL)

\* The bytes of a transfer are in the caller's buffer, the receive FIFO and the
\* transmit FIFO, in order, and no others are.
SpiOrder ==
  /\ pushed = Len(rxfifo) + Len(txfifo)
  /\ spi \in {"idle", "next", "reset", "unmask"} => pushed = 0
  /\ \A i \in 1 .. Len(got) : got[i] = <<xfer, i>>
  /\ \A i \in 1 .. Len(rxfifo) : rxfifo[i] = <<xfer, Len(got) + i>>
  /\ \A i \in 1 .. Len(txfifo) : txfifo[i] = <<xfer, Len(got) + Len(rxfifo) + i>>

SpiInv == SpiType /\ SpiChunks /\ SpiHeard /\ (~abandoned => SpiOrder)

LEMMA TailsStayLong ==
  ASSUME NEW n \in LongTails, n # 0
  PROVE  /\ n < FIFO_DEPTH => n >= RX_LEVEL
         /\ n >= FIFO_DEPTH => n - FIFO_DEPTH \in LongTails
<1>0. FIFO_DEPTH \in Nat \ {0} /\ RX_LEVEL \in 1 .. FIFO_DEPTH /\ n \in Nat
  BY Pl022Assumption DEF LongTails
<1>1. PICK q \in Nat : n = q * FIFO_DEPTH \/ n - q * FIFO_DEPTH \in RX_LEVEL .. FIFO_DEPTH
  BY DEF LongTails
<1>2. CASE q = 0
  <2>1. q * FIFO_DEPTH = 0 BY <1>0, <1>2
  <2>2. n \in RX_LEVEL .. FIFO_DEPTH BY <1>0, <1>1, <2>1
  <2>3. 0 = 0 * FIFO_DEPTH BY <1>0
  <2> QED BY <1>0, <2>2, <2>3 DEF LongTails
<1>3. CASE q # 0
  <2>1. q - 1 \in Nat /\ q * FIFO_DEPTH = (q - 1) * FIFO_DEPTH + FIFO_DEPTH
        /\ (q - 1) * FIFO_DEPTH \in Nat
    BY <1>0, <1>3
  <2>2. n >= FIFO_DEPTH BY <1>0, <1>1, <2>1
  <2>3. \/ n - FIFO_DEPTH = (q - 1) * FIFO_DEPTH
        \/ n - FIFO_DEPTH - (q - 1) * FIFO_DEPTH \in RX_LEVEL .. FIFO_DEPTH
    BY <1>0, <1>1, <2>1
  <2>4. n - FIFO_DEPTH \in Nat BY <1>0, <2>2
  <2>5. n - FIFO_DEPTH \in LongTails BY <2>1, <2>3, <2>4 DEF LongTails
  <2> QED BY <1>0, <2>2, <2>5
<1> QED BY <1>2, <1>3

LEMMA SpiInitInv == SpiInit /\ Init => SpiInv
BY Pl022Assumption, EmptySeq DEF SpiInit, Init, SpiInv, SpiType, SpiChunks, SpiHeard, SpiOrder

LEMMA SpiNextInv ==
  ASSUME SpiInv, IInv, Alone, SpiStep, Lengths \subseteq LongTails
  PROVE  SpiInv' /\ Polled
<1>0. FIFO_DEPTH \in Nat \ {0} /\ RX_LEVEL \in 1 .. FIFO_DEPTH /\ Lengths \subseteq Nat
  BY Pl022Assumption DEF LongTails
<1>t. TypeOK BY DEF IInv
<1>l. Len(got) \in Nat /\ Len(rxfifo) \in Nat /\ Len(txfifo) \in Nat
  BY LenProperties DEF SpiInv, SpiType
<1> USE <1>0, <1>t, <1>l DEF SpiInv, SpiType, SpiChunks, SpiHeard, driver, controller
<1>1. ASSUME NEW n \in Lengths, SpiBus(n) \/ AsyncSpiBus(n) PROVE SpiInv' /\ Polled
  <2> USE <1>1 DEF SpiBus, AsyncSpiBus, SpiCall, vars, task
  <2>1. got' = <<>> /\ <<>> \in Seq(Words) /\ Len(<<>>) = 0 BY EmptySeq
  <2>2. SpiType' BY <2>1
  <2>3. SpiChunks' /\ SpiHeard' /\ Polled BY <2>1 DEF Polled
  <2>4. ~abandoned' => SpiOrder' BY <2>1 DEF SpiOrder
  <2> QED BY <2>2, <2>3, <2>4
<1>2. CASE SpiNext
  <2> USE <1>2 DEF SpiNext, vars, task
  <2>1. CASE left = 0
    BY <2>1 DEF Polled, SpiOrder
  <2>2. CASE left # 0 /\ mode = "sync"
    BY <2>2 DEF Polled, SpiOrder
  <2>3. CASE left # 0 /\ mode = "async"
    <3>1. left \in LongTails BY <2>3
    <3>2. CASE left < FIFO_DEPTH
      <4>1. 0 = 0 * FIFO_DEPTH OBVIOUS
      <4>2. 0 \in LongTails BY <4>1 DEF LongTails
      <4>3. left >= RX_LEVEL BY <2>3, <3>1, <3>2, TailsStayLong
      <4> QED BY <2>3, <3>2, <4>2, <4>3 DEF Polled, SpiOrder
    <3>3. CASE left >= FIFO_DEPTH
      <4>1. left - FIFO_DEPTH \in LongTails BY <2>3, <3>1, <3>3, TailsStayLong
      <4> QED BY <2>3, <3>3, <4>1 DEF Polled, SpiOrder
    <3> QED BY <3>2, <3>3
  <2> QED BY <2>1, <2>2, <2>3
<1>3. CASE SpiReset
  BY <1>3 DEF SpiReset, Reset, Polled, SpiOrder, task
<1>4. CASE SpiUnmask
  BY <1>4 DEF SpiUnmask, Polled, SpiOrder, vars, task
<1>5. CASE SpiPush
  <2> USE <1>5 DEF SpiPush, vars, task
  <2>1. CASE pushed = chunk
    BY <2>1 DEF Polled, SpiOrder
  <2>2. CASE pushed # chunk
    <3>1. <<xfer, Len(got) + pushed + 1>> \in Words BY LenProperties DEF Words
    <3>a. txfifo' = Append(txfifo, <<xfer, Len(got) + pushed + 1>>) BY <2>2
    <3>2. /\ txfifo' \in Seq(Words) /\ Len(txfifo') = Len(txfifo) + 1
          /\ \A i \in 1 .. Len(txfifo) : txfifo'[i] = txfifo[i]
          /\ txfifo'[Len(txfifo) + 1] = <<xfer, Len(got) + pushed + 1>>
      BY <3>1, <3>a, Appended
    <3>3. ASSUME ~abandoned, NEW i \in 1 .. Len(txfifo')
          PROVE  txfifo'[i] = <<xfer, Len(got) + Len(rxfifo) + i>>
      <4>1. CASE i \in 1 .. Len(txfifo) BY <3>2, <3>3, <4>1 DEF SpiOrder
      <4>2. CASE i = Len(txfifo) + 1
        <5>1. Len(got) + pushed + 1 = Len(got) + Len(rxfifo) + i
          BY <3>3, <4>2 DEF SpiOrder
        <5> QED BY <3>2, <4>2, <5>1
      <4>3. i \in 1 .. Len(txfifo) \/ i = Len(txfifo) + 1
        <5>1. Len(txfifo) \in Nat /\ Len(txfifo') = Len(txfifo) + 1
          BY ONLY <3>2, txfifo \in Seq(Words)
        <5> QED BY ONLY <3>3, <5>1
      <4> QED BY ONLY <4>1, <4>2, <4>3
    <3>4. UNCHANGED <<spi, mode, xfer, left, chunk, got, rxfifo, rxim, abandoned, vars>>
          /\ pushed' = pushed + 1
      BY <2>2
    <3>5. SpiType' /\ SpiChunks' BY <2>2, <3>2, <3>4
    <3>6. SpiHeard' BY <2>2, <3>2, <3>4
    <3>7. Polled BY <3>4 DEF Polled
    <3>8. ~abandoned' => SpiOrder'
      <4>1. ~abandoned => pushed' = Len(rxfifo') + Len(txfifo')
        BY <3>2, <3>4 DEF SpiOrder
      <4>2. ~abandoned =>
              /\ \A i \in 1 .. Len(got') : got'[i] = <<xfer', i>>
              /\ \A i \in 1 .. Len(rxfifo') : rxfifo'[i] = <<xfer', Len(got') + i>>
        BY <3>4 DEF SpiOrder
      <4>3. ~abandoned =>
              \A i \in 1 .. Len(txfifo') : txfifo'[i] = <<xfer', Len(got') + Len(rxfifo') + i>>
        BY <3>3, <3>4
      <4>4. spi' = "push" BY <3>4
      <4> QED BY ONLY <3>4, <4>1, <4>2, <4>3, <4>4 DEF SpiOrder
    <3> QED BY <3>5, <3>6, <3>7, <3>8
  <2> QED BY <2>1, <2>2
<1>6. CASE SpiWait
  <2>1. \/ pc' = "ready" \/ (pc = "ready" /\ pc' = "idle") \/ fired' = fired
    BY <1>6, PollsConsumeOnce DEF SpiWait
  <2>2. pc' = "idle" <=> pc = "ready"
    BY <1>6, PollsConsumeOnce DEF SpiWait
  <2> QED BY <1>6, <2>1, <2>2 DEF SpiWait, Polled, SpiOrder
<1>7. CASE SpiDrop
  BY <1>7 DEF SpiDrop, Polled, Abandon, Drop
<1>8. CASE SpiDrain
  <2> USE <1>8 DEF SpiDrain, vars, task
  <2>1. CASE pushed = 0
    BY <2>1 DEF Polled, SpiOrder
  <2>2. CASE pushed # 0
    <3>0. /\ Head(rxfifo) \in Words /\ Head(rxfifo) = rxfifo[1] /\ Len(rxfifo) >= 1
          /\ rxfifo' \in Seq(Words) /\ Len(rxfifo') = Len(rxfifo) - 1
          /\ \A i \in 1 .. Len(rxfifo') : rxfifo'[i] = rxfifo[i + 1]
      <4>1. rxfifo \in Seq(Words) /\ rxfifo # <<>> /\ rxfifo' = Tail(rxfifo) BY <2>2
      <4> QED BY ONLY <4>1, HeadTaken
    <3>1. /\ got' \in Seq(Words) /\ Len(got') = Len(got) + 1
          /\ \A i \in 1 .. Len(got) : got'[i] = got[i]
          /\ got'[Len(got) + 1] = rxfifo[1]
      <4>1. got' = Append(got, Head(rxfifo)) BY <2>2
      <4> QED BY <3>0, <4>1, Appended
    <3>2. ASSUME ~abandoned, NEW i \in 1 .. Len(got') PROVE got'[i] = <<xfer, i>>
      <4>1. CASE i \in 1 .. Len(got) BY <3>1, <3>2, <4>1 DEF SpiOrder
      <4>2. CASE i = Len(got) + 1
        <5>1. 1 \in 1 .. Len(rxfifo) BY <3>0
        <5>2. rxfifo[1] = <<xfer, Len(got) + 1>> BY <3>2, <5>1 DEF SpiOrder
        <5> QED BY <3>1, <4>2, <5>2
      <4>3. i \in 1 .. Len(got) \/ i = Len(got) + 1
        <5>1. Len(got) \in Nat /\ Len(got') = Len(got) + 1 BY ONLY <3>1, got \in Seq(Words)
        <5> QED BY ONLY <3>2, <5>1
      <4> QED BY ONLY <4>1, <4>2, <4>3
    <3>4. ASSUME ~abandoned, NEW i \in 1 .. Len(rxfifo')
          PROVE  rxfifo'[i] = <<xfer, Len(got') + i>>
      <4>1. i + 1 \in 1 .. Len(rxfifo) /\ Len(got) + (i + 1) = Len(got') + i
        BY <3>0, <3>1, <3>4
      <4>2. rxfifo[i + 1] = <<xfer, Len(got) + (i + 1)>> BY <3>4, <4>1 DEF SpiOrder
      <4> QED BY <3>0, <3>4, <4>1, <4>2
    <3>3. ~abandoned =>
            \A i \in 1 .. Len(txfifo') : txfifo'[i] = <<xfer, Len(got') + Len(rxfifo') + i>>
      BY <2>2, <3>0, <3>1 DEF SpiOrder
    <3> QED BY <2>2, <3>0, <3>1, <3>2, <3>3, <3>4 DEF Polled, SpiOrder
  <2> QED BY <2>1, <2>2
<1>9. CASE SpiShift
  <2> USE <1>9 DEF SpiShift, vars, task
  <2>1. /\ Head(txfifo) \in Words /\ Head(txfifo) = txfifo[1] /\ Len(txfifo) >= 1
        /\ txfifo' \in Seq(Words) /\ Len(txfifo') = Len(txfifo) - 1
        /\ \A i \in 1 .. Len(txfifo') : txfifo'[i] = txfifo[i + 1]
    <3>1. txfifo \in Seq(Words) /\ txfifo # <<>> /\ txfifo' = Tail(txfifo) OBVIOUS
    <3> QED BY ONLY <3>1, HeadTaken
  <2>2. CASE Len(rxfifo) < FIFO_DEPTH
    <3>1. /\ rxfifo' \in Seq(Words) /\ Len(rxfifo') = Len(rxfifo) + 1
          /\ \A i \in 1 .. Len(rxfifo) : rxfifo'[i] = rxfifo[i]
          /\ rxfifo'[Len(rxfifo) + 1] = txfifo[1]
      <4>1. rxfifo' = Append(rxfifo, Head(txfifo)) BY <2>2
      <4> QED BY <2>1, <4>1, Appended
    <3>2. ASSUME ~abandoned, NEW i \in 1 .. Len(rxfifo')
          PROVE  rxfifo'[i] = <<xfer, Len(got) + i>>
      <4>1. CASE i \in 1 .. Len(rxfifo) BY <3>1, <3>2, <4>1 DEF SpiOrder
      <4>2. CASE i = Len(rxfifo) + 1
        <5>1. 1 \in 1 .. Len(txfifo) BY <2>1
        <5>2. txfifo[1] = <<xfer, Len(got) + Len(rxfifo) + 1>> BY <3>2, <5>1 DEF SpiOrder
        <5>3. Len(got) + Len(rxfifo) + 1 = Len(got) + i BY <4>2
        <5> QED BY <3>1, <4>2, <5>2, <5>3
      <4>3. i \in 1 .. Len(rxfifo) \/ i = Len(rxfifo) + 1
        <5>1. Len(rxfifo) \in Nat /\ Len(rxfifo') = Len(rxfifo) + 1
          BY ONLY <3>1, rxfifo \in Seq(Words)
        <5> QED BY ONLY <3>2, <5>1
      <4> QED BY ONLY <4>1, <4>2, <4>3
    <3>3. ASSUME ~abandoned, NEW i \in 1 .. Len(txfifo')
          PROVE  txfifo'[i] = <<xfer, Len(got) + Len(rxfifo') + i>>
      <4>1. /\ i + 1 \in 1 .. Len(txfifo)
            /\ Len(got) + Len(rxfifo) + (i + 1) = Len(got) + Len(rxfifo') + i
        BY <2>1, <3>1, <3>3
      <4>2. txfifo[i + 1] = <<xfer, Len(got) + Len(rxfifo) + (i + 1)>> BY <3>3, <4>1 DEF SpiOrder
      <4> QED BY <2>1, <3>3, <4>1, <4>2
    <3>4. SpiType' /\ SpiChunks' /\ Polled BY <2>1, <2>2, <3>1 DEF Polled
    <3>5. SpiHeard' BY <2>1, <2>2, <3>1
    <3>6. ~abandoned' => SpiOrder'
      <4>1. ~abandoned => pushed' = Len(rxfifo') + Len(txfifo')
        BY <2>1, <3>1 DEF SpiOrder
      <4>2. UNCHANGED <<spi, xfer, got, pushed, abandoned>> OBVIOUS
      <4>3. ~abandoned =>
              /\ \A i \in 1 .. Len(got') : got'[i] = <<xfer', i>>
              /\ spi' \in {"idle", "next", "reset", "unmask"} => pushed' = 0
        BY <4>2 DEF SpiOrder
      <4>4. ~abandoned => \A i \in 1 .. Len(rxfifo') : rxfifo'[i] = <<xfer', Len(got') + i>>
        BY <3>2, <4>2
      <4>5. ~abandoned =>
              \A i \in 1 .. Len(txfifo') : txfifo'[i] = <<xfer', Len(got') + Len(rxfifo') + i>>
        BY <3>3, <4>2
      <4> QED BY ONLY <4>1, <4>2, <4>3, <4>4, <4>5 DEF SpiOrder
    <3> QED BY <3>4, <3>5, <3>6
  <2>3. CASE Len(rxfifo) >= FIFO_DEPTH
    BY <2>1, <2>3 DEF Polled, SpiOrder
  <2> QED BY <2>2, <2>3
<1>10. CASE SpiIsr
  BY <1>10 DEF SpiIsr, SignalIsr, Polled, SpiOrder, task
<1> QED BY <1>1, <1>2, <1>3, <1>4, <1>5, <1>6, <1>7, <1>8, <1>9, <1>10 DEF SpiStep

LEMMA SpiInvShows ==
  ASSUME SpiInv, IInv, Alone PROVE TransferIsHeard /\ SpiKeepsOrder
<1>1. DOMAIN got = 1 .. Len(got)
  BY LenProperties DEF SpiInv, SpiType
<1> QED BY <1>1, FiredIsWoken DEF SpiInv, SpiHeard, SpiOrder, TransferIsHeard, SpiKeepsOrder

-----------------------------------------------------------------------------
\* The Stellaris I2C master: as long as no transaction began on top of a dropped
\* command, the latch, the raw interrupt and a wait that is over are signs that
\* the command under way has finished.
IcInv ==
  /\ ic \in {"look", "wait"} => ~polls
  /\ ic # "wait" => pc = "idle"
  /\ ~cut /\ ic \in {"command", "write", "check"} => ~busy
  /\ ~cut /\ ic \in {"command", "write"} => ~ris
  /\ ~cut /\ ic = "write" /\ ~polls => ~fired
  /\ ~cut /\ ic \in {"look", "wait"} /\ (fired \/ ris \/ pc = "ready") => ~busy

LEMMA IcInitInv == IcInit /\ Init => IcInv
BY DEF IcInit, Init, IcInv

LEMMA IcNextInv == ASSUME IcInv, IInv, IcStep PROVE IcInv' /\ Polled
<1>t. TypeOK BY DEF IInv
<1> USE <1>t DEF IcInv, At
<1>1. ASSUME NEW t \in Transactions, IcTransaction(t) \/ IcAsyncTransaction(t)
      PROVE  IcInv' /\ Polled
  <2>1. ic = "idle" /\ ~ris /\ ic' = "command" /\ UNCHANGED <<busy, ris, fired, pc>>
    BY <1>1 DEF IcTransaction, IcAsyncTransaction, IcCall, vars, task
  <2>2. cut' = (cut \/ busy)
    BY <1>1 DEF IcTransaction, IcAsyncTransaction, IcCall
  <2>3. ~cut' => ~busy BY <2>2, Zenon
  <2>4. IcInv' BY <2>1, <2>3
  <2> QED BY <1>1, <2>4 DEF IcTransaction, IcAsyncTransaction, IcCall, Polled
<1>2. CASE IcReset
  BY <1>2 DEF IcReset, Polled, vars, task
<1>3. CASE IcWrite
  BY <1>3 DEF IcWrite, Polled, vars, task
<1>4. CASE IcSpin
  BY <1>4 DEF IcSpin, Polled, vars, task
<1>5. CASE IcLook
  BY <1>5 DEF IcLook, Polled, vars, task
<1>6. CASE IcWait
  <2>1. /\ pc' = "ready" \/ (pc = "ready" /\ pc' = "idle") \/ fired' = fired
        /\ pc' = "idle" <=> pc = "ready"
        /\ pc' = "ready" => fired
    BY <1>6, PollsConsumeOnce DEF IcWait
  <2>2. fired' => fired
    BY <1>6 DEF IcWait, Await, Awaited, Wait, TryTake, Register, Drop
  <2> QED BY <1>6, <2>1, <2>2 DEF IcWait, Polled
<1>7. CASE IcDrop
  BY <1>7 DEF IcDrop, Polled, Abandon, Drop
<1>8. CASE IcCheck
  BY <1>8 DEF IcCheck, Polled, vars, task
<1>9. CASE IcDone
  BY <1>9 DEF IcDone, Polled, vars, task
<1>10. CASE IcIsr
  BY <1>10 DEF IcIsr, SignalIsr, Polled, vars, task
<1> QED BY <1>1, <1>2, <1>3, <1>4, <1>5, <1>6, <1>7, <1>8, <1>9, <1>10 DEF IcStep

-----------------------------------------------------------------------------
\* The STM32's I2C master: until the wait is over, the latch is set or the
\* interrupts that will set it are armed.
StOps == Seq({"read", "write"} \X Nat)

StInv ==
  /\ stOps \in StOps /\ (st # "idle" => stOps # <<>>)
  /\ stPolls \/ st \notin {"started", "addressed"} => pc = "idle"
  /\ st \in {"arm_start", "ask", "arm_address", "send"} => ~stPolls
  /\ ~stPolls /\ st \in {"ask", "started", "send", "addressed"} /\ pc # "ready" => fired \/ armed

LEMMA StInitInv == StInit /\ Init => StInv
BY EmptySeq DEF StInit, Init, StInv, StOps

LEMMA StNextInv ==
  ASSUME StInv, IInv, StStep, StTransactions \subseteq StOps \ {<<>>}
  PROVE  StInv' /\ Polled
<1>t. TypeOK BY DEF IInv
<1>a. /\ DOMAIN Awaits = {"started", "addressed"}
      /\ Awaits["started"] = "address" /\ Awaits["addressed"] = "answer"
  BY DEF Awaits
<1>o. stOps # <<>> =>
        /\ Op[1] \in {"read", "write"}
        /\ Tail(stOps) \in StOps
        /\ ~LastOp => Tail(stOps) # <<>>
  <2> SUFFICES ASSUME stOps # <<>> 
               PROVE  /\ Op[1] \in {"read", "write"}
                      /\ Tail(stOps) \in StOps
                      /\ ~LastOp => Tail(stOps) # <<>>
    OBVIOUS
  <2>1. /\ Head(stOps) = stOps[1] /\ Head(stOps) \in {"read", "write"} \X Nat
        /\ Tail(stOps) \in StOps /\ Len(Tail(stOps)) = Len(stOps) - 1
        /\ Len(stOps) \in Nat /\ Len(stOps) >= 1
    BY HeadTaken, LenProperties DEF StInv, StOps
  <2>2. Len(<<>>) = 0 BY EmptySeq
  <2>3. stOps[1][1] \in {"read", "write"} BY <2>1
  <2>4. ASSUME Tail(stOps) = <<>> PROVE LastOp
    <3>1. Len(Tail(stOps)) = 0 BY <2>2, <2>4
    <3> QED BY ONLY <2>1, <3>1 DEF LastOp
  <2> QED BY <2>1, <2>3, <2>4 DEF Op
<1> HIDE DEF Awaits, Op, LastOp
<1> USE <1>t, <1>a, <1>o DEF StInv, driving
<1>1. ASSUME NEW t \in StTransactions, StTransaction(t) \/ StAsyncTransaction(t)
      PROVE  StInv' /\ Polled
  BY <1>1 DEF StTransaction, StAsyncTransaction, StCall, Polled, vars, task
<1>r. /\ DOMAIN Resets = {"start", "address"}
      /\ Resets["start"] = "arm_start" /\ Resets["address"] = "arm_address"
  BY DEF Resets
<1>s. /\ DOMAIN Arms = {"arm_start", "arm_address"}
      /\ Arms["arm_start"] = "ask" /\ Arms["arm_address"] = "send"
  BY DEF Arms
<1> HIDE DEF Resets, Arms
<1>13. CASE StReset
  BY <1>13, <1>r DEF StReset, Reset, Polled, task
<1>14. CASE StArm
  BY <1>14, <1>s DEF StArm, Polled, vars, task
<1>2. CASE StStart
  BY <1>2 DEF StStart, Polled, vars, task
<1>3. CASE StAddress
  BY <1>3 DEF StAddress, Polled, vars, task
<1>4. CASE StPoll
  BY <1>4 DEF StPoll, Polled, vars, task
<1>5. CASE StWait
  <2>1. /\ pc' = "ready" \/ (pc = "ready" /\ pc' = "idle") \/ fired' = fired
        /\ pc' = "idle" <=> pc = "ready"
    BY <1>5, PollsConsumeOnce DEF StWait
  <2> QED BY <1>5, <2>1 DEF StWait, Polled
<1>15. CASE StDrop
  BY <1>15 DEF StDrop, Abandon, Drop, Polled
<1>6. CASE StAnswer
  BY <1>6 DEF StAnswer, Polled, vars, task
<1>7. CASE StWrite
  BY <1>7 DEF StWrite, Polled, vars, task
<1>8. CASE StSent
  BY <1>8 DEF StSent, NextOp, Polled, vars, task
<1>9. CASE StNack
  BY <1>9 DEF StNack, Polled, vars, task
<1>10. CASE StRead
  BY <1>10 DEF StRead, NextOp, Polled, vars, task
<1>11. CASE BusStart \/ BusStop \/ BusSent \/ BusTxe \/ BusReceived \/ BusFails
  BY <1>11 DEF BusStart, BusStop, BusSent, BusTxe, BusReceived, BusFails, Polled, vars, task
<1>12. CASE StIsr
  BY <1>12 DEF StIsr, SignalIsr, Polled, vars, task
<1> QED BY <1>1, <1>2, <1>3, <1>4, <1>5, <1>6, <1>7, <1>8, <1>9, <1>10, <1>11, <1>12, <1>13,
           <1>14, <1>15
     DEF StStep

-----------------------------------------------------------------------------
\* The EXTI line: while the wait is not over, an edge that came is still pending
\* or has set the latch, and the edges asked for are the ones selected.
ExInv ==
  /\ ex # "wait" => pc = "idle"
  /\ ex = "wait" => (rtsr <=> "rising" \in edges) /\ (ftsr <=> "falling" \in edges)
  /\ ex = "wait" /\ came /\ pc # "ready" => fired \/ pr

LEMMA ExInitInv == ExInit /\ Init => ExInv
BY DEF ExInit, Init, ExInv

LEMMA ExNextInv == ASSUME ExInv, IInv, ExStep PROVE ExInv' /\ Polled
<1>t. TypeOK BY DEF IInv
<1> USE <1>t DEF ExInv, waiting, line
<1>1. ASSUME NEW e \in {{"rising"}, {"falling"}, {"rising", "falling"}}, ExCall(e)
      PROVE  ExInv' /\ Polled
  BY <1>1 DEF ExCall, Polled, vars, task
<1>2. ASSUME NEW l \in {"high", "low"}, ExCallLevel(l) PROVE ExInv' /\ Polled
  BY <1>2 DEF ExCallLevel, Polled, vars, task
<1>3. CASE ExLevel
  BY <1>3 DEF ExLevel, Polled, vars, task
<1>4. CASE ExReset
  BY <1>4 DEF ExReset, Reset, Polled, task
<1>5. CASE ExArm
  BY <1>5 DEF ExArm, Polled, vars, task
<1>6. CASE ExWait
  <2>1. /\ pc' = "ready" \/ (pc = "ready" /\ pc' = "idle") \/ fired' = fired
        /\ pc' = "idle" <=> pc = "ready"
    BY <1>6, PollsConsumeOnce DEF ExWait
  <2> QED BY <1>6, <2>1 DEF ExWait, Polled
<1>7. CASE ExDrop
  BY <1>7 DEF ExDrop, Polled, Abandon, Drop
<1>8. CASE Pin
  BY <1>8 DEF Pin, Polled, vars, task
<1>9. CASE ExTrigger
  BY <1>9 DEF ExTrigger, Polled, vars, task
<1>10. CASE ExIsr
  BY <1>10 DEF ExIsr, SignalIsr, Polled, task
<1> QED BY <1>1, <1>2, <1>3, <1>4, <1>5, <1>6, <1>7, <1>8, <1>9, <1>10 DEF ExStep

-----------------------------------------------------------------------------
(* The parts together.  Which part moves never changes; the others stay as *)
(* they are.                                                               *)

DriverInv ==
  /\ IInv
  /\ device # "signal" => Alone
  /\ IF device = "pl022" THEN SpiInv ELSE SpiInit
  /\ IF device = "stellaris" THEN IcInv ELSE IcInit
  /\ IF device = "stm32i2c" THEN StInv ELSE StInit
  /\ IF device = "exti" THEN ExInv ELSE ExInit

\* The transfers of the PL022 are long enough for its interrupt, those of the
\* STM32's I2C master have operations that read or write.
TransfersAsDocumented ==
  Lengths \subseteq LongTails /\ StTransactions \subseteq StOps \ {<<>>}

LEMMA DriverInitInv == DevInit => DriverInv
<1> SUFFICES ASSUME DevInit PROVE DriverInv OBVIOUS
<1>1. Init /\ SpiInit /\ IcInit /\ StInit /\ ExInit BY DEF DevInit
<1>2. Alone BY <1>1 DEF Init, Alone
<1> QED BY <1>1, <1>2, SignalInit, SpiInitInv, IcInitInv, StInitInv, ExInitInv DEF DriverInv

\* What a step of the board is to each driver, and to each other part.
LEMMA DriversApart ==
  ASSUME [DevNext]_devices
  PROVE  /\ device' = device
         /\ \/ UNCHANGED <<vars, pl022, stellaris, stm32i2c, exti>>
            \/ device = "signal" /\ Next /\ UNCHANGED <<pl022, stellaris, stm32i2c, exti>>
            \/ device = "pl022" /\ SpiStep /\ UNCHANGED <<stellaris, stm32i2c, exti>>
            \/ device = "stellaris" /\ IcStep /\ UNCHANGED <<pl022, stm32i2c, exti>>
            \/ device = "stm32i2c" /\ StStep /\ UNCHANGED <<pl022, stellaris, exti>>
            \/ device = "exti" /\ ExStep /\ UNCHANGED <<pl022, stellaris, stm32i2c>>
BY DEF DevNext, devices, drivers

LEMMA BoardsApart ==
  ASSUME [DevNext]_devices
  PROVE  /\ WdStep \/ UNCHANGED watchdog
         /\ IqStep \/ UNCHANGED irqTable
         /\ GpStep \/ UNCHANGED gpio
         /\ ConStep \/ UNCHANGED console
         /\ ClStep \/ UNCHANGED clocks
         /\ BtStep \/ UNCHANGED boot
BY DEF DevNext, devices, board

LEMMA DriverNextInv ==
  ASSUME DriverInv, [DevNext]_devices, TransfersAsDocumented
  PROVE  DriverInv'
<1> USE DEF TransfersAsDocumented
<1>k. /\ UNCHANGED pl022 => (SpiInit => SpiInit') 
      /\ UNCHANGED stellaris => (IcInit => IcInit')
      /\ UNCHANGED stm32i2c => (StInit => StInit')
      /\ UNCHANGED exti => (ExInit => ExInit')
  <2>1. UNCHANGED pl022 => (SpiInit => SpiInit') BY DEF pl022, driver, controller, SpiInit
  <2>2. UNCHANGED stellaris => (IcInit => IcInit') BY DEF stellaris, IcInit
  <2>3. UNCHANGED stm32i2c => (StInit => StInit') BY DEF stm32i2c, driving, StInit
  <2>4. UNCHANGED exti => (ExInit => ExInit') BY DEF exti, waiting, line, ExInit
  <2> QED BY <2>1, <2>2, <2>3, <2>4
<1>d. device' = device BY DriversApart
<1>1. CASE UNCHANGED <<vars, pl022, stellaris, stm32i2c, exti>>
  <2>1. IInv' /\ (Alone => Alone')
    BY <1>1, SignalNext DEF DriverInv, vars, Alone
  <2>2. SpiInv => SpiInv'
    BY <1>1 DEF vars, task, pl022, driver, controller, SpiInv, SpiType, SpiChunks, SpiHeard, SpiOrder
  <2>3. IcInv => IcInv'
    BY <1>1 DEF vars, task, stellaris, IcInv
  <2>4. StInv => StInv'
    BY <1>1 DEF vars, task, stm32i2c, driving, StInv
  <2>5. ExInv => ExInv'
    BY <1>1 DEF vars, task, exti, waiting, line, ExInv
  <2> QED BY <1>d, <1>k, <1>1, <2>1, <2>2, <2>3, <2>4, <2>5 DEF DriverInv
<1>2. CASE device = "signal" /\ Next /\ UNCHANGED <<pl022, stellaris, stm32i2c, exti>>
  <2>1. IInv' BY <1>2, SignalNext DEF DriverInv
  <2> QED BY <1>d, <1>k, <1>2, <2>1 DEF DriverInv
<1>3. CASE device = "pl022" /\ SpiStep /\ UNCHANGED <<stellaris, stm32i2c, exti>>
  <2>1. SpiInv' /\ IInv' /\ Alone'
    BY <1>3, SpiNextInv, PolledKeeps DEF DriverInv
  <2> QED BY <1>d, <1>k, <1>3, <2>1 DEF DriverInv
<1>4. CASE device = "stellaris" /\ IcStep /\ UNCHANGED <<pl022, stm32i2c, exti>>
  <2>1. IcInv' /\ IInv' /\ Alone'
    BY <1>4, IcNextInv, PolledKeeps DEF DriverInv
  <2> QED BY <1>d, <1>k, <1>4, <2>1 DEF DriverInv
<1>5. CASE device = "stm32i2c" /\ StStep /\ UNCHANGED <<pl022, stellaris, exti>>
  <2>1. StInv' /\ IInv' /\ Alone'
    BY <1>5, StNextInv, PolledKeeps DEF DriverInv
  <2> QED BY <1>d, <1>k, <1>5, <2>1 DEF DriverInv
<1>6. CASE device = "exti" /\ ExStep /\ UNCHANGED <<pl022, stellaris, stm32i2c>>
  <2>1. ExInv' /\ IInv' /\ Alone'
    BY <1>6, ExNextInv, PolledKeeps DEF DriverInv
  <2> QED BY <1>d, <1>k, <1>6, <2>1 DEF DriverInv
<1> QED BY <1>1, <1>2, <1>3, <1>4, <1>5, <1>6, DriversApart

\* The drivers' invariant, for transfers a caller is allowed to ask for.
THEOREM DriverInvariance == ASSUME TransfersAsDocumented PROVE DevSpec => []DriverInv
<1>1. DriverInv /\ [DevNext]_devices => DriverInv'
  BY DriverNextInv
<1> QED BY <1>1, DriverInitInv, PTL DEF DevSpec

LEMMA DriverInvShows ==
  ASSUME DriverInv PROVE DriversAreHeard /\ TransfersAreOwn /\ WaiterIsWoken
<1>1. TransferIsHeard /\ SpiKeepsOrder
  <2>1. CASE device = "pl022" BY <2>1, SpiInvShows DEF DriverInv
  <2>2. CASE device # "pl022"
    BY <2>2 DEF DriverInv, SpiInit, TransferIsHeard, SpiKeepsOrder
  <2> QED BY <2>1, <2>2
<1>2. StatusIsOwn
  BY DEF DriverInv, IcInv, IcInit, StatusIsOwn
<1>3. PhaseIsHeard
  <2>1. CASE device = "stm32i2c"
    BY <2>1, FiredIsWoken DEF DriverInv, StInv, PhaseIsHeard, Awaits
  <2>2. CASE device # "stm32i2c"
    BY <2>2 DEF DriverInv, StInit, PhaseIsHeard, Awaits
  <2> QED BY <2>1, <2>2
<1>4. EdgeIsHeard
  <2>1. CASE device = "exti"
    BY <2>1, FiredIsWoken DEF DriverInv, ExInv, EdgeIsHeard
  <2>2. CASE device # "exti"
    BY <2>2 DEF DriverInv, ExInit, EdgeIsHeard
  <2> QED BY <2>1, <2>2
<1> QED BY <1>1, <1>2, <1>3, <1>4 DEF DriversAreHeard, TransfersAreOwn, DriverInv, IInv

\* Whoever a peripheral's interrupt belongs to hears it: a transfer, an I2C phase
\* or an edge that is waited for has been signalled or its interrupt is to come.
THEOREM DriversHear == ASSUME TransfersAsDocumented PROVE DevSpec => []DriversAreHeard
<1>1. DriverInv => DriversAreHeard
  BY DriverInvShows
<1> QED BY <1>1, DriverInvariance, PTL

\* What a driver hands to its caller is its own transfer's: the PL022's bytes in
\* order, the status of the Stellaris master's own command.
THEOREM TransfersStayOwn == ASSUME TransfersAsDocumented PROVE DevSpec => []TransfersAreOwn
<1>1. DriverInv => TransfersAreOwn
  BY DriverInvShows
<1> QED BY <1>1, DriverInvariance, PTL

-----------------------------------------------------------------------------
(* The watchdogs.                                                          *)

\* The boards' own: a reload register that is not wider than the arithmetic that
\* fills it.
DogsAsBuilt ==
  /\ Dogs \subseteq {"software", "rp2040", "stm32f401", "lm3s6965", "mps2"}
  /\ Periods \subseteq Nat
  /\ MaxReload \in Nat \ {0} /\ Width \in Nat /\ MaxReload < Width

\* sw_watchdog: but for a call in progress, the deadline is a period after the
\* dog was fed.
SoftwareInv ==
  /\ dogAt \in {"out", "init", "feed"} /\ dogNow \in Nat
  /\ dogAt # "init" => deadline = fed + period
  /\ dogAt # "init" /\ bitten /\ period # 0 => time >= fed + period
  /\ dogAt = "out" /\ ~bitten /\ ~frozen /\ period # 0 => time < fed + period \/ time = fedBy

\* A counter that holds its period has what is left of it, or of the second one.
HardwareInv ==
  /\ dogAt = "out"
  /\ Holds(period) =>
       /\ counting /\ reload = period /\ counter \in 1 .. period
       /\ ~bitten => time + counter = fed + (IF barked THEN period + period ELSE period)
       /\ ~bitten /\ barked => Hardware.timeouts = 2
       /\ bitten => time >= fed + period

WdInv ==
  /\ dog \in {"software", "rp2040", "stm32f401", "lm3s6965", "mps2"}
  /\ time \in Nat /\ fed \in Nat /\ period \in Periods \cup {0}
  /\ IF IsSoftware THEN SoftwareInv ELSE HardwareInv

\* What each board's counter loads for a period its register holds.
LEMMA ReloadIsPeriod ==
  ASSUME DogsAsBuilt, dog \in {"rp2040", "stm32f401", "lm3s6965", "mps2"},
         NEW p \in Periods, Holds(p)
  PROVE  Hardware.reload[p] = p
<1>1. ~IsSoftware /\ p \in Nat /\ p >= 1 /\ p <= MaxReload
  BY DEF Holds, IsSoftware, DogsAsBuilt
<1>2. Clamped[p] = p
  BY <1>1 DEF Clamped, Least, DogsAsBuilt
<1>3. Truncated[p] = p
  BY <1>1 DEF Truncated, Least, DogsAsBuilt
<1> QED BY <1>2, <1>3 DEF Hardware, Dog_rp2040, Dog_stm32f401, Dog_lm3s6965, Dog_mps2

LEMMA OneTimeoutOrTwo ==
  ASSUME dog \in {"rp2040", "stm32f401", "lm3s6965", "mps2"}
  PROVE  Hardware.timeouts \in {1, 2}
BY DEF Hardware, Dog_rp2040, Dog_stm32f401, Dog_lm3s6965, Dog_mps2

LEMMA WdInitInv == ASSUME DogsAsBuilt PROVE WdInit => WdInv
BY DEF DogsAsBuilt, WdInit, WdInv, SoftwareInv, HardwareInv, Holds, IsSoftware

LEMMA WdNextInv ==
  ASSUME DogsAsBuilt, WdInv, WdStep \/ UNCHANGED watchdog
  PROVE  WdInv'
<1>p. period \in Nat /\ Periods \subseteq Nat /\ time \in Nat /\ fed \in Nat /\ dog' = dog
  BY DEF DogsAsBuilt, WdInv, WdStep, WdtInit, SetDeadline, WdtFeed, WdPass, Freeze, watchdog
<1>1. CASE IsSoftware
  <2> USE <1>p, <1>1 DEF WdInv, SoftwareInv, IsSoftware, hardware, software, calls
  <2>1. ASSUME NEW p \in Periods, WdtInit(p) PROVE WdInv'
    BY <2>1 DEF WdtInit, CanCall
  <2>2. CASE SetDeadline BY <2>2 DEF SetDeadline
  <2>3. CASE WdtFeed BY <2>3 DEF WdtFeed, CanCall
  <2>4. CASE WdPass
    <3>1. /\ time' = time + 1 /\ ~bitten
          /\ bitten' <=> ~frozen /\ period # 0 /\ time + 1 >= deadline
      BY <2>4 DEF WdPass, WdtCheck, Expired
    <3>2. UNCHANGED <<period, deadline, dogAt, dogNow, fed, fedBy, frozen>>
      BY <2>4 DEF WdPass
    <3> QED BY <3>1, <3>2
  <2>5. CASE Freeze BY <2>5 DEF Freeze
  <2>6. CASE UNCHANGED watchdog BY <2>6 DEF watchdog
  <2> QED BY <2>1, <2>2, <2>3, <2>4, <2>5, <2>6 DEF WdStep
<1>2. CASE ~IsSoftware
  <2>d. dog \in {"rp2040", "stm32f401", "lm3s6965", "mps2"}
    BY <1>2 DEF WdInv, IsSoftware
  <2>h. /\ Hardware.timeouts \in {1, 2} /\ Hardware' = Hardware
        /\ \A p \in Periods : Holds(p) => Hardware.reload[p] = p
    <3>1. Hardware' = Hardware
      BY <1>p DEF Hardware, Dog_rp2040, Dog_stm32f401, Dog_lm3s6965, Dog_mps2, Clamped, Truncated
    <3> QED BY <2>d, <3>1, OneTimeoutOrTwo, ReloadIsPeriod
  <2> HIDE DEF Hardware
  <2> USE <1>p, <1>2, <2>d, <2>h DEF WdInv, HardwareInv, IsSoftware, Holds, hardware, software, calls
  <2>1. ASSUME NEW p \in Periods, WdtInit(p) PROVE WdInv'
    <3> USE <2>1 DEF WdtInit, CanCall
    <3>1. CASE p = 0 BY <3>1
    <3>2. CASE p > MaxReload BY <3>2
    <3>3. CASE p # 0 /\ p <= MaxReload
      <4>1. Hardware.reload[p] = p BY <3>3
      <4>2. /\ counting' /\ ~barked' /\ ~bitten' /\ reload' = p /\ counter' = p
            /\ period' = p /\ time' = time /\ fed' = time /\ dogAt' = "out"
        BY <3>3, <4>1
      <4> QED BY ONLY <1>p, <1>2, <2>d, <3>3, <4>2, WdInv DEF WdInv, HardwareInv, IsSoftware, Holds
    <3> QED BY <3>1, <3>2, <3>3 DEF DogsAsBuilt
  <2>2. CASE SetDeadline BY <2>2 DEF SetDeadline
  <2>3. CASE WdtFeed BY <2>3 DEF WdtFeed, CanCall
  <2>4. CASE WdPass
    <3> USE <2>4 DEF WdPass, Count
    <3>1. CASE ~Holds(period) BY <3>1
    <3>2. CASE Holds(period)
      <4>1. /\ period # 0 /\ counting /\ counter \in 1 .. period /\ reload = period /\ ~bitten
            /\ time + counter = fed + (IF barked THEN period + period ELSE period)
            /\ barked => Hardware.timeouts = 2
        BY <3>2
      <4>2. barked' = (barked \/ counter <= 1) BY <4>1
      <4>3. bitten' = (bitten \/ (counter <= 1 /\ (barked \/ Hardware.timeouts = 1))) BY <4>1
      <4>4. (barked' <=> barked \/ counter <= 1)
        BY <4>2, Zenon
      <4>5. bitten' <=> bitten \/ (counter <= 1 /\ (barked \/ Hardware.timeouts = 1))
        BY <4>3, Zenon
      <4>6. /\ time' = time + 1 /\ counter' = (IF counter <= 1 THEN period ELSE counter - 1)
            /\ counting' /\ UNCHANGED <<reload, period, fed, dogAt>>
        BY <4>1
      <4>7. CASE counter = 1
        BY ONLY <1>p, <1>2, <2>d, <2>h, <4>1, <4>4, <4>5, <4>6, <4>7, WdInv
           DEF WdInv, HardwareInv, IsSoftware, Holds
      <4>8. CASE counter # 1
        BY ONLY <1>p, <1>2, <2>d, <2>h, <4>1, <4>4, <4>5, <4>6, <4>8, WdInv
           DEF WdInv, HardwareInv, IsSoftware, Holds
      <4> QED BY <4>7, <4>8
    <3> QED BY <3>1, <3>2
  <2>5. CASE Freeze BY <2>5 DEF Freeze
  <2>6. CASE UNCHANGED watchdog BY <2>6 DEF watchdog
  <2> QED BY <2>1, <2>2, <2>3, <2>4, <2>5, <2>6 DEF WdStep
<1> QED BY <1>1, <1>2

\* The watchdogs' invariant.
THEOREM WdInvariance == ASSUME DogsAsBuilt PROVE DevSpec => []WdInv
<1>1. DevInit => WdInv BY WdInitInv DEF DevInit
<1>2. WdInv /\ [DevNext]_devices => WdInv' BY WdNextInv, BoardsApart
<1> QED BY <1>1, <1>2, PTL DEF DevSpec

\* No board is reset before the period of the call that fed its dog has passed,
\* and one that nobody feeds is.
THEOREM DogsKeepTime == ASSUME DogsAsBuilt PROVE DevSpec => []WatchdogKeepsTime
<1>1. WdInv => WatchdogKeepsTime
  <2> SUFFICES ASSUME WdInv PROVE FedDogSleeps /\ StarvedDogBites
    BY DEF WatchdogKeepsTime
  <2>p. period \in Nat /\ time \in Nat /\ fed \in Nat
    BY DEF WdInv, DogsAsBuilt
  <2>1. CASE IsSoftware
    BY <2>p, <2>1 DEF WdInv, SoftwareInv, FedDogSleeps, StarvedDogBites, Holds
  <2>2. CASE ~IsSoftware
    <3>1. Hardware.timeouts \in {1, 2}
      BY <2>2, OneTimeoutOrTwo DEF WdInv, IsSoftware
    <3>2. FedDogSleeps
      BY <2>p, <2>2 DEF WdInv, HardwareInv, FedDogSleeps
    <3>3. StarvedDogBites
      BY <2>p, <2>2, <3>1 DEF WdInv, HardwareInv, StarvedDogBites, Holds
    <3> QED BY <3>2, <3>3
  <2> QED BY <2>1, <2>2
<1> QED BY <1>1, WdInvariance, PTL

-----------------------------------------------------------------------------
(* The interrupt table.                                                    *)

\* Interrupt numbers and lines are numbers; the pool has none of the kernel's own.
InterruptsAsBuilt ==
  /\ Controllers \subseteq {"nvic", "nvic0", "plic", "esp32c6"}
  /\ Irqs \subseteq Nat /\ IrqLines \subseteq Nat /\ IrqLines \cap KernelLines = {}

Places == {"out", "untrace", "retrace", "enable", "disable", "on", "off", "prio"}
Priorities == [Irqs -> Int]
CallType == [IrqCallers -> [at : Places, irq : Int, word : SUBSET Int, prio : Priorities]]

IqType ==
  /\ intc \in {"nvic", "nvic0", "plic", "esp32c6"}
  /\ call \in CallType
  /\ priority \in Priorities
  /\ lineOf \in [IrqLines -> Irqs \cup {Free}]
  /\ routed \in [Irqs -> IrqLines \cup {Free}]
  /\ on \subseteq Irqs /\ enabled \subseteq Int /\ mie \subseteq Int

\* Caller c is enabling or disabling an interrupt.
Busy(c) == call[c].at \in {"enable", "disable", "on", "off"}
Owns(c, i) == Busy(c) /\ call[c].irq = i

IqCalls ==
  /\ \A c \in IrqCallers : Busy(c) => call[c].irq \in Irqs
  /\ Atomic => \A c \in IrqCallers : call[c].at \notin {"on", "off"}
  /\ ~Atomic => /\ \A c, d \in IrqCallers : Busy(c) /\ Busy(d) => c = d
                /\ \A c \in IrqCallers : Busy(c) => call[c].irq \notin on

\* An interrupt whose last call did not enable it, and is enabled, has a caller
\* that will settle it.
NumberInv ==
  ~Matrixed =>
    /\ on \subseteq enabled /\ ~configured
    /\ \A i \in Irqs : i \in enabled /\ i \notin on => \E c \in IrqCallers : Owns(c, i)

PlicInv ==
  intc = "plic" =>
    \A c \in IrqCallers :
      /\ call[c].at = "on" => call[c].word = enabled \cup {call[c].irq}
      /\ call[c].at = "off" => call[c].word = enabled \ {call[c].irq}

\* A number has one line, a line one number, and the matrix leads only to a
\* number's own line.
LinesInv ==
  /\ \A l, m \in IrqLines : lineOf[l] = lineOf[m] /\ lineOf[l] # Free => l = m
  /\ \A i \in Irqs : routed[i] # Free => lineOf[routed[i]] = i

MatrixInv ==
  Matrixed =>
    /\ LinesInv
    /\ \A i \in Irqs : i \in on => routed[i] # Free /\ routed[i] \in enabled \cap mie
    /\ \A i \in Irqs : routed[i] # Free /\ routed[i] \in enabled \cap mie /\ i \notin on =>
          \E c \in IrqCallers : Owns(c, i)
    /\ \A i \in Irqs : routed[i] # Free => i \in Sources
    /\ \A c \in IrqCallers :
         /\ call[c].at = "enable" => call[c].irq \in Sources
         /\ call[c].at \in {"enable", "disable"} =>
              \E l \in IrqLines : lineOf[l] = call[c].irq /\ call[c].word = {l}
         /\ call[c].at = "on" =>
              routed[call[c].irq] # Free /\ call[c].word = enabled \cup {routed[call[c].irq]}
         /\ call[c].at = "off" =>
              \E l \in IrqLines : lineOf[l] = call[c].irq /\ call[c].word = enabled \ {l}
    /\ configured => KernelLines \subseteq enabled /\ KernelLines \subseteq mie
    /\ Free \notin enabled

FrameInv ==
  /\ isr.at \in {"out", "enter", "run", "leave"}
  /\ isr = [at |-> isr.at, irq |-> isr.irq, traced |-> isr.traced]
  /\ silent \subseteq untraced
  /\ FramesPairUp

IqInv == IqType /\ IqCalls /\ NumberInv /\ PlicInv /\ MatrixInv /\ FrameInv

\* What a caller's step leaves in its record, and in the others'.
LEMMA CallMoves ==
  ASSUME call \in CallType, NEW c \in IrqCallers, NEW place \in Places,
         call' = [call EXCEPT ![c].at = place]
  PROVE  /\ call' \in CallType /\ call'[c].at = place /\ call'[c].irq = call[c].irq
         /\ call'[c].word = call[c].word /\ call'[c].prio = call[c].prio
         /\ \A d \in IrqCallers : d # c => call'[d] = call[d]
BY DEF CallType

LEMMA CallBegins ==
  ASSUME call \in CallType, NEW c \in IrqCallers, NEW place \in Places, NEW i \in Int,
         call' = [call EXCEPT ![c].at = place, ![c].irq = i]
  PROVE  /\ call' \in CallType /\ call'[c].at = place /\ call'[c].irq = i
         /\ call'[c].word = call[c].word /\ call'[c].prio = call[c].prio
         /\ \A d \in IrqCallers : d # c => call'[d] = call[d]
BY DEF CallType

LEMMA CallReads ==
  ASSUME call \in CallType, NEW c \in IrqCallers, NEW place \in Places, NEW w \in SUBSET Int,
         call' = [call EXCEPT ![c].at = place, ![c].word = w]
  PROVE  /\ call' \in CallType /\ call'[c].at = place /\ call'[c].irq = call[c].irq
         /\ call'[c].word = w /\ call'[c].prio = call[c].prio
         /\ \A d \in IrqCallers : d # c => call'[d] = call[d]
BY DEF CallType

LEMMA CallClaims ==
  ASSUME call \in CallType, NEW c \in IrqCallers, NEW place \in Places, NEW i \in Int,
         NEW w \in SUBSET Int, call' = [call EXCEPT ![c].at = place, ![c].irq = i, ![c].word = w]
  PROVE  /\ call' \in CallType /\ call'[c].at = place /\ call'[c].irq = i
         /\ call'[c].word = w /\ call'[c].prio = call[c].prio
         /\ \A d \in IrqCallers : d # c => call'[d] = call[d]
BY DEF CallType

LEMMA CallPrio ==
  ASSUME call \in CallType, NEW c \in IrqCallers, NEW w \in Priorities, "prio" \in Places,
         call' = [call EXCEPT ![c].at = "prio", ![c].prio = w]
  PROVE  /\ call' \in CallType /\ call'[c].at = "prio"
         /\ \A d \in IrqCallers : d # c => call'[d] = call[d]
<1>1. call[c] = [at |-> call[c].at, irq |-> call[c].irq, word |-> call[c].word,
                 prio |-> call[c].prio]
  BY DEF CallType
<1>2. call'[c] = [at |-> "prio", irq |-> call[c].irq, word |-> call[c].word, prio |-> w]
  BY <1>1 DEF CallType
<1>3. \A d \in IrqCallers : d # c => call'[d] = call[d] BY DEF CallType
<1>4. \A d \in IrqCallers :
        call'[d] \in [at : Places, irq : Int, word : SUBSET Int, prio : Priorities]
  BY <1>2, <1>3 DEF CallType
<1>5. call' = [d \in IrqCallers |-> call'[d]] BY DEF CallType
<1> QED BY <1>2, <1>3, <1>4, <1>5 DEF CallType

\* Every nonempty set of numbers has a smallest one.
LEMMA LeastExists ==
  ASSUME NEW S \in SUBSET Nat, S # {}
  PROVE  \E l \in S : \A k \in S : l <= k
<1>1. PICK l \in S : \A k \in S : ~ (<<k, l>> \in OpToRel(<, Nat))
  <2> HIDE DEF OpToRel
  <2> QED BY NatLessThanWellFounded, WFMin
<1>2. ASSUME NEW k \in S PROVE l <= k
  <2>1. k < l => <<k, l>> \in OpToRel(<, Nat)
    BY DEF OpToRel
  <2>2. ~ (k < l) BY <1>1, <2>1, Zenon
  <2> QED BY <2>2
<1> QED BY <1>2

\* irq_line_for finds the number's own line, or a free one, or none.
LEMMA LineForFinds ==
  ASSUME InterruptsAsBuilt, IqType, NEW i \in Irqs
  PROVE  /\ LineFor(i) # Free =>
              /\ LineFor(i) \in IrqLines /\ lineOf[LineFor(i)] \in {i, Free}
              /\ lineOf[LineFor(i)] = Free => \A l \in IrqLines : lineOf[l] # i
         /\ LineFor(i) = Free => \A l \in IrqLines : lineOf[l] # i
<1> DEFINE own == {l \in IrqLines : lineOf[l] = i}
           free == {l \in IrqLines : lineOf[l] = Free}
<1>1. ASSUME NEW S \in SUBSET Nat, S # {} PROVE (CHOOSE l \in S : \A k \in S : l <= k) \in S
  BY <1>1, LeastExists
<1>2. own \in SUBSET Nat /\ free \in SUBSET Nat
  BY DEF InterruptsAsBuilt
<1>3. LineFor(i) = IF own # {} THEN CHOOSE l \in own : \A k \in own : l <= k
                   ELSE IF free # {} THEN CHOOSE l \in free : \A k \in free : l <= k ELSE Free
  BY DEF LineFor
<1>4. \/ own # {} /\ LineFor(i) \in own
      \/ own = {} /\ free # {} /\ LineFor(i) \in free
      \/ own = {} /\ LineFor(i) = Free
  <2> HIDE DEF own, free
  <2> QED BY <1>1, <1>2, <1>3
<1>5. i # Free /\ Free \notin IrqLines BY DEF InterruptsAsBuilt, Free
<1> QED BY <1>4, <1>5

LEMMA IqInitInv == ASSUME InterruptsAsBuilt, IqInit PROVE IqInv
<1> USE DEF InterruptsAsBuilt, IqInit
<1>1. IqType BY DEF IqType, CallType, Places, Priorities
<1>2. \A c \in IrqCallers : call[c].at = "out" OBVIOUS
<1>3. IqCalls /\ PlicInv BY <1>2 DEF IqCalls, PlicInv, Busy
<1>4. NumberInv /\ MatrixInv BY <1>2 DEF NumberInv, MatrixInv, LinesInv, Free
<1>5. FrameInv BY DEF FrameInv, FramesPairUp
<1> QED BY <1>1, <1>3, <1>4, <1>5 DEF IqInv

\* A step that neither begins nor ends an enable or a disable, and leaves the
\* intc alone, ...
LEMMA QuietCalls ==
  ASSUME IqInv, UNCHANGED <<intc, enabled, matrix, on>>, call' \in CallType,
         \A d \in IrqCallers :
           call'[d] = call[d] \/ ( /\ call[d].at \in {"out", "untrace", "retrace", "prio"}
                                  /\ call'[d].at \in {"out", "untrace", "retrace", "prio"})
  PROVE  IqCalls' /\ NumberInv' /\ PlicInv' /\ MatrixInv'
<1>1. \A d \in IrqCallers : Busy(d)' <=> Busy(d)
  BY DEF Busy
<1>2. \A d \in IrqCallers : Busy(d) => call'[d] = call[d]
  BY DEF Busy
<1>3. \A d \in IrqCallers : \A i \in Irqs : Owns(d, i) => Owns(d, i)'
  BY <1>1, <1>2 DEF Owns
<1>4. UNCHANGED <<lineOf, routed, mie, configured>> BY DEF matrix
<1> USE DEF IqInv
<1>5. IqCalls' BY <1>1, <1>2 DEF IqCalls, Atomic
<1>6. NumberInv' BY <1>3, <1>4 DEF NumberInv, Matrixed
<1>7. PlicInv' BY DEF PlicInv
<1>8. MatrixInv' BY <1>3, <1>4 DEF MatrixInv, LinesInv, Matrixed
<1> QED BY <1>5, <1>6, <1>7, <1>8

\* ... or the frames alone, since nothing is being dispatched.
LEMMA QuietFrames ==
  ASSUME FrameInv, isr.at = "out", UNCHANGED <<isr, frames>>, silent' \subseteq untraced'
  PROVE  FrameInv'
BY DEF FrameInv, FramesPairUp

\* The steps of a caller that touch the table of handlers.
LEMMA TableSteps ==
  ASSUME InterruptsAsBuilt, IqInv, NEW c \in IrqCallers, NEW i,
         \/ i \in Irqs /\ (RegisterIrq(c, i) \/ RegisterUntracedIrq(c, i) \/ UnregisterIrq(c, i))
         \/ SetUntraced(c)
  PROVE  IqInv'
<1>i. (i \in Irqs => i \in Int) /\ isr.at = "out"
  BY DEF InterruptsAsBuilt, RegisterIrq, RegisterUntracedIrq, UnregisterIrq, SetUntraced, Idle, Step
<1>t. call \in CallType /\ {"out", "untrace", "retrace"} \subseteq Places
  BY DEF IqInv, IqType, Places
<1>1. /\ UNCHANGED <<intc, bits, matrix, isr, frames, on>> /\ silent' \subseteq untraced'
  BY DEF IqInv, FrameInv, RegisterIrq, RegisterUntracedIrq, UnregisterIrq, SetUntraced, asked
<1>2. /\ call' \in CallType
      /\ \A d \in IrqCallers :
           call'[d] = call[d] \/ ( /\ call[d].at \in {"out", "untrace", "retrace", "prio"}
                                  /\ call'[d].at \in {"out", "untrace", "retrace", "prio"})
  <2>1. CASE i \in Irqs /\ RegisterIrq(c, i)
    BY <1>t, <2>1 DEF RegisterIrq
  <2>2. CASE i \in Irqs /\ RegisterUntracedIrq(c, i)
    <3>1. call' = [call EXCEPT ![c].at = "untrace", ![c].irq = i] /\ call[c].at = "out" /\ i \in Irqs
      BY <2>2 DEF RegisterUntracedIrq, Idle
    <3>2. "untrace" \in Places BY <1>t
    <3> QED BY ONLY <1>i, <1>t, <3>1, <3>2, CallBegins
  <2>3. CASE i \in Irqs /\ UnregisterIrq(c, i)
    <3>1. call' = [call EXCEPT ![c].at = "retrace", ![c].irq = i] /\ call[c].at = "out" /\ i \in Irqs
      BY <2>3 DEF UnregisterIrq, Idle
    <3>2. "retrace" \in Places BY <1>t
    <3> QED BY ONLY <1>i, <1>t, <3>1, <3>2, CallBegins
  <2>4. CASE SetUntraced(c)
    <3>1. call' = [call EXCEPT ![c].at = "out"] /\ call[c].at \in {"untrace", "retrace"}
      BY <2>4 DEF SetUntraced, Step
    <3>2. "out" \in Places BY <1>t
    <3> QED BY ONLY <1>t, <3>1, <3>2, CallMoves
  <2> QED BY <2>1, <2>2, <2>3, <2>4
<1>3. enabled' = enabled /\ priority' = priority BY <1>1 DEF bits
<1>4. IqCalls' /\ NumberInv' /\ PlicInv' /\ MatrixInv'
  BY <1>1, <1>2, <1>3, QuietCalls
<1>5. FrameInv' BY <1>i, <1>1, QuietFrames DEF IqInv
<1>6. IqType' BY <1>1, <1>2, <1>3 DEF IqInv, IqType, matrix
<1> QED BY <1>4, <1>5, <1>6 DEF IqInv

\* The steps of a caller that touch a priority alone.
LEMMA PrioritySteps ==
  ASSUME InterruptsAsBuilt, IqInv, NEW c \in IrqCallers, NEW i, NEW p,
         \/ i \in Irqs /\ p \in {0, 255} /\ (SetPriority(c, i, p) \/ ReadPriorities(c, i, p))
         \/ WritePriorities(c)
  PROVE  IqInv'
<1>i. (i \in Irqs => i \in Int) /\ isr.at = "out"
  BY DEF InterruptsAsBuilt, SetPriority, ReadPriorities, WritePriorities, MayCall, Idle, Step
<1>t. call \in CallType /\ {"out", "prio"} \subseteq Places /\ priority \in Priorities
  BY DEF IqInv, IqType, Places
<1>1. /\ UNCHANGED <<intc, enabled, matrix, isr, frames, on, silent, untraced>>
      /\ silent' \subseteq untraced'
  BY DEF IqInv, FrameInv, SetPriority, ReadPriorities, WritePriorities, asked, table, bits
<1>2. /\ call' \in CallType /\ priority' \in Priorities
      /\ \A d \in IrqCallers :
           call'[d] = call[d] \/ ( /\ call[d].at \in {"out", "untrace", "retrace", "prio"}
                                  /\ call'[d].at \in {"out", "untrace", "retrace", "prio"})
  <2>1. CASE i \in Irqs /\ p \in {0, 255} /\ SetPriority(c, i, p)
    BY <1>t, <2>1 DEF SetPriority, Priorities
  <2>2. CASE i \in Irqs /\ p \in {0, 255} /\ ReadPriorities(c, i, p)
    <3>1. /\ call' = [call EXCEPT ![c].at = "prio", ![c].prio = [priority EXCEPT ![i] = p]]
          /\ call[c].at = "out" /\ priority' = priority
      BY <2>2 DEF ReadPriorities, MayCall, Idle, bits
    <3>2. [priority EXCEPT ![i] = p] \in Priorities BY <1>t, <2>2 DEF Priorities
    <3>3. call' \in CallType /\ call'[c].at = "prio" /\ \A d \in IrqCallers : d # c => call'[d] = call[d]
      <4>1. "prio" \in Places /\ call \in CallType BY <1>t
      <4>2. PICK w \in Priorities : call' = [call EXCEPT ![c].at = "prio", ![c].prio = w]
        BY <3>1, <3>2, Zenon
      <4> QED BY ONLY <4>1, <4>2, CallPrio
    <3> QED BY <1>t, <3>1, <3>3
  <2>3. CASE WritePriorities(c)
    <3>1. call' = [call EXCEPT ![c].at = "out"] /\ call[c].at = "prio" /\ priority' = call[c].prio
      BY <2>3 DEF WritePriorities, Step
    <3>2. call[c].prio \in Priorities BY <1>t DEF CallType
    <3>3. "out" \in Places BY <1>t
    <3>4. /\ call' \in CallType /\ call'[c].at = "out"
          /\ \A d \in IrqCallers : d # c => call'[d] = call[d]
      <4>1. call \in CallType /\ call' = [call EXCEPT ![c].at = "out"] BY <1>t, <3>1
      <4> QED BY <3>3, <4>1 DEF CallType
    <3> QED BY ONLY <3>1, <3>2, <3>4
  <2> QED BY <2>1, <2>2, <2>3
<1>4. IqCalls' /\ NumberInv' /\ PlicInv' /\ MatrixInv'
  BY <1>1, <1>2, QuietCalls
<1>5. FrameInv' BY <1>i, <1>1, QuietFrames DEF IqInv
<1>6. IqType' BY <1>1, <1>2 DEF IqInv, IqType, matrix
<1> QED BY <1>4, <1>5, <1>6 DEF IqInv

\* An interrupt is raised and dispatched.
LEMMA DispatchSteps ==
  ASSUME IqInv,
         \/ \E i \in Irqs : Raise(i) \/ DispatchNvic(i) \/ DispatchPlic(i) \/ DispatchLine(i)
         \/ EnterFrame \/ RunHandler \/ LeaveFrame
  PROVE  IqInv'
<1>1. UNCHANGED <<intc, bits, matrix, call, on>>
  BY DEF Raise, DispatchNvic, DispatchPlic, DispatchLine, EnterFrame, RunHandler, LeaveFrame, asked
<1>2. enabled' = enabled /\ priority' = priority BY <1>1 DEF bits
<1>3. IqType' BY <1>1, <1>2 DEF IqInv, IqType, matrix
<1>4. IqCalls' /\ NumberInv' /\ PlicInv' /\ MatrixInv'
  BY <1>1, <1>2, <1>3, QuietCalls DEF IqType
<1>5. FrameInv'
  <2>f. FrameInv BY DEF IqInv
  <2> USE <2>f DEF FrameInv, FramesPairUp
  <2>1. ASSUME NEW i \in Irqs, Raise(i) PROVE FrameInv'
    BY <2>1 DEF Raise, table, asked
  <2>2. ASSUME NEW j, isr.at = "out", Lookup(j), UNCHANGED <<table, frames, asked>> PROVE FrameInv'
    BY <2>2 DEF Lookup, table, asked
  <2>3. ASSUME NEW i \in Irqs, DispatchNvic(i) \/ DispatchPlic(i) PROVE FrameInv'
    BY <2>2, <2>3 DEF DispatchNvic, DispatchPlic
  <2>4. ASSUME NEW i \in Irqs, DispatchLine(i) PROVE FrameInv'
    <3>1. CASE lineOf[routed[i]] = Free
      BY <2>4, <3>1 DEF DispatchLine, table, asked
    <3>2. CASE lineOf[routed[i]] # Free
      BY <2>2, <2>4, <3>2 DEF DispatchLine
    <3> QED BY <3>1, <3>2
  <2>5. CASE EnterFrame BY <2>5 DEF EnterFrame, table, asked
  <2>6. CASE RunHandler BY <2>6 DEF RunHandler, table
  <2>7. CASE LeaveFrame BY <2>7 DEF LeaveFrame, table, asked
  <2> QED BY <2>1, <2>3, <2>4, <2>5, <2>6, <2>7
<1> QED BY <1>3, <1>4, <1>5 DEF IqInv

\* enable and disable over a controller with one bit for each number.
LEMMA BeginStep ==
  ASSUME InterruptsAsBuilt, IqInv, NEW c \in IrqCallers, NEW i \in Irqs,
         NEW op \in {"enable", "disable"}, Begin(c, i, op)
  PROVE  IqInv'
<1>1. /\ ~Matrixed /\ isr.at = "out" /\ call[c].at = "out" /\ on' = on \ {i}
      /\ Atomic \/ \A k \in IrqCallers : call[k].at = "out"
      /\ UNCHANGED <<intc, enabled, priority, lineOf, routed, mie, configured>>
      /\ UNCHANGED <<isr, frames, silent, untraced>>
  BY DEF Begin, MayCall, Idle, bits, matrix, table
<1>2. /\ call' \in CallType /\ call'[c].at = op /\ call'[c].irq = i
      /\ \A d \in IrqCallers : d # c => call'[d] = call[d]
  <2>1. op \in Places /\ i \in Int BY DEF Places, InterruptsAsBuilt
  <2>2. call \in CallType /\ call' = [call EXCEPT ![c].at = op, ![c].irq = i]
    BY DEF Begin, IqInv, IqType
  <2> QED BY <2>1, <2>2 DEF CallType
<1>3. \A d \in IrqCallers : Busy(d)' <=> d = c \/ Busy(d) BY <1>1, <1>2 DEF Busy
<1>4. IqCalls' BY <1>1, <1>2, <1>3 DEF IqInv, IqCalls, Atomic, Busy
<1>5. NumberInv'
  <2> SUFFICES ASSUME NEW j \in Irqs, j \in enabled, j \notin on'
               PROVE  \E d \in IrqCallers : Owns(d, j)'
    BY <1>1 DEF IqInv, NumberInv
  <2>1. CASE j = i BY <1>2, <1>3, <2>1 DEF Owns
  <2>2. CASE j # i
    <3>1. PICK d \in IrqCallers : Owns(d, j) BY <1>1, <2>2 DEF IqInv, NumberInv
    <3>2. d # c BY <1>1, <3>1 DEF Owns, Busy
    <3> QED BY <1>2, <1>3, <3>1, <3>2 DEF Owns
  <2> QED BY <2>1, <2>2
<1>6. PlicInv' BY <1>1, <1>2 DEF IqInv, PlicInv
<1>7. MatrixInv' BY <1>1 DEF MatrixInv, Matrixed
<1>8. FrameInv' BY <1>1, QuietFrames DEF IqInv, FrameInv
<1>9. IqType' BY <1>1, <1>2 DEF IqInv, IqType
<1> QED BY <1>4, <1>5, <1>6, <1>7, <1>8, <1>9 DEF IqInv

\* The bit of an NVIC.
LEMMA SetBitStep == ASSUME InterruptsAsBuilt, IqInv, NEW c \in IrqCallers, SetBit(c) PROVE IqInv'
<1> DEFINE i == call[c].irq
<1>1. /\ Atomic /\ isr.at = "out" /\ call[c].at \in {"enable", "disable"}
      /\ call[c].at = "enable" => enabled' = enabled \cup {i} /\ on' = on \cup {i}
      /\ call[c].at = "disable" => enabled' = enabled \ {i} /\ on' = on \ {i}
      /\ UNCHANGED <<intc, priority, lineOf, routed, mie, configured>>
      /\ UNCHANGED <<isr, frames, silent, untraced>>
  BY DEF SetBit, Step, matrix, table
<1>2. /\ call' \in CallType /\ call'[c].at = "out"
      /\ \A d \in IrqCallers : d # c => call'[d] = call[d]
  <2>1. "out" \in Places BY DEF Places
  <2>2. call \in CallType /\ call' = [call EXCEPT ![c].at = "out"]
    BY DEF SetBit, Step, IqInv, IqType
  <2> QED BY ONLY <2>1, <2>2, CallMoves
<1>3. \A d \in IrqCallers : Busy(d)' <=> d # c /\ Busy(d) BY <1>2 DEF Busy
<1>i. i \in Irqs /\ i \in Int
  <2>1. Busy(c) => i \in Irqs BY DEF IqInv, IqCalls
  <2>2. Irqs \subseteq Int BY DEF InterruptsAsBuilt
  <2> QED BY <1>1, <2>1, <2>2 DEF Busy
<1>4. IqCalls' BY <1>1, <1>2, <1>3 DEF IqInv, IqCalls, Atomic, Busy
<1>5. NumberInv'
  <2> SUFFICES ASSUME NEW j \in Irqs, j \in enabled', j \notin on'
               PROVE  \E d \in IrqCallers : Owns(d, j)'
    BY <1>1 DEF IqInv, NumberInv, Atomic, Matrixed
  <2>1. j # i /\ j \in enabled /\ j \notin on BY <1>1
  <2>2. PICK d \in IrqCallers : Owns(d, j) BY <1>1, <2>1 DEF IqInv, NumberInv, Atomic, Matrixed
  <2>3. d # c BY <2>1, <2>2 DEF Owns
  <2> QED BY <1>2, <1>3, <2>2, <2>3 DEF Owns
<1>6. PlicInv' BY <1>1 DEF PlicInv, Atomic
<1>7. MatrixInv' BY <1>1 DEF MatrixInv, Matrixed, Atomic
<1>8. FrameInv' BY <1>1, QuietFrames DEF IqInv, FrameInv
<1>9. IqType' BY <1>1, <1>2, <1>i DEF IqInv, IqType
<1> QED BY <1>4, <1>5, <1>6, <1>7, <1>8, <1>9 DEF IqInv

\* The PLIC's register is read, with its callers one after another, ...
LEMMA PlicReadStep ==
  ASSUME InterruptsAsBuilt, IqInv, NEW c \in IrqCallers, PlicRead(c) PROVE IqInv'
<1> DEFINE i == call[c].irq
<1>1. /\ intc = "plic" /\ isr.at = "out" /\ call[c].at \in {"enable", "disable"}
      /\ UNCHANGED <<intc, enabled, lineOf, routed, mie, configured, on>>
      /\ UNCHANGED <<isr, frames, silent, untraced>>
  BY DEF PlicRead, ReadWord, matrix, table, asked
<1>i. i \in Irqs /\ i \in Int /\ enabled \subseteq Int
  <2>1. (Busy(c) => i \in Irqs) /\ enabled \subseteq Int BY DEF IqInv, IqCalls, IqType
  <2>2. Irqs \subseteq Int BY DEF InterruptsAsBuilt
  <2> QED BY <1>1, <2>1, <2>2 DEF Busy
<1>2. /\ call' \in CallType /\ call'[c].irq = i
      /\ \/ call'[c].at = "on" /\ call'[c].word = enabled \cup {i}
         \/ call'[c].at = "off" /\ call'[c].word = enabled \ {i}
      /\ \A d \in IrqCallers : d # c => call'[d] = call[d]
  <2>1. PICK place \in {"on", "off"}, w \in SUBSET Int :
          /\ call' = [call EXCEPT ![c].at = place, ![c].word = w]
          /\ \/ place = "on" /\ w = enabled \cup {i}
             \/ place = "off" /\ w = enabled \ {i}
    <3>1. CASE call[c].at = "enable"
      <4>1. call' = [call EXCEPT ![c].at = "on", ![c].word = enabled \cup {i}]
        BY <3>1 DEF PlicRead, ReadWord, Word, IqInv, IqType, CallType
      <4> QED BY <1>i, <4>1
    <3>2. CASE call[c].at = "disable"
      <4>1. call' = [call EXCEPT ![c].at = "off", ![c].word = enabled \ {i}]
        BY <3>2 DEF PlicRead, ReadWord, Word, IqInv, IqType, CallType
      <4> QED BY <1>i, <4>1
    <3> QED BY <1>1, <3>1, <3>2
  <2>2. place \in Places /\ call \in CallType BY DEF Places, IqInv, IqType
  <2>3. call' = [call EXCEPT ![c].at = place, ![c].word = w] BY <2>1
  <2>4. /\ call' \in CallType /\ call'[c].at = place /\ call'[c].irq = i /\ call'[c].word = w
        /\ \A d \in IrqCallers : d # c => call'[d] = call[d]
    BY <2>2, <2>3 DEF CallType
  <2> QED BY <2>1, <2>4
<1>p. priority' \in Priorities
  BY <1>i DEF PlicRead, IqInv, IqType, Priorities
<1>3. \A d \in IrqCallers : Busy(d)' <=> Busy(d) BY <1>1, <1>2 DEF Busy
<1>o. \A d \in IrqCallers : d # c => ~Busy(d) BY <1>1 DEF IqInv, IqCalls, Busy, Atomic
<1>4. IqCalls' BY <1>1, <1>2, <1>3 DEF IqInv, IqCalls, Atomic
<1>5. NumberInv' BY <1>1, <1>2, <1>3 DEF IqInv, NumberInv, Matrixed, Owns
<1>6. PlicInv' BY <1>1, <1>2, <1>o DEF PlicInv, Busy
<1>7. MatrixInv' BY <1>1 DEF MatrixInv, Matrixed
<1>8. FrameInv' BY <1>1, QuietFrames DEF IqInv, FrameInv
<1>9. IqType' BY <1>1, <1>2, <1>p DEF IqInv, IqType
<1> QED BY <1>4, <1>5, <1>6, <1>7, <1>8, <1>9 DEF IqInv

\* ... and written back with the caller's own bit changed.
LEMMA PlicWriteStep ==
  ASSUME InterruptsAsBuilt, IqInv, NEW c \in IrqCallers, PlicWrite(c) PROVE IqInv'
<1> DEFINE i == call[c].irq
<1>1. /\ intc = "plic" /\ isr.at = "out"
      /\ \/ call[c].at = "on" /\ on' = on \cup {i} /\ enabled' = enabled \cup {i}
         \/ call[c].at = "off" /\ on' = on \ {i} /\ enabled' = enabled \ {i}
      /\ UNCHANGED <<intc, priority, lineOf, routed, mie, configured>>
      /\ UNCHANGED <<isr, frames, silent, untraced>>
  BY DEF PlicWrite, Step, matrix, table, IqInv, PlicInv
<1>i. i \in Irqs /\ i \in Int
  <2>1. Busy(c) => i \in Irqs BY DEF IqInv, IqCalls
  <2>2. Irqs \subseteq Int BY DEF InterruptsAsBuilt
  <2> QED BY <1>1, <2>1, <2>2 DEF Busy
<1>2. /\ call' \in CallType /\ call'[c].at = "out"
      /\ \A d \in IrqCallers : d # c => call'[d] = call[d]
  <2>1. "out" \in Places BY DEF Places
  <2>2. call \in CallType /\ call' = [call EXCEPT ![c].at = "out"]
    BY DEF PlicWrite, Step, IqInv, IqType
  <2> QED BY ONLY <2>1, <2>2, CallMoves
<1>o. \A d \in IrqCallers : d # c => ~Busy(d) BY <1>1 DEF IqInv, IqCalls, Busy, Atomic
<1>3. \A d \in IrqCallers : ~Busy(d)' BY <1>2, <1>o DEF Busy
<1>4. IqCalls' BY <1>1, <1>3 DEF IqCalls, Atomic, Busy
<1>5. NumberInv'
  <2> SUFFICES ASSUME NEW j \in Irqs, j \in enabled', j \notin on' PROVE FALSE
    BY <1>1 DEF IqInv, NumberInv, Matrixed
  <2>1. j # i /\ j \in enabled /\ j \notin on BY <1>1
  <2>2. PICK d \in IrqCallers : Owns(d, j) BY <1>1, <2>1 DEF IqInv, NumberInv, Matrixed
  <2> QED BY <1>o, <2>1, <2>2 DEF Owns
<1>6. PlicInv' BY <1>3 DEF PlicInv, Busy
<1>7. MatrixInv' BY <1>1 DEF MatrixInv, Matrixed
<1>8. FrameInv' BY <1>1, QuietFrames DEF IqInv, FrameInv
<1>9. IqType' BY <1>1, <1>2, <1>i DEF IqInv, IqType
<1> QED BY <1>4, <1>5, <1>6, <1>7, <1>8, <1>9 DEF IqInv

\* A line that a number claims is its own from then on, and nobody else's.
LEMMA ClaimKeepsLines ==
  ASSUME InterruptsAsBuilt, IqType, LinesInv, NEW i \in Irqs, LineFor(i) # Free,
         lineOf' = [lineOf EXCEPT ![LineFor(i)] = i], routed' = routed
  PROVE  /\ LinesInv' /\ lineOf' \in [IrqLines -> Irqs \cup {Free}]
         /\ lineOf'[LineFor(i)] = i
<1>1. PICK won \in IrqLines : won = LineFor(i) BY LineForFinds
<1>2. /\ lineOf[won] \in {i, Free}
      /\ lineOf[won] = Free => \A l \in IrqLines : lineOf[l] # i
  BY <1>1, LineForFinds
<1>3. lineOf \in [IrqLines -> Irqs \cup {Free}] /\ routed \in [Irqs -> IrqLines \cup {Free}]
  BY DEF IqType
<1>4. lineOf' = [lineOf EXCEPT ![won] = i] BY <1>1
<1>5. lineOf'[won] = i /\ \A l \in IrqLines : l # won => lineOf'[l] = lineOf[l]
  BY <1>3, <1>4
<1>6. ASSUME NEW l \in IrqLines, NEW m \in IrqLines, lineOf'[l] = lineOf'[m], lineOf'[l] # Free
      PROVE  l = m
  <2>1. CASE l = won
    <3> SUFFICES ASSUME m # won PROVE FALSE BY <2>1
    <3>1. lineOf[m] = i BY <1>5, <1>6, <2>1
    <3> QED BY <1>2, <1>6, <1>5, <3>1 DEF LinesInv
  <2>2. CASE m = won
    <3> SUFFICES ASSUME l # won PROVE FALSE BY <2>2
    <3>1. lineOf[l] = i BY <1>5, <1>6, <2>2
    <3> QED BY <1>2, <1>6, <1>5, <3>1 DEF LinesInv
  <2>3. CASE l # won /\ m # won BY <1>5, <1>6, <2>3 DEF LinesInv
  <2> QED BY <2>1, <2>2, <2>3
<1>7. ASSUME NEW j \in Irqs, routed[j] # Free PROVE lineOf'[routed[j]] = j
  <2>1. routed[j] \in IrqLines /\ lineOf[routed[j]] = j BY <1>3, <1>7 DEF LinesInv
  <2>2. j # Free BY DEF InterruptsAsBuilt, Free
  <2>3. CASE routed[j] = won
    <3>1. lineOf[won] = j BY <2>1, <2>3
    <3>2. i = j BY <1>2, <2>2, <3>1
    <3> QED BY <1>5, <2>3, <3>2
  <2>4. CASE routed[j] # won BY <1>5, <2>1, <2>4
  <2> QED BY <2>3, <2>4
<1>8. LinesInv' BY <1>6, <1>7 DEF LinesInv
<1>9. lineOf' \in [IrqLines -> Irqs \cup {Free}] BY <1>3, <1>4
<1> QED BY <1>1, <1>5, <1>8, <1>9

\* A priority of the matrix, with nobody enabling or disabling.
LEMMA LinePriorityStep ==
  ASSUME InterruptsAsBuilt, IqInv, NEW c \in IrqCallers, NEW i \in Irqs, NEW p \in {0, 255},
         SetLinePriority(c, i, p)
  PROVE  IqInv'
<1>1. /\ Matrixed /\ isr.at = "out" /\ \A k \in IrqCallers : call[k].at = "out"
      /\ lineOf' = [lineOf EXCEPT ![LineFor(i)] = i] /\ LineFor(i) # Free
      /\ UNCHANGED <<intc, enabled, routed, mie, configured, call, on>>
      /\ UNCHANGED <<isr, frames, silent, untraced>>
  BY DEF SetLinePriority, MayCall, Idle, Matrixed, Atomic, table, asked
<1>2. LinesInv' /\ lineOf' \in [IrqLines -> Irqs \cup {Free}]
  BY <1>1, ClaimKeepsLines DEF IqInv, MatrixInv
<1>3. priority' \in Priorities
  BY DEF SetLinePriority, IqInv, IqType, Priorities
<1>4. \A d \in IrqCallers : ~Busy(d) /\ ~Busy(d)' BY <1>1 DEF Busy
<1>5. IqCalls' /\ NumberInv' /\ PlicInv'
  BY <1>1, <1>4 DEF IqCalls, NumberInv, PlicInv, Matrixed, Atomic, Busy
<1>6. MatrixInv'
  BY <1>1, <1>2, <1>4 DEF IqInv, MatrixInv, Matrixed, Owns, Busy
<1>7. FrameInv' BY <1>1, QuietFrames DEF IqInv, FrameInv
<1>8. IqType' BY <1>1, <1>2, <1>3 DEF IqInv, IqType
<1> QED BY <1>5, <1>6, <1>7, <1>8 DEF IqInv

\* An enable or a disable claims the number's line.
LEMMA ClaimStep ==
  ASSUME InterruptsAsBuilt, IqInv, NEW c \in IrqCallers, NEW i \in Irqs,
         NEW op \in {"enable", "disable"}, ClaimLine(c, i, op)
  PROVE  IqInv'
<1> DEFINE won == LineFor(i)
           gone == won = Free \/ (op = "enable" /\ i \notin Sources)
<1>1. /\ Matrixed /\ isr.at = "out" /\ \A k \in IrqCallers : call[k].at = "out"
      /\ on' = on \ {i}
      /\ lineOf' = IF won = Free THEN lineOf ELSE [lineOf EXCEPT ![won] = i]
      /\ UNCHANGED <<intc, priority, routed, isr, frames, silent, untraced>>
  BY DEF ClaimLine, MayCall, Idle, Matrixed, Atomic, table
<1>2. /\ enabled' \in {enabled, enabled \cup KernelLines} /\ mie' \in {mie, mie \cup KernelLines}
      /\ configured' => KernelLines \subseteq enabled' /\ KernelLines \subseteq mie'
  BY <1>1 DEF ClaimLine, Configured, IqInv, MatrixInv
<1>3. LinesInv' /\ lineOf' \in [IrqLines -> Irqs \cup {Free}] /\ (won # Free => lineOf'[won] = i)
  <2>1. CASE won = Free BY <1>1, <2>1 DEF IqInv, IqType, MatrixInv, LinesInv
  <2>2. CASE won # Free BY <1>1, <2>2, ClaimKeepsLines DEF IqInv, MatrixInv
  <2> QED BY <2>1, <2>2
<1>4. /\ call' \in CallType
      /\ \A d \in IrqCallers : d # c => call'[d] = call[d]
      /\ gone => call' = call
      /\ ~gone => call'[c].at = op /\ call'[c].irq = i /\ call'[c].word = {won} /\ won \in IrqLines
  <2>1. CASE gone BY <2>1 DEF ClaimLine, IqInv, IqType
  <2>2. CASE ~gone
    <3>1. won \in IrqLines BY <2>2, LineForFinds DEF IqInv
    <3>2. op \in Places /\ i \in Int /\ {won} \in SUBSET Int
      <4>1. op \in Places BY DEF Places
      <4>2. Irqs \subseteq Int /\ IrqLines \subseteq Int BY DEF InterruptsAsBuilt
      <4> HIDE DEF won
      <4> QED BY <3>1, <4>1, <4>2
    <3>3. PICK w \in SUBSET Int : w = {won} BY <3>2
    <3>4. call \in CallType /\ call' = [call EXCEPT ![c].at = op, ![c].irq = i, ![c].word = w]
      BY <2>2, <3>3 DEF ClaimLine, IqInv, IqType
    <3>5. /\ call' \in CallType /\ call'[c].at = op /\ call'[c].irq = i /\ call'[c].word = w
          /\ \A d \in IrqCallers : d # c => call'[d] = call[d]
      BY ONLY <3>2, <3>4, c \in IrqCallers DEF CallType
    <3> QED BY <2>2, <3>1, <3>3, <3>5
  <2> QED BY <2>1, <2>2
<1>5. \A d \in IrqCallers : Busy(d)' => d = c BY <1>1, <1>4 DEF Busy
<1>6. IqCalls'
  BY <1>1, <1>4, <1>5 DEF IqCalls, Atomic, Matrixed, Busy
<1>7. NumberInv' /\ PlicInv' BY <1>1 DEF NumberInv, PlicInv, Matrixed
<1>8. ASSUME NEW j \in Irqs, routed[j] # Free, routed[j] \in enabled' \cap mie', j \notin on'
      PROVE  \E d \in IrqCallers : Owns(d, j)'
  <2>1. routed[j] \in IrqLines BY <1>8 DEF IqInv, IqType
  <2>2. routed[j] \in enabled \cap mie BY <1>2, <1>8, <2>1 DEF InterruptsAsBuilt
  <2>3. \A d \in IrqCallers : ~Owns(d, j) BY <1>1 DEF Owns, Busy
  <2>4. j \in on BY <1>1, <1>8, <2>2, <2>3 DEF IqInv, MatrixInv
  <2>5. j = i BY <1>1, <1>8, <2>4
  <2>6. lineOf[routed[j]] = i /\ j \in Sources BY <1>1, <1>8, <2>5 DEF IqInv, MatrixInv, LinesInv
  <2>7. won # Free BY <2>1, <2>6, LineForFinds DEF IqInv
  <2>8. ~gone BY <2>5, <2>6, <2>7
  <2> QED BY <1>4, <2>5, <2>8 DEF Owns, Busy
<1>9. ASSUME NEW j \in Irqs, j \in on' PROVE routed[j] # Free /\ routed[j] \in enabled' \cap mie'
  BY <1>1, <1>2, <1>9 DEF IqInv, MatrixInv
<1>10. Free \notin enabled'
  BY <1>1, <1>2 DEF IqInv, MatrixInv, KernelLines, Free
<1>11. ASSUME NEW d \in IrqCallers
       PROVE  /\ call'[d].at = "enable" => call'[d].irq \in Sources
              /\ call'[d].at \in {"enable", "disable"} =>
                   \E l \in IrqLines : lineOf'[l] = call'[d].irq /\ call'[d].word = {l}
              /\ call'[d].at \notin {"on", "off"}
  BY <1>1, <1>3, <1>4
<1>12. MatrixInv'
  <2>1. \A j \in Irqs : routed[j] # Free => j \in Sources BY <1>1 DEF IqInv, MatrixInv
  <2> QED BY <1>1, <1>2, <1>3, <1>8, <1>9, <1>10, <1>11, <2>1 DEF MatrixInv
<1>13. FrameInv' BY <1>1, QuietFrames DEF IqInv, FrameInv
<1>14. IqType' BY <1>1, <1>2, <1>3, <1>4 DEF IqInv, IqType, KernelLines
<1> QED BY <1>6, <1>7, <1>12, <1>13, <1>14 DEF IqInv

\* The number's line is read with the register it is in, and the matrix routed, ...
LEMMA MatrixReadStep ==
  ASSUME InterruptsAsBuilt, IqInv, NEW c \in IrqCallers, MatrixRead(c) PROVE IqInv'
<1> DEFINE i == call[c].irq
<1>1. /\ Matrixed /\ isr.at = "out" /\ call[c].at \in {"enable", "disable"}
      /\ UNCHANGED <<intc, enabled, lineOf, mie, configured, on>>
      /\ UNCHANGED <<isr, frames, silent, untraced>>
  BY DEF MatrixRead, ReadWord, table, asked
<1>i. i \in Irqs /\ i \notin on /\ enabled \subseteq Int
  <2>1. enabled \subseteq Int /\ Busy(c) BY <1>1 DEF IqInv, IqType, Busy
  <2> QED BY <1>1, <2>1 DEF IqInv, IqCalls, Matrixed, Atomic
<1>l. PICK l \in IrqLines : lineOf[l] = i /\ call[c].word = {l}
  BY <1>1 DEF IqInv, MatrixInv
<1> DEFINE found == CHOOSE x \in call[c].word : TRUE
<1>c. found = l BY <1>l
<1> HIDE DEF found
<1>2. /\ call' \in CallType /\ call'[c].irq = i
      /\ \/ call[c].at = "enable" /\ call'[c].at = "on" /\ call'[c].word = enabled \cup {l}
         \/ call[c].at = "disable" /\ call'[c].at = "off" /\ call'[c].word = enabled \ {l}
      /\ \A d \in IrqCallers : d # c => call'[d] = call[d]
  <2>i. l \in Int BY DEF InterruptsAsBuilt
  <2>r. ReadWord(c, found) BY DEF MatrixRead, found
  <2>0. l \in Int /\ ReadWord(c, l) BY <1>c, <2>i, <2>r
  <2>1. PICK place \in {"on", "off"}, w \in SUBSET Int :
          /\ call' = [call EXCEPT ![c].at = place, ![c].word = w]
          /\ \/ call[c].at = "enable" /\ place = "on" /\ w = enabled \cup {l}
             \/ call[c].at = "disable" /\ place = "off" /\ w = enabled \ {l}
    <3>1. CASE call[c].at = "enable"
      <4>1. call' = [call EXCEPT ![c].at = "on", ![c].word = enabled \cup {l}]
        BY <2>0, <3>1 DEF ReadWord, Word, IqInv, IqType, CallType
      <4> QED BY <1>i, <2>0, <3>1, <4>1
    <3>2. CASE call[c].at = "disable"
      <4>1. call' = [call EXCEPT ![c].at = "off", ![c].word = enabled \ {l}]
        BY <2>0, <3>2 DEF ReadWord, Word, IqInv, IqType, CallType
      <4> QED BY <1>i, <2>0, <3>2, <4>1
    <3> QED BY <1>1, <3>1, <3>2
  <2>2. place \in Places /\ call \in CallType BY DEF Places, IqInv, IqType
  <2>3. call' = [call EXCEPT ![c].at = place, ![c].word = w] BY <2>1
  <2>4. /\ call' \in CallType /\ call'[c].at = place /\ call'[c].irq = i /\ call'[c].word = w
        /\ \A d \in IrqCallers : d # c => call'[d] = call[d]
    BY <2>2, <2>3 DEF CallType
  <2> QED BY <2>1, <2>4
<1>r. /\ routed' = IF call[c].at = "enable" THEN [routed EXCEPT ![i] = l] ELSE routed
      /\ priority' \in Priorities
  <2>1. /\ routed' = IF call[c].at = "enable"
                     THEN [routed EXCEPT ![i] = found] ELSE routed
        /\ priority' = IF call[c].at = "enable" THEN [priority EXCEPT ![i] = 4] ELSE priority
    BY DEF MatrixRead, found
  <2>2. priority \in Priorities BY DEF IqInv, IqType
  <2>3. priority' \in Priorities BY <1>i, <2>1, <2>2 DEF Priorities
  <2>4. routed' = IF call[c].at = "enable" THEN [routed EXCEPT ![i] = l] ELSE routed
    BY <1>c, <2>1
  <2> QED BY <2>3, <2>4, Zenon
<1>t. routed \in [Irqs -> IrqLines \cup {Free}] BY DEF IqInv, IqType
<1>3. \A d \in IrqCallers : Busy(d)' <=> Busy(d) BY <1>1, <1>2 DEF Busy
<1>o. \A d \in IrqCallers : d # c => ~Busy(d)
  BY <1>1 DEF IqInv, IqCalls, Busy, Matrixed, Atomic
<1>4. IqCalls' BY <1>1, <1>2, <1>3 DEF IqInv, IqCalls, Matrixed, Atomic
<1>5. NumberInv' /\ PlicInv' BY <1>1 DEF NumberInv, PlicInv, Matrixed
<1>6. \A j \in Irqs : j # i => routed'[j] = routed[j]
  BY <1>i, <1>r, <1>t
<1>7. \/ routed'[i] = l /\ call[c].at = "enable"
      \/ routed' = routed /\ call[c].at = "disable"
  BY <1>1, <1>i, <1>r, <1>t
<1>f. l # Free BY DEF InterruptsAsBuilt, Free
<1>8. LinesInv'
  <2>1. \A j \in Irqs : routed'[j] # Free => lineOf[routed'[j]] = j
    BY <1>1, <1>l, <1>6, <1>7 DEF IqInv, MatrixInv, LinesInv
  <2> QED BY <1>1, <2>1 DEF IqInv, MatrixInv, LinesInv
<1>9. ASSUME NEW j \in Irqs, routed'[j] # Free, routed'[j] \in enabled \cap mie, j \notin on
      PROVE  \E d \in IrqCallers : Owns(d, j)'
  <2>1. CASE j = i BY <1>1, <1>2, <1>3, <2>1 DEF Owns, Busy
  <2>2. CASE j # i
    <3>1. PICK d \in IrqCallers : Owns(d, j) BY <1>1, <1>6, <1>9, <2>2 DEF IqInv, MatrixInv
    <3> QED BY <1>o, <2>2, <3>1 DEF Owns
  <2> QED BY <2>1, <2>2
<1>10. ASSUME NEW j \in Irqs
       PROVE  /\ j \in on => routed'[j] # Free /\ routed'[j] \in enabled \cap mie
              /\ routed'[j] # Free => j \in Sources
  <2>1. CASE j = i BY <1>1, <1>i, <1>7, <2>1 DEF IqInv, MatrixInv
  <2>2. CASE j # i BY <1>1, <1>6, <2>2 DEF IqInv, MatrixInv
  <2> QED BY <2>1, <2>2
<1>11. ASSUME NEW d \in IrqCallers
       PROVE  /\ call'[d].at \notin {"enable", "disable"}
              /\ call'[d].at = "on" => routed'[call'[d].irq] # Free
                                      /\ call'[d].word = enabled \cup {routed'[call'[d].irq]}
              /\ call'[d].at = "off" =>
                   \E m \in IrqLines : lineOf[m] = call'[d].irq /\ call'[d].word = enabled \ {m}
  <2>1. CASE d = c BY <1>l, <1>f, <1>2, <1>7, <2>1
  <2>2. CASE d # c BY <1>2, <1>o, <2>2 DEF Busy
  <2> QED BY <2>1, <2>2
<1>12. MatrixInv'
  <2>1. (configured => KernelLines \subseteq enabled /\ KernelLines \subseteq mie) /\ Free \notin enabled
    BY <1>1 DEF IqInv, MatrixInv
  <2> QED BY <1>1, <1>8, <1>9, <1>10, <1>11, <2>1 DEF MatrixInv
<1>13. FrameInv' BY <1>1, QuietFrames DEF IqInv, FrameInv
<1>14. routed' \in [Irqs -> IrqLines \cup {Free}] BY <1>r, <1>t
<1>15. IqType' BY <1>1, <1>2, <1>r, <1>14 DEF IqInv, IqType
<1> QED BY <1>4, <1>5, <1>12, <1>13, <1>15 DEF IqInv

\* ... and the register written back.
LEMMA MatrixWriteStep ==
  ASSUME InterruptsAsBuilt, IqInv, NEW c \in IrqCallers, MatrixWrite(c) PROVE IqInv'
<1> DEFINE i == call[c].irq
<1>1. /\ Matrixed /\ isr.at = "out" /\ call[c].at \in {"on", "off"} /\ enabled' = call[c].word
      /\ call[c].at = "on" => mie' = mie \cup {routed[i]} /\ on' = on \cup {i}
      /\ call[c].at = "off" => mie' = mie /\ on' = on \ {i}
      /\ UNCHANGED <<intc, priority, lineOf, routed, configured>>
      /\ UNCHANGED <<isr, frames, silent, untraced>>
  BY DEF MatrixWrite, Step, table
<1>i. i \in Irqs /\ i \notin on
  BY <1>1 DEF IqInv, IqCalls, Matrixed, Atomic, Busy
<1>t. routed \in [Irqs -> IrqLines \cup {Free}] BY DEF IqInv, IqType
<1>l. PICK l \in IrqLines :
        /\ lineOf[l] = i
        /\ \/ call[c].at = "on" /\ enabled' = enabled \cup {l} /\ routed[i] = l /\ mie' = mie \cup {l}
           \/ call[c].at = "off" /\ enabled' = enabled \ {l} /\ mie' = mie
  <2>1. CASE call[c].at = "on"
    <3>1. routed[i] # Free /\ call[c].word = enabled \cup {routed[i]}
      BY <1>1, <2>1 DEF IqInv, MatrixInv
    <3>2. routed[i] \in IrqLines /\ lineOf[routed[i]] = i
      BY <1>1, <1>i, <1>t, <3>1 DEF IqInv, MatrixInv, LinesInv
    <3> QED BY <1>1, <2>1, <3>1, <3>2
  <2>2. CASE call[c].at = "off"
    <3>1. PICK m \in IrqLines : lineOf[m] = i /\ call[c].word = enabled \ {m}
      BY <1>1, <2>2 DEF IqInv, MatrixInv
    <3> QED BY <1>1, <2>2, <3>1
  <2> QED BY <1>1, <2>1, <2>2
<1>2. /\ call' \in CallType /\ call'[c].at = "out"
      /\ \A d \in IrqCallers : d # c => call'[d] = call[d]
  <2>1. "out" \in Places BY DEF Places
  <2>2. call \in CallType /\ call' = [call EXCEPT ![c].at = "out"]
    BY DEF MatrixWrite, Step, IqInv, IqType
  <2> QED BY ONLY <2>1, <2>2, CallMoves
<1>o. \A d \in IrqCallers : d # c => ~Busy(d)
  BY <1>1 DEF IqInv, IqCalls, Busy, Matrixed, Atomic
<1>3. \A d \in IrqCallers : ~Busy(d)' BY <1>2, <1>o DEF Busy
<1>4. IqCalls' BY <1>1, <1>3 DEF IqCalls, Matrixed, Atomic, Busy
<1>5. NumberInv' /\ PlicInv' BY <1>1 DEF NumberInv, PlicInv, Matrixed
<1>6. \A j \in Irqs : routed[j] = l => j = i
  <2>1. l # Free BY DEF InterruptsAsBuilt, Free
  <2> QED BY <1>1, <1>l, <2>1 DEF IqInv, MatrixInv, LinesInv
<1>7. l \notin KernelLines /\ l # Free BY DEF InterruptsAsBuilt, Free
<1>8. ASSUME NEW j \in Irqs
      PROVE  /\ j \in on' => routed[j] # Free /\ routed[j] \in enabled' \cap mie'
             /\ routed[j] # Free /\ routed[j] \in enabled' \cap mie' => j \in on'
  <2>1. CASE j = i
    <3>1. CASE call[c].at = "on" BY <1>1, <1>l, <1>7, <2>1, <3>1
    <3>2. CASE call[c].at = "off"
      <4>0. i # Free BY <1>i DEF InterruptsAsBuilt, Free
      <4>1. routed[i] # Free => routed[i] = l
        BY <1>1, <1>i, <1>t, <1>l, <4>0 DEF IqInv, MatrixInv, LinesInv
      <4> QED BY <1>1, <1>l, <2>1, <3>2, <4>1
    <3> QED BY <1>1, <3>1, <3>2
  <2>2. CASE j # i
    <3>1. routed[j] # l /\ (j \in on' <=> j \in on) BY <1>1, <1>6, <2>2
    <3>2. routed[j] \in enabled' \cap mie' <=> routed[j] \in enabled \cap mie BY <1>l, <3>1
    <3>3. j \in on => routed[j] # Free /\ routed[j] \in enabled \cap mie
      BY <1>1 DEF IqInv, MatrixInv
    <3>4. ASSUME routed[j] # Free, routed[j] \in enabled \cap mie, j \notin on PROVE FALSE
      <4>1. PICK d \in IrqCallers : Owns(d, j) BY <1>1, <3>4 DEF IqInv, MatrixInv
      <4> QED BY <1>o, <2>2, <4>1 DEF Owns
    <3> QED BY <3>1, <3>2, <3>3, <3>4
  <2> QED BY <2>1, <2>2
<1>9. MatrixInv'
  <2>1. LinesInv' BY <1>1 DEF IqInv, MatrixInv, LinesInv
  <2>2. \A j \in Irqs : routed[j] # Free => j \in Sources BY <1>1 DEF IqInv, MatrixInv
  <2>3. configured => KernelLines \subseteq enabled' /\ KernelLines \subseteq mie'
    BY <1>1, <1>l, <1>7 DEF IqInv, MatrixInv
  <2>4. Free \notin enabled' BY <1>1, <1>l, <1>7 DEF IqInv, MatrixInv
  <2> QED BY <1>1, <1>3, <1>8, <2>1, <2>2, <2>3, <2>4 DEF MatrixInv, Busy
<1>10. FrameInv' BY <1>1, QuietFrames DEF IqInv, FrameInv
<1>11. enabled' \subseteq Int /\ mie' \subseteq Int
  <2>1. l \in Int BY DEF InterruptsAsBuilt
  <2>2. enabled \subseteq Int /\ mie \subseteq Int BY DEF IqInv, IqType
  <2> QED BY <1>l, <2>1, <2>2
<1>12. IqType' BY <1>1, <1>2, <1>i, <1>11 DEF IqInv, IqType
<1> QED BY <1>4, <1>5, <1>9, <1>10, <1>12 DEF IqInv

LEMMA IqNextInv ==
  ASSUME InterruptsAsBuilt, IqInv, IqStep \/ UNCHANGED irqTable PROVE IqInv'
<1>1. CASE UNCHANGED irqTable
  <2>1. /\ UNCHANGED <<intc, enabled, priority, lineOf, routed, mie, configured>>
        /\ UNCHANGED <<call, isr, frames, silent, untraced, on>>
    BY <1>1 DEF irqTable, table, bits, matrix, asked
  <2>2. IqType' /\ IqCalls' /\ NumberInv' /\ PlicInv'
    BY <2>1 DEF IqInv, IqType, IqCalls, NumberInv, PlicInv, Busy, Owns, Matrixed, Atomic
  <2>3. MatrixInv'
    BY <2>1 DEF IqInv, MatrixInv, LinesInv, Busy, Owns, Matrixed
  <2>4. FrameInv' BY <2>1 DEF IqInv, FrameInv, FramesPairUp
  <2> QED BY <2>2, <2>3, <2>4 DEF IqInv
<1>2. CASE IqStep
  <2>1. ASSUME NEW c \in IrqCallers, NEW i \in Irqs,
               \/ RegisterIrq(c, i) \/ RegisterUntracedIrq(c, i) \/ UnregisterIrq(c, i)
               \/ \E op \in {"enable", "disable"} : Begin(c, i, op) \/ ClaimLine(c, i, op)
               \/ \E p \in {0, 255} :
                    SetPriority(c, i, p) \/ SetLinePriority(c, i, p) \/ ReadPriorities(c, i, p)
        PROVE  IqInv'
    <3>1. CASE RegisterIrq(c, i) \/ RegisterUntracedIrq(c, i) \/ UnregisterIrq(c, i)
      BY <3>1, TableSteps
    <3>2. CASE \E op \in {"enable", "disable"} : Begin(c, i, op) \/ ClaimLine(c, i, op)
      BY <3>2, BeginStep, ClaimStep
    <3>3. ASSUME NEW p \in {0, 255}, SetPriority(c, i, p) \/ ReadPriorities(c, i, p) PROVE IqInv'
      BY <3>3, PrioritySteps
    <3>4. ASSUME NEW p \in {0, 255}, SetLinePriority(c, i, p) PROVE IqInv'
      BY <3>4, LinePriorityStep
    <3> QED BY <2>1, <3>1, <3>2, <3>3, <3>4
  <2>2. ASSUME NEW c \in IrqCallers, SetUntraced(c) \/ SetBit(c) \/ WritePriorities(c)
        PROVE  IqInv'
    <3>1. CASE SetUntraced(c) BY <3>1, TableSteps
    <3>2. CASE SetBit(c) BY <3>2, SetBitStep
    <3>3. CASE WritePriorities(c) BY <3>3, PrioritySteps
    <3> QED BY <2>2, <3>1, <3>2, <3>3
  <2>3. ASSUME NEW c \in IrqCallers, PlicRead(c) \/ PlicWrite(c) \/ MatrixRead(c) \/ MatrixWrite(c)
        PROVE  IqInv'
    BY <2>3, PlicReadStep, PlicWriteStep, MatrixReadStep, MatrixWriteStep
  <2>4. CASE (\E i \in Irqs : Raise(i) \/ DispatchNvic(i) \/ DispatchPlic(i) \/ DispatchLine(i))
             \/ EnterFrame \/ RunHandler \/ LeaveFrame
    BY <2>4, DispatchSteps
  <2> QED BY <1>2, <2>1, <2>2, <2>3, <2>4 DEF IqStep
<1> QED BY <1>1, <1>2

THEOREM IqInvariance == ASSUME InterruptsAsBuilt PROVE DevSpec => []IqInv
<1>1. DevInit => IqInv BY IqInitInv DEF DevInit
<1>2. IqInv /\ [DevNext]_devices => IqInv'
  BY BoardsApart, IqNextInv
<1> QED BY <1>1, <1>2, PTL DEF DevSpec

\* Between calls the controller delivers exactly the interrupts whose last call
\* enabled them, to the numbers that asked for them, whatever the callers'
\* calls and the interrupts came between; and trace frames pair up.
THEOREM InterruptsRouted == ASSUME InterruptsAsBuilt PROVE DevSpec => []InterruptsAreRouted
<1>1. IqInv => InterruptsAreRouted
  <2> SUFFICES ASSUME IqInv, \A c \in IrqCallers : call[c].at = "out"
               PROVE  /\ \A i \in Irqs : i \in on <=> Delivered(i)
                      /\ Matrixed => \A i \in on : lineOf[routed[i]] = i
                      /\ configured => KernelLines \subseteq enabled \cap mie
    BY DEF InterruptsAreRouted, EnablesStick, IqInv, FrameInv
  <2>1. \A c \in IrqCallers, i \in Irqs : ~Owns(c, i) BY DEF Owns, Busy
  <2>2. CASE ~Matrixed
    BY <2>1, <2>2 DEF IqInv, NumberInv, Delivered, Bit
  <2>3. CASE Matrixed
    <3>1. ASSUME NEW i \in Irqs PROVE i \in on <=> Delivered(i)
      BY <2>1, <2>3 DEF IqInv, MatrixInv, Delivered, Bit
    <3>2. ASSUME NEW i \in on PROVE lineOf[routed[i]] = i
      BY <2>3 DEF IqInv, IqType, MatrixInv, LinesInv
    <3> QED BY <2>3, <3>1, <3>2 DEF IqInv, MatrixInv
  <2> QED BY <2>2, <2>3
<1> QED BY <1>1, IqInvariance, PTL

-----------------------------------------------------------------------------
(* The pins.                                                               *)

\* The drivers are those of the five boards, and two pins of a chip with a shared
\* direction register are not reconfigured at the same time.
PinsAsBuilt ==
  /\ Chips \subseteq {"stm32f401", "lm3s6965", "rp2040", "esp32c6", "esp32s3"}
  /\ ~TogetherAllowed

\* Where a pin is: the access it makes next, and the one after it.
One(r) == <<r>>
Two(r, s) == <<r, s>>
NextAccess(p) == IF todo[p] = <<>> THEN "rest" ELSE Head(todo[p])
AtRest(p) == todo[p] = <<>> /\ NextAccess(p) = "rest"
AtLast(p, r) == todo[p] = One(r) /\ NextAccess(p) = r
Before(p, r, s) == todo[p] = Two(r, s) /\ NextAccess(p) = r
Settled(p) == NextAccess(p) \in {"rest", "toggle"}

GpType ==
  /\ chip \in {"stm32f401", "lm3s6965", "rp2040", "esp32c6", "esp32s3"}
  /\ typed \in [Pins -> {"new", "output", "input"}]
  /\ todo = [p \in Pins |-> todo[p]] /\ seen = [p \in Pins |-> seen[p]]

TodoInv(p) ==
  \/ AtRest(p)
  \/ typed[p] = "output" /\ AtLast(p, "toggle")
  \/ /\ chip = "stm32f401" /\ typed[p] # "new"
     /\ \/ AtLast(p, "DIR") \/ AtLast(p, "write DIR")
        \/ typed[p] = "output" /\ (Before(p, "AHB1ENR", "DIR") \/ Before(p, "write AHB1ENR", "DIR"))
  \/ /\ chip = "lm3s6965" /\ typed[p] = "output"
     /\ \/ Before(p, "DIR", "DEN") \/ Before(p, "write DIR", "DEN")
        \/ AtLast(p, "DEN") \/ AtLast(p, "write DEN")
  \/ /\ chip = "lm3s6965" /\ typed[p] = "input"
     /\ AtLast(p, "DIR") \/ AtLast(p, "write DIR")
  \/ /\ chip = "rp2040" /\ typed[p] = "output"
     /\ Before(p, "PAD_OUT", "OE") \/ AtLast(p, "OE")
  \/ chip \in {"esp32c6", "esp32s3"} /\ typed[p] = "output" /\ AtLast(p, "OE")
  \/ /\ chip \in {"rp2040", "esp32c6", "esp32s3"} /\ typed[p] = "input"
     /\ Before(p, "PAD_IN", "OE") \/ AtLast(p, "OE")

\* A word that a pin is about to write back is still the register's, ...
SeenInv(p) ==
  /\ NextAccess(p) = "write AHB1ENR" => seen[p] = clocked
  /\ NextAccess(p) = "write DIR" => seen[p] = output
  /\ NextAccess(p) = "write DEN" => seen[p] = digital
  /\ NextAccess(p) = "toggle" => (p \in seen[p] <=> p \in latch)

\* ... and what a pin has accessed is as its type asks for.
LevelInv(p) ==
  /\ NextAccess(p) \in {"rest", "toggle", "DEN", "write DEN"} => (typed[p] = "output" <=> p \in output)
  /\ chip = "stm32f401" /\ typed[p] # "new" /\ NextAccess(p) \notin {"AHB1ENR", "write AHB1ENR"} =>
       Port(p) \in clocked
  /\ chip = "lm3s6965" /\ (typed[p] = "input" \/ (typed[p] = "output" /\ Settled(p))) =>
       p \in digital
  /\ chip \in {"rp2040", "esp32c6", "esp32s3"} /\ typed[p] = "input" /\ NextAccess(p) \in {"rest", "OE"} =>
       p \in digital
  /\ p \in latch <=> p \in want

PinInv(p) == TodoInv(p) /\ SeenInv(p) /\ LevelInv(p)

LoneInv == SharesDirection => \A p, q \in Pins : ~Settled(p) /\ ~Settled(q) => p = q

GpInv == GpType /\ LoneInv /\ \A p \in Pins : PinInv(p)

LEMMA Accesses ==
  /\ \A r : Head(One(r)) = r /\ Tail(One(r)) = <<>> /\ One(r) # <<>>
  /\ \A r, s : Head(Two(r, s)) = r /\ Tail(Two(r, s)) = One(s) /\ Two(r, s) # <<>>
  /\ \A w, r : [One(r) EXCEPT ![1] = w] = One(w)
  /\ \A w, r, s : [Two(r, s) EXCEPT ![1] = w] = Two(w, s)
<1>1. \A r : Head(One(r)) = r /\ Tail(One(r)) = <<>> /\ One(r) # <<>> BY DEF One
<1>2. \A r, s : Head(Two(r, s)) = r /\ Tail(Two(r, s)) = One(s) BY DEF One, Two
<1>3. \A r, s : Two(r, s) # <<>> BY DEF Two
<1>4. \A w, r : [One(r) EXCEPT ![1] = w] = One(w) BY DEF One
<1>5. \A w, r, s : [Two(r, s) EXCEPT ![1] = w] = Two(w, s) BY DEF Two
<1> QED BY <1>1, <1>2, <1>3, <1>4, <1>5

LEMMA GpInitInv == ASSUME PinsAsBuilt, GpInit PROVE GpInv
<1> USE DEF PinsAsBuilt, GpInit
<1>1. GpType BY DEF GpType
<1>2. \A p \in Pins : typed[p] = "new" /\ AtRest(p) BY DEF AtRest, NextAccess
<1>3. LoneInv BY <1>2 DEF LoneInv, Settled, AtRest
<1>4. ASSUME NEW p \in Pins PROVE PinInv(p)
  BY <1>2 DEF PinInv, TodoInv, SeenInv, LevelInv, Settled, AtRest
<1> QED BY <1>1, <1>3, <1>4 DEF GpInv

\* A pin that others leave alone stays as it is: no two pins of a chip with
\* shared registers are about to write one.
LEMMA OtherPins ==
  ASSUME GpInv, NEW p \in Pins, NEW q \in Pins, q # p, chip' = chip,
         typed'[q] = typed[q], todo'[q] = todo[q], seen'[q] = seen[q],
         clocked \subseteq clocked', q \in output' <=> q \in output, q \in digital => q \in digital',
         q \in latch' <=> q \in latch, q \in want' <=> q \in want,
         \/ UNCHANGED <<clocked, output, digital>>
         \/ ~SharesDirection \/ ~Settled(p)
  PROVE  PinInv(q)'
<1>1. PinInv(q) BY DEF GpInv
<1>2. NextAccess(q)' = NextAccess(q) BY DEF NextAccess
<1>w. /\ AtRest(q)' <=> AtRest(q)
      /\ \A r : AtLast(q, r)' <=> AtLast(q, r)
      /\ \A r, t : Before(q, r, t)' <=> Before(q, r, t)
  BY <1>2 DEF AtRest, AtLast, Before
<1>3. TodoInv(q)' BY <1>1, <1>w DEF PinInv, TodoInv
<1>4. LevelInv(q)' BY <1>1, <1>2 DEF PinInv, LevelInv, Settled
<1>5. SeenInv(q)'
  <2>1. CASE UNCHANGED <<clocked, output, digital>>
    BY <1>1, <1>2, <2>1 DEF PinInv, SeenInv
  <2>2. CASE ~SharesDirection \/ ~Settled(p)
    <3>1. NextAccess(q) \notin {"write AHB1ENR", "write DIR", "write DEN"}
      <4>1. CASE ~SharesDirection
        BY <1>1, <4>1 DEF PinInv, TodoInv, AtRest, AtLast, Before, SharesDirection
      <4>2. CASE SharesDirection /\ ~Settled(p)
        <5>1. Settled(q) BY <4>2 DEF GpInv, LoneInv
        <5> QED BY <5>1 DEF Settled
      <4> QED BY <2>2, <4>1, <4>2
    <3> QED BY <1>1, <1>2, <3>1 DEF PinInv, SeenInv
  <2> QED BY <2>1, <2>2
<1> QED BY <1>3, <1>4, <1>5 DEF PinInv

\* What a pin's step leaves of the tables it is in.
LEMMA PinMoves ==
  ASSUME GpInv, NEW p \in Pins, NEW t, todo' = [todo EXCEPT ![p] = t]
  PROVE  /\ todo'[p] = t /\ todo' = [q \in Pins |-> todo'[q]]
         /\ \A q \in Pins : q # p => todo'[q] = todo[q]
<1>1. todo = [q \in Pins |-> todo[q]] BY DEF GpInv, GpType
<1>2. todo' = [q \in Pins |-> IF q = p THEN t ELSE todo[q]] BY <1>1
<1> QED BY <1>2

LEMMA PinReads ==
  ASSUME GpInv, NEW p \in Pins, NEW w, seen' = [seen EXCEPT ![p] = w]
  PROVE  /\ seen'[p] = w /\ seen' = [q \in Pins |-> seen'[q]]
         /\ \A q \in Pins : q # p => seen'[q] = seen[q]
<1>1. seen = [q \in Pins |-> seen[q]] BY DEF GpInv, GpType
<1>2. seen' = [q \in Pins |-> IF q = p THEN w ELSE seen[q]] BY <1>1
<1> QED BY <1>2

LEMMA StaysLone ==
  ASSUME LoneInv, chip' = chip, \A q \in Pins : Settled(q) => Settled(q)'
  PROVE  LoneInv'
BY DEF LoneInv, SharesDirection

LEMMA ReconfigureStep ==
  ASSUME PinsAsBuilt, GpInv, NEW p \in Pins, NEW way \in {"output", "input"}, Reconfigure(p, way)
  PROVE  GpInv'
<1>1. /\ todo[p] = <<>> /\ UNCHANGED <<chip, clocked, output, latch, digital, want, seen>>
      /\ way = "output" => typed[p] \in {"new", "input"}
      /\ way = "input" => typed[p] = "output"
      /\ SharesDirection => \A q \in Pins : todo[q] = <<>>
  BY DEF Reconfigure, Resting, PinsAsBuilt
<1>2. /\ todo'[p] = (IF way = "output" THEN IntoOutput ELSE IntoInput)
      /\ todo' = [q \in Pins |-> todo'[q]]
      /\ \A q \in Pins : q # p => todo'[q] = todo[q]
  <2>1. todo' = [todo EXCEPT ![p] = IF way = "output" THEN IntoOutput ELSE IntoInput]
    BY DEF Reconfigure
  <2> QED BY ONLY <2>1, GpInv, p \in Pins, PinMoves
<1>3. /\ typed' \in [Pins -> {"new", "output", "input"}] /\ typed'[p] = way
      /\ \A q \in Pins : q # p => typed'[q] = typed[q]
  BY DEF Reconfigure, GpInv, GpType
<1>4. GpType' BY <1>1, <1>2, <1>3 DEF GpInv, GpType
<1>5. LoneInv' BY <1>1, <1>2 DEF LoneInv, SharesDirection, Settled, NextAccess
<1>6. ASSUME NEW q \in Pins, q # p PROVE PinInv(q)'
  BY <1>1, <1>2, <1>3, <1>6, OtherPins
<1>7. PinInv(p)'
  <2>c. chip \in {"stm32f401", "lm3s6965", "rp2040", "esp32c6", "esp32s3"} BY DEF GpInv, GpType
  <2>1. /\ chip = "stm32f401" => IntoOutput = Two("AHB1ENR", "DIR") /\ IntoInput = One("DIR")
        /\ chip = "lm3s6965" => IntoOutput = Two("DIR", "DEN") /\ IntoInput = One("DIR")
        /\ chip = "rp2040" => IntoOutput = Two("PAD_OUT", "OE") /\ IntoInput = Two("PAD_IN", "OE")
        /\ chip = "esp32c6" => IntoOutput = One("OE") /\ IntoInput = Two("PAD_IN", "OE")
        /\ chip = "esp32s3" => IntoOutput = One("OE") /\ IntoInput = Two("PAD_IN", "OE")
    BY DEF IntoOutput, IntoInput, One, Two, Stm32_into_output, Stm32_into_input, Lm3s_into_output,
           Lm3s_into_input, Rp2040_into_output, Rp2040_into_input, C6_into_output, C6_into_input,
           S3_into_output, S3_into_input
  <2>2. /\ chip = "stm32f401" => (way = "output" /\ Before(p, "AHB1ENR", "DIR")')
                                 \/ (way = "input" /\ AtLast(p, "DIR")')
        /\ chip = "lm3s6965" => (way = "output" /\ Before(p, "DIR", "DEN")')
                                \/ (way = "input" /\ AtLast(p, "DIR")')
        /\ chip = "rp2040" => (way = "output" /\ Before(p, "PAD_OUT", "OE")')
                              \/ (way = "input" /\ Before(p, "PAD_IN", "OE")')
        /\ chip \in {"esp32c6", "esp32s3"} => (way = "output" /\ AtLast(p, "OE")')
                                              \/ (way = "input" /\ Before(p, "PAD_IN", "OE")')
    BY <1>2, <2>c, <2>1, Accesses DEF Before, AtLast, NextAccess
  <2>3. TodoInv(p)' BY <1>1, <1>3, <2>c, <2>2 DEF TodoInv
  <2>4. SeenInv(p)' BY <2>c, <2>2, <1>1 DEF SeenInv, Before, AtLast
  <2>5. PinInv(p) /\ NextAccess(p) = "rest" BY <1>1 DEF GpInv, NextAccess
  <2>6. LevelInv(p)'
    BY <1>1, <1>3, <2>c, <2>2, <2>5 DEF PinInv, LevelInv, Settled, Before, AtLast
  <2> QED BY <2>3, <2>4, <2>6 DEF PinInv
<1> QED BY <1>4, <1>5, <1>6, <1>7 DEF GpInv

LEMMA ReadStep ==
  ASSUME GpInv, NEW p \in Pins, ReadRegister(p)
  PROVE  GpInv'
<1> DEFINE r == Head(todo[p])
           t == [todo[p] EXCEPT ![1] = WriteBack[r]]
           word == IF r = "AHB1ENR" THEN clocked ELSE IF r = "DIR" THEN output ELSE digital
<1>1. /\ todo[p] # <<>> /\ r \in {"AHB1ENR", "DIR", "DEN"} /\ NextAccess(p) = r
      /\ UNCHANGED <<chip, clocked, output, latch, digital, typed, want>>
  BY DEF ReadRegister, Resting, NextAccess
<1>2. todo'[p] = t /\ todo' = [q \in Pins |-> todo'[q]] /\ \A q \in Pins : q # p => todo'[q] = todo[q]
  <2>0. todo = [q \in Pins |-> todo[q]] BY DEF GpInv, GpType
  <2>1. todo' = [todo EXCEPT ![p] = t]
    BY <2>0 DEF ReadRegister
  <2> QED BY ONLY <2>1, GpInv, p \in Pins, PinMoves
<1>3. seen'[p] = word /\ seen' = [q \in Pins |-> seen'[q]] /\ \A q \in Pins : q # p => seen'[q] = seen[q]
  <2>1. seen' = [seen EXCEPT ![p] = word] BY DEF ReadRegister
  <2> QED BY ONLY <2>1, GpInv, p \in Pins, PinReads
<1>4. GpType' BY <1>1, <1>2, <1>3 DEF GpInv, GpType
<1>5. PinInv(p) BY DEF GpInv
<1>6. \/ chip = "stm32f401" /\ typed[p] = "output" /\ Before(p, "AHB1ENR", "DIR")
      \/ chip = "stm32f401" /\ typed[p] # "new" /\ AtLast(p, "DIR")
      \/ chip = "lm3s6965" /\ typed[p] = "input" /\ AtLast(p, "DIR")
      \/ chip = "lm3s6965" /\ typed[p] = "output" /\ (Before(p, "DIR", "DEN") \/ AtLast(p, "DEN"))
  BY <1>1, <1>5 DEF PinInv, TodoInv, AtRest, AtLast, Before
<1>7. /\ Before(p, "AHB1ENR", "DIR") => Before(p, "write AHB1ENR", "DIR")' /\ seen'[p] = clocked
      /\ AtLast(p, "DIR") => AtLast(p, "write DIR")' /\ seen'[p] = output
      /\ Before(p, "DIR", "DEN") => Before(p, "write DIR", "DEN")' /\ seen'[p] = output
      /\ AtLast(p, "DEN") => AtLast(p, "write DEN")' /\ seen'[p] = digital
  <2>1. r = NextAccess(p) BY <1>1
  <2>w. WriteBack["AHB1ENR"] = "write AHB1ENR" /\ WriteBack["DIR"] = "write DIR"
        /\ WriteBack["DEN"] = "write DEN"
    BY DEF WriteBack
  <2>2. ASSUME Before(p, "AHB1ENR", "DIR")
        PROVE  Before(p, "write AHB1ENR", "DIR")' /\ seen'[p] = clocked
    <3>0. todo[p] = Two("AHB1ENR", "DIR") /\ WriteBack[r] = "write AHB1ENR" BY <2>1, <2>2, <2>w DEF Before
    <3>a. t = [Two("AHB1ENR", "DIR") EXCEPT ![1] = "write AHB1ENR"] BY <3>0
    <3>1. todo'[p] = Two("write AHB1ENR", "DIR")
      <4> HIDE DEF t
      <4> QED BY <1>2, <3>a, Accesses
    <3>2. seen'[p] = clocked BY <1>3, <2>1, <2>2 DEF Before
    <3> QED BY <3>1, <3>2, Accesses DEF Before, NextAccess
  <2>3. ASSUME AtLast(p, "DIR") PROVE AtLast(p, "write DIR")' /\ seen'[p] = output
    <3>0. todo[p] = One("DIR") /\ WriteBack[r] = "write DIR" BY <2>1, <2>3, <2>w DEF AtLast
    <3>a. t = [One("DIR") EXCEPT ![1] = "write DIR"] BY <3>0
    <3>1. todo'[p] = One("write DIR")
      <4> HIDE DEF t
      <4> QED BY <1>2, <3>a, Accesses
    <3>2. seen'[p] = output BY <1>3, <2>1, <2>3 DEF AtLast
    <3> QED BY <3>1, <3>2, Accesses DEF AtLast, NextAccess
  <2>4. ASSUME Before(p, "DIR", "DEN") PROVE Before(p, "write DIR", "DEN")' /\ seen'[p] = output
    <3>0. todo[p] = Two("DIR", "DEN") /\ WriteBack[r] = "write DIR" BY <2>1, <2>4, <2>w DEF Before
    <3>a. t = [Two("DIR", "DEN") EXCEPT ![1] = "write DIR"] BY <3>0
    <3>1. todo'[p] = Two("write DIR", "DEN")
      <4> HIDE DEF t
      <4> QED BY <1>2, <3>a, Accesses
    <3>2. seen'[p] = output BY <1>3, <2>1, <2>4 DEF Before
    <3> QED BY <3>1, <3>2, Accesses DEF Before, NextAccess
  <2>5. ASSUME AtLast(p, "DEN") PROVE AtLast(p, "write DEN")' /\ seen'[p] = digital
    <3>0. todo[p] = One("DEN") /\ WriteBack[r] = "write DEN" BY <2>1, <2>5, <2>w DEF AtLast
    <3>a. t = [One("DEN") EXCEPT ![1] = "write DEN"] BY <3>0
    <3>1. todo'[p] = One("write DEN")
      <4> HIDE DEF t
      <4> QED BY <1>2, <3>a, Accesses
    <3>2. seen'[p] = digital BY <1>3, <2>1, <2>5 DEF AtLast
    <3> QED BY <3>1, <3>2, Accesses DEF AtLast, NextAccess
  <2> QED BY <2>2, <2>3, <2>4, <2>5
<1>8. ~Settled(p) BY <1>1 DEF Settled
<1>9. LoneInv'
  <2>1. \A q \in Pins : Settled(q) => Settled(q)' BY <1>2, <1>8 DEF Settled, NextAccess
  <2> QED BY <1>1, <2>1, StaysLone DEF GpInv
<1>10. ASSUME NEW q \in Pins, q # p PROVE PinInv(q)'
  BY <1>1, <1>2, <1>3, <1>10, OtherPins
<1>11. PinInv(p)'
  <2>3. TodoInv(p)' BY <1>1, <1>6, <1>7 DEF TodoInv
  <2>4. SeenInv(p)' BY <1>1, <1>6, <1>7 DEF SeenInv, Before, AtLast
  <2>5. LevelInv(p)' BY <1>1, <1>5, <1>6, <1>7 DEF PinInv, LevelInv, Settled, Before, AtLast
  <2> QED BY <2>3, <2>4, <2>5 DEF PinInv
<1> QED BY <1>4, <1>9, <1>10, <1>11 DEF GpInv

\* A pin that has made an access comes to the next one.
LEMMA DoneMoves ==
  ASSUME GpInv, NEW p \in Pins, Done(p)
  PROVE  /\ todo' = [q \in Pins |-> todo'[q]] /\ \A q \in Pins : q # p => todo'[q] = todo[q]
         /\ \A r : AtLast(p, r) => AtRest(p)'
         /\ \A r, s : Before(p, r, s) => AtLast(p, s)'
<1>0. todo = [q \in Pins |-> todo[q]] BY DEF GpInv, GpType
<1>1. todo' = [todo EXCEPT ![p] = Tail(todo[p])] BY <1>0 DEF Done
<1>2. /\ todo'[p] = Tail(todo[p]) /\ todo' = [q \in Pins |-> todo'[q]]
      /\ \A q \in Pins : q # p => todo'[q] = todo[q]
  BY ONLY <1>1, GpInv, p \in Pins, PinMoves
<1>3. ASSUME NEW r, AtLast(p, r) PROVE AtRest(p)'
  <2>1. todo'[p] = <<>> BY <1>2, <1>3, Accesses DEF AtLast
  <2> QED BY <2>1 DEF AtRest, NextAccess
<1>4. ASSUME NEW r, NEW s, Before(p, r, s) PROVE AtLast(p, s)'
  <2>1. todo'[p] = One(s) BY <1>2, <1>4, Accesses DEF Before
  <2> QED BY <2>1, Accesses DEF AtLast, NextAccess
<1> QED BY <1>2, <1>3, <1>4

LEMMA WriteStep == ASSUME GpInv, NEW p \in Pins, WriteRegister(p) PROVE GpInv'
<1>1. /\ \/ NextAccess(p) = "write AHB1ENR" /\ clocked' = seen[p] \cup {Port(p)}
              /\ UNCHANGED <<output, digital>>
         \/ /\ NextAccess(p) = "write DIR"
            /\ output' = IF chip = "stm32f401" /\ Port(p) \notin clocked THEN output
                         ELSE IF typed[p] = "output" THEN seen[p] \cup {p} ELSE seen[p] \ {p}
            /\ UNCHANGED <<clocked, digital>>
         \/ NextAccess(p) = "write DEN" /\ digital' = seen[p] \cup {p} /\ UNCHANGED <<clocked, output>>
      /\ UNCHANGED <<chip, latch, typed, want>>
  BY DEF WriteRegister, Resting, NextAccess
<1>2. /\ todo' = [q \in Pins |-> todo'[q]] /\ \A q \in Pins : q # p => todo'[q] = todo[q]
      /\ \A r : AtLast(p, r) => AtRest(p)'
      /\ \A r, s : Before(p, r, s) => AtLast(p, s)'
  <2>1. Done(p) BY DEF WriteRegister
  <2> QED BY ONLY <2>1, GpInv, p \in Pins, DoneMoves
<1>3. seen' = [q \in Pins |-> seen'[q]] /\ \A q \in Pins : q # p => seen'[q] = seen[q]
  <2>1. seen' = [seen EXCEPT ![p] = {}] BY DEF WriteRegister
  <2> QED BY ONLY <2>1, GpInv, p \in Pins, PinReads
<1>4. GpType' BY <1>1, <1>2, <1>3 DEF GpInv, GpType
<1>5. PinInv(p) BY DEF GpInv
<1>6. /\ NextAccess(p) = "write AHB1ENR" => clocked' = clocked \cup {Port(p)}
      /\ NextAccess(p) = "write DEN" => digital' = digital \cup {p}
      /\ NextAccess(p) = "write DIR" => output' = IF typed[p] = "output" THEN output \cup {p} ELSE output \ {p}
  <2>1. NextAccess(p) = "write DIR" => (chip = "stm32f401" /\ typed[p] # "new") \/ chip # "stm32f401"
    BY <1>5 DEF PinInv, TodoInv, AtRest, AtLast, Before
  <2>2. NextAccess(p) = "write DIR" => ~(chip = "stm32f401" /\ Port(p) \notin clocked)
    BY <1>5, <2>1 DEF PinInv, LevelInv
  <2> QED BY <1>1, <1>5, <2>2 DEF PinInv, SeenInv
<1>7. /\ NextAccess(p) = "write AHB1ENR" => /\ chip = "stm32f401" /\ typed[p] = "output"
                                    /\ AtLast(p, "DIR")'
      /\ NextAccess(p) = "write DEN" => chip = "lm3s6965" /\ typed[p] = "output" /\ AtRest(p)'
      /\ NextAccess(p) = "write DIR" =>
           \/ chip = "stm32f401" /\ typed[p] # "new" /\ AtRest(p)'
           \/ chip = "lm3s6965" /\ typed[p] = "input" /\ AtRest(p)'
           \/ chip = "lm3s6965" /\ typed[p] = "output" /\ AtLast(p, "DEN")'
  <2>1. /\ NextAccess(p) = "write AHB1ENR" => chip = "stm32f401" /\ typed[p] = "output"
                                      /\ Before(p, "write AHB1ENR", "DIR")
        /\ NextAccess(p) = "write DEN" => chip = "lm3s6965" /\ typed[p] = "output" /\ AtLast(p, "write DEN")
        /\ NextAccess(p) = "write DIR" =>
             \/ chip = "stm32f401" /\ typed[p] # "new" /\ AtLast(p, "write DIR")
             \/ chip = "lm3s6965" /\ typed[p] = "input" /\ AtLast(p, "write DIR")
             \/ chip = "lm3s6965" /\ typed[p] = "output" /\ Before(p, "write DIR", "DEN")
    BY <1>5 DEF PinInv, TodoInv, AtRest, AtLast, Before
  <2> QED BY <1>2, <2>1
<1>8. ~Settled(p) BY <1>1 DEF Settled
<1>9. LoneInv'
  <2>1. \A q \in Pins : Settled(q) => Settled(q)' BY <1>2, <1>8 DEF Settled, NextAccess
  <2> QED BY <1>1, <2>1, StaysLone DEF GpInv
<1>10. ASSUME NEW q \in Pins, q # p PROVE PinInv(q)'
  BY <1>1, <1>2, <1>3, <1>6, <1>8, <1>10, OtherPins
<1>11. PinInv(p)'
  <2>1. TodoInv(p)' BY <1>1, <1>7 DEF TodoInv
  <2>2. SeenInv(p)' BY <1>1, <1>7 DEF SeenInv, AtRest, AtLast
  <2>3. typed[p] \in {"new", "output", "input"} BY DEF GpInv, GpType
  <2>4. LevelInv(p)'
    BY <1>1, <1>5, <1>6, <1>7, <2>3 DEF PinInv, LevelInv, Settled, AtRest, AtLast
  <2> QED BY <2>1, <2>2, <2>4 DEF PinInv
<1> QED BY <1>4, <1>9, <1>10, <1>11 DEF GpInv

\* The registers of a pin's own, and the ones with an address for each way.
LEMMA OwnStep == ASSUME GpInv, NEW p \in Pins, WritePad(p) \/ WriteEnable(p) PROVE GpInv'
<1>1. /\ \/ NextAccess(p) = "PAD_OUT" /\ digital' = digital \ {p} /\ output' = output
         \/ NextAccess(p) = "PAD_IN" /\ digital' = digital \cup {p} /\ output' = output
         \/ /\ NextAccess(p) = "OE" /\ digital' = digital
            /\ output' = IF typed[p] = "output" THEN output \cup {p} ELSE output \ {p}
      /\ UNCHANGED <<chip, clocked, latch, typed, want, seen>>
  BY DEF WritePad, WriteEnable, Resting, NextAccess
<1>2. /\ todo' = [q \in Pins |-> todo'[q]] /\ \A q \in Pins : q # p => todo'[q] = todo[q]
      /\ \A r : AtLast(p, r) => AtRest(p)'
      /\ \A r, s : Before(p, r, s) => AtLast(p, s)'
  <2>1. Done(p) BY DEF WritePad, WriteEnable
  <2> QED BY ONLY <2>1, GpInv, p \in Pins, DoneMoves
<1>4. GpType' BY <1>1, <1>2 DEF GpInv, GpType
<1>5. PinInv(p) BY DEF GpInv
<1>7. /\ NextAccess(p) = "PAD_OUT" => chip = "rp2040" /\ typed[p] = "output" /\ AtLast(p, "OE")'
      /\ NextAccess(p) = "PAD_IN" => chip \in {"rp2040", "esp32c6", "esp32s3"} /\ typed[p] = "input"
                             /\ AtLast(p, "OE")'
      /\ NextAccess(p) = "OE" => chip \in {"rp2040", "esp32c6", "esp32s3"} /\ typed[p] # "new" /\ AtRest(p)'
  <2>1. /\ NextAccess(p) = "PAD_OUT" => chip = "rp2040" /\ typed[p] = "output" /\ Before(p, "PAD_OUT", "OE")
        /\ NextAccess(p) = "PAD_IN" => chip \in {"rp2040", "esp32c6", "esp32s3"} /\ typed[p] = "input"
                               /\ Before(p, "PAD_IN", "OE")
        /\ NextAccess(p) = "OE" => chip \in {"rp2040", "esp32c6", "esp32s3"} /\ typed[p] # "new"
                           /\ AtLast(p, "OE")
    BY <1>5 DEF PinInv, TodoInv, AtRest, AtLast, Before
  <2> QED BY <1>2, <2>1
<1>8. ~Settled(p) BY <1>1 DEF Settled
<1>9. LoneInv'
  <2>1. \A q \in Pins : Settled(q) => Settled(q)' BY <1>2, <1>8 DEF Settled, NextAccess
  <2> QED BY <1>1, <2>1, StaysLone DEF GpInv
<1>10. ASSUME NEW q \in Pins, q # p PROVE PinInv(q)'
  BY <1>1, <1>2, <1>8, <1>10, OtherPins
<1>11. PinInv(p)'
  <2>3. typed[p] \in {"new", "output", "input"} BY DEF GpInv, GpType
  <2>1. TodoInv(p)' BY <1>1, <1>7, <2>3 DEF TodoInv
  <2>2. SeenInv(p)' BY <1>1, <1>7 DEF SeenInv, AtRest, AtLast
  <2>4. LevelInv(p)'
    BY <1>1, <1>5, <1>7, <2>3 DEF PinInv, LevelInv, Settled, AtRest, AtLast
  <2> QED BY <2>1, <2>2, <2>4 DEF PinInv
<1> QED BY <1>4, <1>9, <1>10, <1>11 DEF GpInv

\* An output takes the level its owner gives it.
LEMMA OutputsTake ==
  ASSUME GpInv, NEW p \in Pins, typed[p] = "output", Settled(p)
  PROVE  Takes(p)
<1>1. LevelInv(p) /\ chip \in {"stm32f401", "lm3s6965", "rp2040", "esp32c6", "esp32s3"}
  BY DEF GpInv, GpType, PinInv
<1> QED BY <1>1 DEF LevelInv, Settled, Takes, Stm32_takes, Lm3s_takes, Rp2040_takes, C6_takes, S3_takes

LEMMA LevelStep ==
  ASSUME GpInv, NEW p \in Pins, NEW up \in BOOLEAN, SetLevel(p, up) \/ Toggle(p) \/ ToggleLevel(p)
  PROVE  GpInv'
<1>0. NextAccess(p) = "rest" \/ NextAccess(p) = "toggle"
  BY DEF SetLevel, Toggle, ToggleLevel, Resting, NextAccess
<1>1. /\ typed[p] = "output" /\ Settled(p)
      /\ UNCHANGED <<chip, clocked, output, digital, typed>>
  <2>1. PinInv(p) BY DEF GpInv
  <2>2. NextAccess(p) = "toggle" => typed[p] = "output"
    BY <2>1 DEF PinInv, TodoInv, AtRest, AtLast, Before
  <2> QED BY <1>0, <2>2 DEF SetLevel, Toggle, ToggleLevel, Resting, NextAccess, Settled
<1>2. /\ \/ latch' = latch /\ want' = want
         \/ latch' = latch \cup {p} /\ want' = want \cup {p}
         \/ latch' = latch \ {p} /\ want' = want \ {p}
  BY <1>1, OutputsTake DEF SetLevel, Toggle, ToggleLevel, Drive
<1>3. /\ todo' = [q \in Pins |-> todo'[q]] /\ \A q \in Pins : q # p => todo'[q] = todo[q]
      /\ \/ AtRest(p)'
         \/ AtLast(p, "toggle")' /\ seen'[p] = latch /\ latch' = latch
      /\ seen' = [q \in Pins |-> seen'[q]] /\ \A q \in Pins : q # p => seen'[q] = seen[q]
  <2>1. CASE SetLevel(p, up)
    <3>1. todo' = todo /\ seen' = seen /\ AtRest(p)
      BY <2>1 DEF SetLevel, Resting, AtRest, NextAccess
    <3> QED BY <3>1 DEF GpInv, GpType, AtRest, NextAccess
  <2>2. CASE Toggle(p)
    <3>1. todo' = [todo EXCEPT ![p] = One("toggle")] /\ seen' = [seen EXCEPT ![p] = latch]
          /\ latch' = latch
      BY <2>2 DEF Toggle, One
    <3>2. /\ todo'[p] = One("toggle") /\ todo' = [q \in Pins |-> todo'[q]]
          /\ \A q \in Pins : q # p => todo'[q] = todo[q]
      BY ONLY <3>1, GpInv, p \in Pins, PinMoves
    <3>3. /\ seen'[p] = latch /\ seen' = [q \in Pins |-> seen'[q]]
          /\ \A q \in Pins : q # p => seen'[q] = seen[q]
      BY ONLY <3>1, GpInv, p \in Pins, PinReads
    <3>4. AtLast(p, "toggle")' BY <3>2, Accesses DEF AtLast, NextAccess
    <3> QED BY <3>1, <3>2, <3>3, <3>4
  <2>3. CASE ToggleLevel(p)
    <3>1. Done(p) /\ seen' = [seen EXCEPT ![p] = {}] /\ NextAccess(p) = "toggle"
      BY <2>3 DEF ToggleLevel, Resting, NextAccess
    <3>2. /\ todo' = [q \in Pins |-> todo'[q]] /\ \A q \in Pins : q # p => todo'[q] = todo[q]
          /\ \A r : AtLast(p, r) => AtRest(p)'
      BY ONLY <3>1, GpInv, p \in Pins, DoneMoves
    <3>3. seen' = [q \in Pins |-> seen'[q]] /\ \A q \in Pins : q # p => seen'[q] = seen[q]
      BY ONLY <3>1, GpInv, p \in Pins, PinReads
    <3>4. AtLast(p, "toggle")
      <4>1. PinInv(p) BY DEF GpInv
      <4> QED BY <3>1, <4>1 DEF PinInv, TodoInv, AtRest, AtLast, Before
    <3> QED BY <3>2, <3>3, <3>4
  <2> QED BY <2>1, <2>2, <2>3
<1>4. GpType' BY <1>1, <1>3 DEF GpInv, GpType
<1>5. PinInv(p) BY DEF GpInv
<1>6. Settled(p)' BY <1>3 DEF Settled, AtRest, AtLast
<1>9. LoneInv'
  <2>1. \A q \in Pins : Settled(q) => Settled(q)' BY <1>3, <1>6 DEF Settled, NextAccess
  <2> QED BY <1>1, <2>1, StaysLone DEF GpInv
<1>10. ASSUME NEW q \in Pins, q # p PROVE PinInv(q)'
  BY <1>1, <1>2, <1>3, <1>10, OtherPins
<1>11. PinInv(p)'
  <2>1. TodoInv(p)' BY <1>1, <1>3 DEF TodoInv
  <2>2. SeenInv(p)' BY <1>1, <1>3 DEF SeenInv, AtRest, AtLast
  <2>3. LevelInv(p)'
    BY <1>0, <1>1, <1>2, <1>5, <1>6 DEF PinInv, LevelInv, Settled
  <2> QED BY <2>1, <2>2, <2>3 DEF PinInv
<1> QED BY <1>4, <1>9, <1>10, <1>11 DEF GpInv

LEMMA GpNextInv == ASSUME PinsAsBuilt, GpInv, GpStep \/ UNCHANGED gpio PROVE GpInv'
<1>1. CASE UNCHANGED gpio
  <2>1. GpType' /\ LoneInv' BY <1>1 DEF gpio, GpInv, GpType, LoneInv, SharesDirection, Settled, NextAccess
  <2>2. ASSUME NEW p \in Pins PROVE PinInv(p)'
    <3>1. NextAccess(p)' = NextAccess(p) BY <1>1 DEF gpio, NextAccess
    <3>2. SeenInv(p)' BY <1>1, <3>1 DEF gpio, GpInv, PinInv, SeenInv
    <3>3. LevelInv(p)' BY <1>1, <3>1 DEF gpio, GpInv, PinInv, LevelInv, Settled
    <3>w. /\ AtRest(p)' <=> AtRest(p)
          /\ \A r : AtLast(p, r)' <=> AtLast(p, r)
          /\ \A r, t : Before(p, r, t)' <=> Before(p, r, t)
      BY <1>1, <3>1 DEF gpio, AtRest, AtLast, Before
    <3>4. TodoInv(p)' BY <1>1, <3>w DEF gpio, GpInv, PinInv, TodoInv
    <3> QED BY <3>2, <3>3, <3>4 DEF PinInv
  <2> QED BY <2>1, <2>2 DEF GpInv
<1>2. CASE GpStep
  BY <1>2, ReconfigureStep, ReadStep, WriteStep, OwnStep, LevelStep DEF GpStep
<1> QED BY <1>1, <1>2

\* A pin that rests has the direction of its type and the level its owner asked
\* for, and can be read when it was made an input.
LEMMA OwnersObeyed == ASSUME GpInv PROVE PinsObeyOwners
<1> SUFFICES ASSUME NEW p \in Pins, Resting(p)
             PROVE  /\ typed[p] = "output" <=> p \in output
                    /\ typed[p] = "output" => (p \in latch <=> p \in want) /\ Takes(p)
                    /\ typed[p] = "input" /\ chip # "stm32f401" => p \in digital
  BY DEF PinsObeyOwners, DirectionIsType
<1>1. NextAccess(p) = "rest" /\ Settled(p) BY DEF Resting, NextAccess, Settled
<1>2. LevelInv(p) /\ chip \in {"stm32f401", "lm3s6965", "rp2040", "esp32c6", "esp32s3"}
  BY DEF GpInv, GpType, PinInv
<1> QED BY <1>1, <1>2, OutputsTake DEF LevelInv

THEOREM GpInvariance == ASSUME PinsAsBuilt PROVE DevSpec => []GpInv
<1>1. DevInit => GpInv BY GpInitInv DEF DevInit
<1>2. GpInv /\ [DevNext]_devices => GpInv' BY BoardsApart, GpNextInv
<1> QED BY <1>1, <1>2, PTL DEF DevSpec

\* Whatever the owners of a port's other pins do between two accesses, a pin at
\* rest has the direction of its type and the level its owner asked for.
THEOREM PinsAreOwned == ASSUME PinsAsBuilt PROVE DevSpec => []PinsObeyOwners
BY GpInvariance, OwnersObeyed, PTL
=============================================================================
