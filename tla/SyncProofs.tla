----------------------------- MODULE SyncProofs -----------------------------
(***************************************************************************)
(* sync::Channel and sync::Semaphore for every ring size and every number  *)
(* of acquirers, releasing harts and priorities, and critical::enter for   *)
(* every number of harts and nesting depth.                                *)
(*                                                                         *)
(* Channel: neither side sleeps through a change it waits for, no slot is  *)
(* read while it is written, and the ring is a bounded queue.  Its         *)
(* inductive invariant adds to the properties                              *)
(*   - Rooms: between its check and the move of its index a side may rely  *)
(*     on the check, because the other side only makes more room;          *)
(*   - Written: the tail slot holds the value when the tail moves over it; *)
(*   - Reachable: a side past its registration is in its waiter slot, or   *)
(*     whoever emptied the slot has the wake in hand.                      *)
(*                                                                         *)
(* Semaphore: no token is invented and no release passes a waiter by.  Its *)
(* inductive invariant adds to the properties                              *)
(*   - Tokens: a remote release() that has not yet stored or counted its   *)
(*     token owes it, and the tokens owed are among those released;        *)
(*   - Scanned: what a remote release() has looked at so far, and whom it  *)
(*     has claimed.                                                        *)
(*                                                                         *)
(* Critical sections: the harts exclude each other and get their interrupt *)
(* mask back.  What makes it inductive is that the nesting counter, the    *)
(* depths the calls in progress have read and the lock's owner are tied    *)
(* together: a hart's i-th call read depth i - 1, its counter is the       *)
(* number of calls that have stored, and it owns the lock from its         *)
(* outermost CAS to its outermost unlock.                                  *)
(***************************************************************************)
EXTENDS Critical, Channel, Semaphore, SequenceTheorems, FiniteSetTheorems,
        WellFoundedInduction, TLAPS

USE ChannelAssumption

\* (i + 1) % N stays in the ring.
LEMMA NextType == \A i \in Slots : next(i) \in Slots
  BY DEF next, Slots

\* Two slots with the same successor are the same slot.
LEMMA NextInjective == \A i, j \in Slots : next(i) = next(j) => i = j
<1> SUFFICES ASSUME NEW i \in Slots, NEW j \in Slots, next(i) = next(j) PROVE i = j
  OBVIOUS
<1>1. ASSUME NEW m \in Slots PROVE next(m) = IF m = N - 1 THEN 0 ELSE m + 1
  BY <1>1 DEF next, Slots
<1> QED BY <1>1 DEF Slots

\* A side relies on its check until it moves its index.
Rooms ==
  /\ spc \in {"write", "publish"} => next(tail) # head
  /\ rpc \in {"read", "publish"} => head # tail

\* A side past its registration is registered, or being woken.
Reachable ==
  /\ rpc = "pending" \/ (rpc = "check" /\ ratt = 2) =>
       recv_waiter \/ "receiver" \in woken \/ spc = "wake"
  /\ spc = "pending" \/ (spc = "check" /\ satt = 2) =>
       send_waiter \/ "sender" \in woken \/ rpc = "wake"

\* The slot at the tail holds the value once it has been written.
Written == spc = "publish" => buffer[tail] = val

ChannelInv == ChannelTypeOK /\ Rooms /\ Written /\ Reachable /\ ReceiverIsWoken /\ SenderIsWoken

\* The invariant holds initially and every step of either side keeps it.
THEOREM ChannelInvariance == ChannelSpec => []ChannelInv
<1>1. ChannelInit => ChannelInv
  <2> SUFFICES ASSUME ChannelInit PROVE ChannelInv
    OBVIOUS
  <2>1. 0 \in Slots
    BY DEF Slots
  <2>2. buffer[0] \in Values
    BY <2>1 DEF ChannelInit
  <2>3. 0 \in 0..2
    OBVIOUS
  <2>4. ChannelTypeOK
    BY <2>1, <2>2, <2>3 DEF ChannelInit, ChannelTypeOK
  <2> QED BY <2>4 DEF ChannelInit, ChannelInv, Rooms, Written, Reachable, ReceiverIsWoken, SenderIsWoken
<1>2. ChannelInv /\ [ChannelNext]_channelvars => ChannelInv'
  <2> SUFFICES ASSUME ChannelInv, [ChannelNext]_channelvars PROVE ChannelInv'
    OBVIOUS
  <2> USE DEF ChannelInv, Reachable, Rooms, Written, ReceiverIsWoken, SenderIsWoken,
              shared, sender, receiver
  <2>t. /\ head \in Slots /\ tail \in Slots
        /\ next(head) \in Slots /\ next(tail) \in Slots
        /\ next(head) = next(tail) => head = tail
    BY NextType, NextInjective DEF ChannelTypeOK
  <2> HIDE DEF next
  <2>a. \A a \in {0, 1} : a \in 0..2 /\ a # 2
    OBVIOUS
  <2>1. ASSUME NEW v \in Values, NEW a \in {0, 1}, SendCall(v, a) PROVE ChannelInv'
    <3>1. ChannelTypeOK'
      BY <2>1, <2>a DEF SendCall, ChannelTypeOK
    <3> QED BY <2>1, <3>1 DEF SendCall
  <2>2. ASSUME NEW a \in {0, 1}, RecvCall(a) PROVE ChannelInv'
    <3>1. ChannelTypeOK'
      BY <2>2, <2>a DEF RecvCall, ChannelTypeOK
    <3> QED BY <2>2, <3>1 DEF RecvCall
  <2>3. CASE SendCheck BY <2>3 DEF SendCheck, ChannelTypeOK
  <2>4. CASE SendWrite BY <2>4 DEF SendWrite, ChannelTypeOK
  <2>5. CASE SendPublish BY <2>5, <2>t DEF SendPublish, ChannelTypeOK
  <2>6. CASE SendSwap BY <2>6 DEF SendSwap, ChannelTypeOK
  <2>7. CASE SendWake BY <2>7 DEF SendWake, ChannelTypeOK
  <2>8. CASE SendDone BY <2>8 DEF SendDone, ChannelTypeOK
  <2>9. CASE SendRegister BY <2>9 DEF SendRegister, ChannelTypeOK
  <2>10. CASE SendPoll BY <2>10 DEF SendPoll, ChannelTypeOK
  <2>11. CASE SendDrop BY <2>11 DEF SendDrop, ChannelTypeOK
  <2>12. CASE RecvCheck BY <2>12 DEF RecvCheck, ChannelTypeOK
  <2>13. CASE RecvRead BY <2>13 DEF RecvRead, ChannelTypeOK
  <2>14. CASE RecvPublish BY <2>14, <2>t DEF RecvPublish, ChannelTypeOK
  <2>15. CASE RecvSwap BY <2>15 DEF RecvSwap, ChannelTypeOK
  <2>16. CASE RecvWake BY <2>16 DEF RecvWake, ChannelTypeOK
  <2>17. CASE RecvDone BY <2>17 DEF RecvDone, ChannelTypeOK
  <2>18. CASE RecvRegister BY <2>18 DEF RecvRegister, ChannelTypeOK
  <2>19. CASE RecvPoll BY <2>19 DEF RecvPoll, ChannelTypeOK
  <2>20. CASE RecvDrop BY <2>20 DEF RecvDrop, ChannelTypeOK
  <2>21. CASE UNCHANGED channelvars BY <2>21 DEF channelvars, ChannelTypeOK
  <2> QED
    BY <2>1, <2>2, <2>3, <2>4, <2>5, <2>6, <2>7, <2>8, <2>9, <2>10, <2>11, <2>12,
       <2>13, <2>14, <2>15, <2>16, <2>17, <2>18, <2>19, <2>20, <2>21
    DEF ChannelNext, SendStep, RecvStep
<1> QED BY <1>1, <1>2, PTL DEF ChannelSpec

\* A receiver pending while there is a value has been woken or is being woken
\* (Recv::poll's check after its registration).
THEOREM NoValueSleptThrough == ChannelSpec => []ReceiverIsWoken
<1>1. ChannelInv => ReceiverIsWoken
  BY DEF ChannelInv
<1> QED BY <1>1, ChannelInvariance, PTL

\* A sender pending while there is room has been woken or is being woken
\* (SendFut::poll's check after its registration).
THEOREM NoRoomSleptThrough == ChannelSpec => []SenderIsWoken
<1>1. ChannelInv => SenderIsWoken
  BY DEF ChannelInv
<1> QED BY <1>1, ChannelInvariance, PTL

\* Neither future of a channel is left pending over what it waits for, whatever
\* the other side does between its check and its registration.
THEOREM NobodySleepsThrough == ChannelSpec => []SidesAreWoken
<1>1. ReceiverIsWoken /\ SenderIsWoken => SidesAreWoken
  BY DEF SidesAreWoken
<1> QED BY <1>1, NoValueSleptThrough, NoRoomSleptThrough, PTL

\* The buffer accesses of try_send and try_recv never meet in one slot.
THEOREM SlotsAreExclusive == ChannelSpec => []NoTornRead
<1>1. ChannelInv => NoTornRead
  BY DEF ChannelInv, Rooms, NoTornRead
<1> QED BY <1>1, ChannelInvariance, PTL

-----------------------------------------------------------------------------
\* The remainders of the sums and differences of two slots.
LEMMA Remainder ==
  ASSUME NEW a \in Int
  PROVE  /\ a \in 0..(N - 1) => a % N = a
         /\ a \in N..(2 * N - 1) => a % N = a - N
         /\ a \in (-N)..(-1) => a % N = a + N
<1>1. a \in 0..(N - 1) => a % N = a
  OBVIOUS
<1>2. a \in N..(2 * N - 1) => a % N = a - N
  OBVIOUS
<1>3. a \in (-N)..(-1) => a % N = a + N
  OBVIOUS
<1> QED BY <1>1, <1>2, <1>3

\* Where the i-th oldest value is, and how many there are.
Place(h, i) == (h + i - 1) % N

LEMMA Positions ==
  ASSUME NEW h \in Slots, NEW i \in 1..N
  PROVE  /\ Place(h, i) \in Slots
         /\ Place(h, i) = IF h + i - 1 < N THEN h + i - 1 ELSE h + i - 1 - N
<1> DEFINE a == h + i - 1
<1>1. a \in 0..(2 * N - 1)
  BY DEF Slots
<1> QED BY <1>1, Remainder DEF Place, Slots

LEMMA Amounts ==
  ASSUME NEW h \in Slots, NEW t \in Slots
  PROVE  /\ (t - h) % N = IF h <= t THEN t - h ELSE t - h + N
         /\ (t - h) % N \in 0..(N - 1)
<1>1. t - h \in (-N)..(N - 1) /\ t - h \in Int
  BY DEF Slots
<1>2. (t - h) % N = IF t - h >= 0 THEN t - h ELSE t - h + N
  BY <1>1, Remainder
<1> QED BY <1>1, <1>2 DEF Slots

LEMMA NextSlot ==
  ASSUME NEW i \in Slots
  PROVE  next(i) = IF i + 1 < N THEN i + 1 ELSE 0
BY Remainder DEF next, Slots

\* The u values from slot h on, as a sequence.
From(b, h, u) == [i \in 1..u |-> b[Place(h, i)]]

Holds(c, b, h, u) ==
  /\ c \in Seq(Values) /\ Len(c) = u
  /\ \A i \in 1..u : c[i] = b[Place(h, i)]

LEMMA FromHolds ==
  ASSUME NEW b \in [Slots -> Values], NEW h \in Slots, NEW u \in 0..(N - 1)
  PROVE  Holds(From(b, h, u), b, h, u)
<1>1. \A i \in 1..u : b[Place(h, i)] \in Values
  BY Positions
<1>2. From(b, h, u) \in [1..u -> Values]
  BY <1>1 DEF From
<1>3. From(b, h, u) \in Seq(Values)
  BY <1>2
<1>4. Len(From(b, h, u)) = u
  BY <1>2, <1>3, LenProperties
<1> QED BY <1>3, <1>4 DEF From, Holds

\* The contents of the ring, before and after a step.
LEMMA ContentsFrom ==
  /\ Contents = From(buffer, head, UsedSlots)
  /\ Contents' = From(buffer', head', UsedSlots')
BY DEF Contents, From, Place

LEMMA ContentsHold ==
  /\ ChannelTypeOK => Holds(Contents, buffer, head, UsedSlots) /\ UsedSlots \in 0..(N - 1)
  /\ ChannelTypeOK' => Holds(Contents', buffer', head', UsedSlots') /\ UsedSlots' \in 0..(N - 1)
<1>1. ASSUME ChannelTypeOK PROVE Holds(Contents, buffer, head, UsedSlots) /\ UsedSlots \in 0..(N - 1)
  <2>1. /\ buffer \in [Slots -> Values] /\ head \in Slots /\ tail \in Slots
        /\ UsedSlots = (tail - head) % N
    BY <1>1 DEF ChannelTypeOK, UsedSlots
  <2>2. UsedSlots \in 0..(N - 1)
    BY <2>1, Amounts
  <2> QED BY <2>1, <2>2, FromHolds, ContentsFrom
<1>2. ASSUME ChannelTypeOK' PROVE Holds(Contents', buffer', head', UsedSlots') /\ UsedSlots' \in 0..(N - 1)
  <2>1. /\ buffer' \in [Slots -> Values] /\ head' \in Slots /\ tail' \in Slots
        /\ UsedSlots' = (tail' - head') % N
    BY <1>2 DEF ChannelTypeOK, UsedSlots
  <2>2. UsedSlots' \in 0..(N - 1)
    BY <2>1, Amounts
  <2> QED BY <2>1, <2>2, FromHolds, ContentsFrom
<1> QED BY <1>1, <1>2

\* A value between its read and the move of the head is the oldest in the ring.
LEMMA QueuedSeq ==
  ASSUME ChannelInv
  PROVE  /\ Queued \in Seq(Values)
         /\ Contents \in Seq(Values) /\ Len(Contents) = UsedSlots /\ UsedSlots \in Nat
         /\ rpc \in {"read", "publish"} => Contents # <<>>
<1>1. /\ Contents \in Seq(Values) /\ Len(Contents) = UsedSlots /\ UsedSlots \in Nat
  BY ContentsHold DEF ChannelInv, Holds
<1>2. rpc \in {"read", "publish"} => UsedSlots > 0
  BY Amounts DEF ChannelInv, Rooms, ChannelTypeOK, Slots, UsedSlots
<1>3. rpc \in {"read", "publish"} => Contents # <<>>
  BY <1>1, <1>2, EmptySeq
<1>4. Queued \in Seq(Values)
  BY <1>1, <1>3, HeadTailProperties DEF Queued
<1> QED BY <1>1, <1>3, <1>4

\* SendPublish appends the value in the tail slot.
LEMMA PublishAppends ==
  ASSUME ChannelInv, SendPublish
  PROVE  Contents' = Append(Contents, val) /\ Len(Contents) < N - 1
<1> USE DEF ChannelInv
<1>1. /\ ChannelTypeOK' /\ next(tail) # head /\ buffer[tail] = val
      /\ buffer' = buffer /\ head' = head /\ tail' = next(tail)
  BY NextType DEF Rooms, Written, SendPublish, ChannelTypeOK, receiver
<1>2. tail' = IF tail + 1 < N THEN tail + 1 ELSE 0
  BY <1>1, NextSlot DEF ChannelTypeOK
<1>3. /\ UsedSlots = IF head <= tail THEN tail - head ELSE tail - head + N
      /\ UsedSlots' = IF head <= tail' THEN tail' - head ELSE tail' - head + N
      /\ UsedSlots \in 0..(N - 1) /\ UsedSlots' \in 0..(N - 1)
  BY <1>1, Amounts DEF ChannelTypeOK, UsedSlots
<1>4. UsedSlots' = UsedSlots + 1 /\ UsedSlots < N - 1
  BY <1>1, <1>2, <1>3 DEF ChannelTypeOK, Slots
<1>5. /\ Contents \in Seq(Values) /\ Len(Contents) = UsedSlots
      /\ \A i \in 1..UsedSlots : Contents[i] = buffer[Place(head, i)]
      /\ Contents' \in Seq(Values) /\ Len(Contents') = UsedSlots'
      /\ \A i \in 1..UsedSlots' : Contents'[i] = buffer[Place(head, i)]
  BY <1>1, ContentsHold DEF Holds
<1>6. Place(head, UsedSlots + 1) = tail
  BY <1>3, <1>4, Positions DEF ChannelTypeOK, Slots
<1> DEFINE a == Append(Contents, val)
<1>7. /\ a \in Seq(Values) /\ Len(a) = UsedSlots + 1
      /\ \A i \in 1..UsedSlots : a[i] = Contents[i]
      /\ a[UsedSlots + 1] = val
  BY <1>5, AppendProperties DEF ChannelTypeOK
<1>8. \A i \in 1..UsedSlots' : Contents'[i] = a[i]
  BY <1>1, <1>3, <1>4, <1>5, <1>6, <1>7
<1> HIDE DEF a
<1>9. Contents' = a
  BY <1>4, <1>5, <1>7, <1>8, SeqEqual
<1> QED BY <1>4, <1>5, <1>9 DEF a

\* SendWrite writes outside of what the ring holds.
LEMMA WriteIsOutside ==
  ASSUME ChannelInv, SendWrite
  PROVE  Contents' = Contents
<1> USE DEF ChannelInv
<1>1. /\ ChannelTypeOK' /\ buffer' = [buffer EXCEPT ![tail] = val]
      /\ head' = head /\ tail' = tail
  BY DEF SendWrite, ChannelTypeOK, receiver
<1>2. UsedSlots = (IF head <= tail THEN tail - head ELSE tail - head + N)
      /\ UsedSlots \in 0..(N - 1)
  BY Amounts DEF ChannelTypeOK, UsedSlots
<1>3. ASSUME NEW i \in 1..UsedSlots PROVE Place(head, i) # tail /\ Place(head, i) \in Slots
  <2>1. i \in 1..N /\ head \in Slots
    BY <1>2 DEF ChannelTypeOK
  <2>2. /\ Place(head, i) \in Slots
        /\ Place(head, i) = IF head + i - 1 < N THEN head + i - 1 ELSE head + i - 1 - N
    BY <2>1, Positions
  <2> QED BY <1>2, <2>1, <2>2 DEF ChannelTypeOK, Slots
<1>4. /\ Contents \in Seq(Values) /\ Len(Contents) = UsedSlots
      /\ \A i \in 1..UsedSlots : Contents[i] = buffer[Place(head, i)]
      /\ Contents' \in Seq(Values) /\ Len(Contents') = UsedSlots
      /\ \A i \in 1..UsedSlots : Contents'[i] = buffer'[Place(head, i)]
  BY <1>1, ContentsHold DEF Holds, UsedSlots
<1>5. \A i \in 1..UsedSlots : Contents'[i] = Contents[i]
  BY <1>1, <1>3, <1>4 DEF ChannelTypeOK
<1> QED BY <1>4, <1>5, SeqEqual

\* RecvPublish drops the oldest value.
LEMMA PublishDrops ==
  ASSUME ChannelInv, RecvPublish
  PROVE  Contents' = Tail(Contents)
<1> USE DEF ChannelInv
<1>1. /\ ChannelTypeOK' /\ head # tail /\ buffer' = buffer
      /\ head' = next(head) /\ tail' = tail
  BY NextType DEF Rooms, RecvPublish, ChannelTypeOK, sender
<1>2. head' = IF head + 1 < N THEN head + 1 ELSE 0
  BY <1>1, NextSlot DEF ChannelTypeOK
<1>3. /\ UsedSlots = IF head <= tail THEN tail - head ELSE tail - head + N
      /\ UsedSlots' = IF head' <= tail THEN tail - head' ELSE tail - head' + N
      /\ UsedSlots \in 0..(N - 1) /\ UsedSlots' \in 0..(N - 1)
  BY <1>1, Amounts DEF ChannelTypeOK, UsedSlots
<1>4. UsedSlots' = UsedSlots - 1
  BY <1>1, <1>2, <1>3 DEF ChannelTypeOK, Slots
<1>5. /\ Contents \in Seq(Values) /\ Len(Contents) = UsedSlots
      /\ \A i \in 1..UsedSlots : Contents[i] = buffer[Place(head, i)]
      /\ Contents' \in Seq(Values) /\ Len(Contents') = UsedSlots'
      /\ \A i \in 1..UsedSlots' : Contents'[i] = buffer[Place(head', i)]
  BY <1>1, ContentsHold DEF Holds
<1>6. Contents # <<>>
  BY <1>3, <1>4, <1>5, EmptySeq
<1> DEFINE a == Tail(Contents)
<1>7. /\ a \in Seq(Values) /\ Len(a) = UsedSlots'
      /\ \A i \in 1..UsedSlots' : a[i] = Contents[i + 1]
  BY <1>3, <1>4, <1>5, <1>6, HeadTailProperties
<1>8. ASSUME NEW i \in 1..UsedSlots' PROVE Place(head', i) = Place(head, i + 1) /\ i + 1 \in 1..UsedSlots
  <2>1. i \in 1..N /\ i + 1 \in 1..N /\ i + 1 \in 1..UsedSlots
    BY <1>3, <1>4
  <2>2. head \in Slots /\ head' \in Slots
    BY <1>1 DEF ChannelTypeOK
  <2>3. Place(head', i) = IF head' + i - 1 < N THEN head' + i - 1 ELSE head' + i - 1 - N
    BY <2>1, <2>2, Positions
  <2>4. Place(head, i + 1) = IF head + i < N THEN head + i ELSE head + i - N
    <3>1. head + (i + 1) - 1 = head + i
      BY <2>1, <2>2 DEF Slots
    <3> QED BY <2>1, <2>2, <3>1, Positions
  <2> QED BY <1>2, <2>1, <2>2, <2>3, <2>4 DEF Slots
<1>9. \A i \in 1..UsedSlots' : Contents'[i] = a[i]
  BY <1>5, <1>7, <1>8
<1> HIDE DEF a
<1>10. Contents' = a
  BY <1>5, <1>7, <1>9, SeqEqual
<1> QED BY <1>10 DEF a

\* The channel is a bounded queue of N - 1 values, for every ring size: a value
\* enters it at SendPublish (Channel::try_send) and leaves it at RecvRead
\* (Channel::try_recv); every other step leaves the queue alone.
THEOREM ChannelIsFifo == ChannelSpec => ImplementsFifo
<1> USE DEF shared, sender, receiver
<1>1. ChannelInit => F!Init
  <2> SUFFICES ASSUME ChannelInit PROVE F!Init
    OBVIOUS
  <2>1. head = 0 /\ tail = 0 /\ 0 \in Slots
    BY DEF ChannelInit, Slots
  <2>2. UsedSlots = 0
    BY <2>1, Amounts DEF UsedSlots
  <2>3. Queued = <<>>
    BY <2>2 DEF ChannelInit, Queued, Contents
  <2>4. val \in Values /\ got \in Values
    BY <2>1 DEF ChannelInit
  <2> QED BY <2>3, <2>4 DEF F!Init
<1>2. ChannelInv /\ [ChannelNext]_channelvars => [F!Call \/ F!Send \/ F!Receive]_<<Queued, val, got>>
  <2> SUFFICES ASSUME ChannelInv, [ChannelNext]_channelvars
               PROVE  F!Call \/ F!Send \/ F!Receive \/ UNCHANGED <<Queued, val, got>>
    OBVIOUS
  <2>q. /\ Queued \in Seq(Values)
        /\ Contents \in Seq(Values) /\ Len(Contents) = UsedSlots /\ UsedSlots \in Nat
        /\ rpc \in {"read", "publish"} => Contents # <<>>
    BY QueuedSeq
  <2>s. UNCHANGED <<buffer, head, tail>> => Contents' = Contents
    BY DEF Contents, UsedSlots
  <2>1. ASSUME NEW v \in Values, NEW a \in {0, 1}, SendCall(v, a) PROVE F!Call
    BY <2>1, <2>s DEF SendCall, F!Call, Queued
  <2>2. CASE SendWrite
    BY <2>2, WriteIsOutside DEF SendWrite, Queued
  <2>3. CASE SendPublish
    <3>1. /\ Contents' = Append(Contents, val) /\ Len(Contents) < N - 1
          /\ rpc' = rpc /\ val' = val /\ got' = got /\ val \in Values
      BY <2>3, PublishAppends DEF SendPublish, ChannelInv, ChannelTypeOK
    <3>2. CASE rpc = "publish"
      <4>1. /\ Queued = Tail(Contents) /\ Queued' = Tail(Contents')
        BY <3>1, <3>2 DEF Queued
      <4>2. Tail(Append(Contents, val)) = Append(Tail(Contents), val)
        BY <2>q, <3>2, HeadTailAppend
      <4>3. Len(Queued) < N - 1
        BY <2>q, <3>1, <3>2, <4>1, HeadTailProperties
      <4> QED BY <3>1, <4>1, <4>2, <4>3 DEF F!Send
    <3>3. CASE rpc # "publish"
      BY <3>1, <3>3 DEF Queued, F!Send
    <3> QED BY <3>2, <3>3
  <2>4. CASE RecvRead
    <3>1. /\ rpc = "read" /\ rpc' = "publish" /\ got' = buffer[head] /\ val' = val
          /\ Contents' = Contents /\ Contents # <<>>
      BY <2>4, <2>q, <2>s DEF RecvRead
    <3>2. Queued = Contents /\ Queued' = Tail(Contents)
      BY <3>1 DEF Queued
    <3>3. Head(Contents) = buffer[head]
      <4>1. head \in Slots /\ Holds(Contents, buffer, head, UsedSlots) /\ UsedSlots # 0
        BY <2>q, <3>1, ContentsHold, EmptySeq DEF ChannelInv, ChannelTypeOK
      <4>2. 1 \in 1..UsedSlots /\ Contents[1] = buffer[Place(head, 1)]
        BY <2>q, <4>1 DEF Holds
      <4>3. Place(head, 1) = head
        BY <4>1, Positions DEF Slots
      <4> QED BY <2>q, <4>2, <4>3
    <3> QED BY <3>1, <3>2, <3>3 DEF F!Receive
  <2>5. CASE RecvPublish
    BY <2>5, PublishDrops DEF RecvPublish, Queued
  <2>6. ASSUME NEW a \in {0, 1}, RecvCall(a) PROVE UNCHANGED <<Queued, val, got>>
    BY <2>6, <2>s DEF RecvCall, Queued
  <2>7. CASE SendCheck \/ SendSwap \/ SendWake \/ SendDone \/ SendRegister
             \/ SendPoll \/ SendDrop
    BY <2>7, <2>s DEF SendCheck, SendSwap, SendWake, SendDone, SendRegister, SendPoll,
                      SendDrop, Queued
  <2>8. CASE RecvCheck \/ RecvSwap \/ RecvWake \/ RecvDone \/ RecvRegister
             \/ RecvPoll \/ RecvDrop
    BY <2>8, <2>s DEF RecvCheck, RecvSwap, RecvWake, RecvDone, RecvRegister, RecvPoll,
                      RecvDrop, Queued
  <2>9. CASE UNCHANGED channelvars
    BY <2>9, <2>s DEF channelvars, Queued
  <2> QED BY <2>1, <2>2, <2>3, <2>4, <2>5, <2>6, <2>7, <2>8, <2>9
          DEF ChannelNext, SendStep, RecvStep
<1> QED BY <1>1, <1>2, ChannelInvariance, PTL DEF ChannelSpec, ImplementsFifo, F!Spec

-----------------------------------------------------------------------------
(***************************************************************************)
(* The semaphore.                                                          *)
(***************************************************************************)
USE SemaphoreAssumption

\* The remote calls that have taken a release but not yet given a token.
InFlight == {r \in Remote : call[r] \in {"scan", "store", "increment"}}

Tokens ==
  /\ IsFiniteSet(InFlight)
  /\ acquired + count + Cardinality(InFlight) <= released

Scanned ==
  \A r \in Remote :
    /\ since[r] \subseteq waiters
    /\ call[r] \in {"scan", "store", "wake"} =>
         \A a \in since[r] : Priority[a] <= callPrio[r]
    /\ call[r] \in {"store", "wake"} =>
         claimed[r] \in Acquirers /\ Priority[claimed[r]] = callPrio[r]
    /\ call[r] = "increment" => since[r] = {}

SemaphoreInv == SemTypeOK /\ Tokens /\ Scanned

-----------------------------------------------------------------------------
\* A set of naturals with an element has a least one.
LEMMA NatMin ==
  ASSUME NEW T, T \subseteq Nat, T # {}
  PROVE  \E m \in T : \A y \in T : m <= y
<1>1. PICK m \in T : \A y \in T : ~ (<<y, m>> \in OpToRel(<, Nat))
  <2> HIDE DEF OpToRel
  <2> QED BY NatLessThanWellFounded, WFMin
<1>2. ASSUME NEW y \in T PROVE m <= y
  <2>1. y < m => <<y, m>> \in OpToRel(<, Nat)
    BY DEF OpToRel
  <2>2. ~ (y < m) BY <1>1, <2>1, Zenon
  <2> QED BY <2>2
<1> QED BY <1>2

\* The waiter a scan claims is one of those of the priority.
LEMMA LeastWaiter ==
  ASSUME SemTypeOK, NEW p, WaitersAt(p) # {}
  PROVE  Least(WaitersAt(p)) \in WaitersAt(p)
<1>1. WaitersAt(p) \subseteq Nat
  BY DEF WaitersAt, SemTypeOK
<1> QED BY <1>1, NatMin DEF Least

\* A handler's release() claims a waiter, if there is one.
LEMMA TopWaiter ==
  ASSUME SemTypeOK, waiters # {}
  PROVE  Least(WaitersAt(TopPriority)) \in waiters
<1> DEFINE T == {MAX_PRIORITY - Priority[a] : a \in waiters}
<1>1. \A a \in waiters : a \in Acquirers /\ Priority[a] \in 0..MAX_PRIORITY
  BY DEF SemTypeOK
<1>2. T \subseteq Nat /\ T # {}
  BY <1>1
<1>3. PICK m \in T : \A y \in T : m <= y
  BY <1>2, NatMin
<1>4. PICK b \in waiters : m = MAX_PRIORITY - Priority[b]
  BY <1>3
<1>5. ASSUME NEW a \in waiters PROVE Priority[a] <= Priority[b]
  <2>1. MAX_PRIORITY - Priority[a] \in T
    OBVIOUS
  <2>2. m <= MAX_PRIORITY - Priority[a]
    BY <1>3, <2>1
  <2> QED BY <1>1, <1>4, <2>2
<1>6. /\ Priority[b] \in 0..MAX_PRIORITY /\ WaitersAt(Priority[b]) # {}
      /\ \A q \in (Priority[b] + 1)..MAX_PRIORITY : WaitersAt(q) = {}
  BY <1>1, <1>5 DEF WaitersAt
<1>7. WaitersAt(TopPriority) # {}
  BY <1>6 DEF TopPriority
<1> QED BY <1>7, LeastWaiter DEF WaitersAt

-----------------------------------------------------------------------------
\* What becomes of the calls in flight: one begins, one ends, or none does.
LEMMA FlightBegins ==
  ASSUME SemTypeOK, Tokens, NEW r \in Remote, call[r] \in {"idle", "wake"},
         NEW s \in {"scan", "store", "increment"}, call' = [call EXCEPT ![r] = s]
  PROVE  IsFiniteSet(InFlight') /\ Cardinality(InFlight') = Cardinality(InFlight) + 1
<1>1. InFlight' = InFlight \cup {r} /\ r \notin InFlight
  BY DEF InFlight, SemTypeOK
<1> QED BY <1>1, FS_AddElement DEF Tokens

LEMMA FlightEnds ==
  ASSUME SemTypeOK, Tokens, NEW r \in Remote, call[r] \in {"scan", "store", "increment"},
         NEW s \in {"idle", "wake"}, call' = [call EXCEPT ![r] = s]
  PROVE  IsFiniteSet(InFlight') /\ Cardinality(InFlight') = Cardinality(InFlight) - 1
<1>1. InFlight' = InFlight \ {r} /\ r \in InFlight
  BY DEF InFlight, SemTypeOK
<1> QED BY <1>1, FS_RemoveElement DEF Tokens

LEMMA FlightGoesOn ==
  ASSUME SemTypeOK, NEW r \in Remote,
         NEW s, (call[r] \in {"scan", "store", "increment"}) = (s \in {"scan", "store", "increment"}),
         call' = [call EXCEPT ![r] = s]
  PROVE  InFlight' = InFlight
BY DEF InFlight, SemTypeOK

-----------------------------------------------------------------------------
\* The types of all but the history.
CodeTypeOK ==
  /\ count \in 0..MAX /\ waiters \subseteq Acquirers
  /\ future \in [Acquirers -> {"idle", "try", "register", "retry", "ready", "pending"}]
  /\ marked \subseteq Acquirers
  /\ call \in [Remote -> {"idle", "scan", "store", "wake", "increment"}]
  /\ callPrio \in [Remote -> 0..MAX_PRIORITY]
  /\ claimed \in [Remote -> Acquirers \cup {NONE}]
  /\ acquired \in Nat /\ released \in 0..RELEASE_BOUND

LEMMA TypeInvariance == SemaphoreInv /\ [SemNext]_semvars => SemTypeOK'
<1> SUFFICES ASSUME SemaphoreInv, [SemNext]_semvars PROVE SemTypeOK'
  OBVIOUS
<1> USE DEF SemaphoreInv, acquirer, remote
<1>1. CASE UNCHANGED semvars
  BY <1>1 DEF semvars, SemTypeOK
<1>2. CASE SemNext
  <2>1. CodeTypeOK'
    <3>1. ASSUME NEW a \in Acquirers, Acquire(a) PROVE CodeTypeOK'
      BY <3>1 DEF CodeTypeOK, SemTypeOK, Acquire
    <3>9. ASSUME NEW a \in Acquirers, Poll(a) PROVE CodeTypeOK'
      BY <3>9 DEF CodeTypeOK, SemTypeOK, Poll
    <3>10. ASSUME NEW a \in Acquirers, TryAcquire(a) PROVE CodeTypeOK'
      BY <3>10 DEF CodeTypeOK, SemTypeOK, TryAcquire
    <3>11. ASSUME NEW a \in Acquirers, RegisterWaiter(a) PROVE CodeTypeOK'
      BY <3>11 DEF CodeTypeOK, SemTypeOK, RegisterWaiter
    <3>12. ASSUME NEW a \in Acquirers, RemoveWaiter(a) PROVE CodeTypeOK'
      BY <3>12 DEF CodeTypeOK, SemTypeOK, RemoveWaiter
    <3>2. CASE OtherTryAcquire
      BY <3>2 DEF CodeTypeOK, SemTypeOK, OtherTryAcquire
    <3>3. CASE Release
      <4>1. waiters # {} => Least(WaitersAt(TopPriority)) \in Acquirers
        BY TopWaiter DEF SemTypeOK
      <4>2. count' = 1 \/ count' = count \/ (count < MAX /\ count' = count + 1)
        BY <3>3 DEF Release
      <4>3. count' \in 0..MAX
        BY <4>2 DEF SemTypeOK
      <4>4. \/ /\ waiters # {} /\ waiters' \subseteq waiters
               /\ marked' = marked \cup {Least(WaitersAt(TopPriority))}
            \/ waiters' = waiters /\ marked' = marked
        BY <3>3 DEF Release
      <4>5. waiters' \subseteq Acquirers /\ marked' \subseteq Acquirers
        BY <4>1, <4>4 DEF SemTypeOK
      <4>6. released' = released + 1 /\ released < RELEASE_BOUND
        BY <3>3 DEF Release
      <4>7. released' \in 0..RELEASE_BOUND
        BY <4>6 DEF SemTypeOK
      <4> QED BY <3>3, <4>3, <4>5, <4>7 DEF CodeTypeOK, SemTypeOK, Release
    <3>4. ASSUME NEW r \in Remote, ReleaseBegin(r) PROVE CodeTypeOK'
      BY <3>4 DEF CodeTypeOK, SemTypeOK, ReleaseBegin
    <3>5. ASSUME NEW r \in Remote, Scan(r) PROVE CodeTypeOK'
      <4>1. WaitersAt(callPrio[r]) # {} => Least(WaitersAt(callPrio[r])) \in Acquirers
        BY LeastWaiter DEF CodeTypeOK, SemTypeOK, WaitersAt
      <4>2. callPrio[r] > 0 => callPrio[r] - 1 \in 0..MAX_PRIORITY
        BY DEF SemTypeOK
      <4>3. waiters' \subseteq waiters
        BY <3>5 DEF Scan
      <4>4. claimed' \in [Remote -> Acquirers \cup {NONE}]
        BY <3>5, <4>1 DEF SemTypeOK, Scan
      <4>5. callPrio' \in [Remote -> 0..MAX_PRIORITY]
        BY <3>5, <4>2 DEF SemTypeOK, Scan
      <4>6. call' \in [Remote -> {"idle", "scan", "store", "wake", "increment"}]
        BY <3>5 DEF SemTypeOK, Scan
      <4> QED BY <3>5, <4>3, <4>4, <4>5, <4>6 DEF CodeTypeOK, SemTypeOK, Scan
    <3>6. ASSUME NEW r \in Remote, StoreOne(r) PROVE CodeTypeOK'
      BY <3>6 DEF CodeTypeOK, SemTypeOK, StoreOne
    <3>7. ASSUME NEW r \in Remote, WakeTask(r) PROVE CodeTypeOK'
      <4>1. claimed[r] \in Acquirers
        BY <3>7 DEF WakeTask, Scanned
      <4> QED BY <3>7, <4>1 DEF CodeTypeOK, SemTypeOK, WakeTask
    <3>8. ASSUME NEW r \in Remote, Increment(r) PROVE CodeTypeOK'
      BY <3>8 DEF CodeTypeOK, SemTypeOK, Increment
    <3> QED BY <1>2, <3>1, <3>2, <3>3, <3>4, <3>5, <3>6, <3>7, <3>8, <3>9,
              <3>10, <3>11, <3>12 DEF SemNext, SemStep
  <2>2. since' \in [Remote -> SUBSET Acquirers]
    BY <1>2, <2>1 DEF SemNext, SemTypeOK, CodeTypeOK
  <2> QED BY <2>1, <2>2 DEF SemTypeOK, CodeTypeOK
<1> QED BY <1>1, <1>2

LEMMA TokensInvariance == SemaphoreInv /\ [SemNext]_semvars => Tokens'
<1> SUFFICES ASSUME SemaphoreInv, [SemNext]_semvars PROVE Tokens'
  OBVIOUS
<1> USE DEF SemaphoreInv, acquirer, remote
<1>t. /\ count \in Nat /\ acquired \in Nat /\ released \in Nat /\ IsFiniteSet(InFlight)
      /\ Cardinality(InFlight) \in Nat
      /\ acquired + count + Cardinality(InFlight) <= released
  BY FS_CardinalityType DEF SemTypeOK, Tokens
<1>0. CASE UNCHANGED semvars
  BY <1>0 DEF semvars, Tokens, InFlight
<1>1. ASSUME NEW a \in Acquirers, Acquire(a) \/ Poll(a) \/ RegisterWaiter(a) \/ RemoveWaiter(a)
      PROVE  Tokens'
  BY <1>1 DEF Tokens, InFlight, Acquire, Poll, RegisterWaiter, RemoveWaiter
<1>2. ASSUME NEW a \in Acquirers, TryAcquire(a) PROVE Tokens'
  <2>1. /\ InFlight' = InFlight /\ released' = released
        /\ acquired' + count' = acquired + count
    BY <1>2, <1>t DEF InFlight, TryAcquire
  <2> QED BY <1>t, <1>2, <2>1 DEF Tokens, TryAcquire
<1>3. CASE OtherTryAcquire
  <2>1. InFlight' = InFlight /\ released' = released /\ acquired' + count' = acquired + count
    BY <1>3, <1>t DEF InFlight, OtherTryAcquire
  <2> QED BY <1>t, <1>3, <2>1 DEF Tokens, OtherTryAcquire
<1>4. CASE Release
  <2>1. /\ InFlight' = InFlight /\ released' = released + 1 /\ acquired' = acquired
        /\ count' \in Nat /\ count' <= count + 1
    BY <1>4, <1>t DEF InFlight, Release
  <2> QED BY <1>t, <2>1 DEF Tokens
<1>5. ASSUME NEW r \in Remote, ReleaseBegin(r) PROVE Tokens'
  <2>1. /\ released' = released + 1 /\ acquired' = acquired /\ count' = count
        /\ IsFiniteSet(InFlight') /\ Cardinality(InFlight') = Cardinality(InFlight) + 1
    BY <1>5, FlightBegins DEF ReleaseBegin
  <2> QED BY <1>t, <2>1 DEF Tokens
<1>6. ASSUME NEW r \in Remote, Scan(r) PROVE Tokens'
  <2>1. released' = released /\ acquired' = acquired /\ count' = count
    BY <1>6 DEF Scan
  <2>2. InFlight' = InFlight
    BY <1>6 DEF Scan, InFlight, SemTypeOK
  <2> QED BY <1>t, <2>1, <2>2 DEF Tokens
<1>7. ASSUME NEW r \in Remote, StoreOne(r) \/ Increment(r) PROVE Tokens'
  <2>1. /\ released' = released /\ acquired' = acquired /\ count' \in Nat /\ count' <= count + 1
    BY <1>7, <1>t DEF StoreOne, Increment
  <2>2. IsFiniteSet(InFlight') /\ Cardinality(InFlight') = Cardinality(InFlight) - 1
    BY <1>7, FlightEnds DEF StoreOne, Increment
  <2> QED BY <1>t, <2>1, <2>2 DEF Tokens
<1>8. ASSUME NEW r \in Remote, WakeTask(r) PROVE Tokens'
  <2>1. released' = released /\ acquired' = acquired /\ count' = count /\ InFlight' = InFlight
    BY <1>8 DEF WakeTask, InFlight, SemTypeOK
  <2> QED BY <1>t, <2>1 DEF Tokens
<1> QED BY <1>0, <1>1, <1>2, <1>3, <1>4, <1>5, <1>6, <1>7, <1>8 DEF SemNext, SemStep

LEMMA ScannedInvariance == SemaphoreInv /\ [SemNext]_semvars => Scanned'
<1> SUFFICES ASSUME SemaphoreInv, [SemNext]_semvars, NEW r \in Remote PROVE Scanned!(r)'
  BY DEF Scanned
<1> USE DEF SemaphoreInv, acquirer, remote
<1>0. CASE UNCHANGED semvars
  BY <1>0 DEF semvars, Scanned
<1>1. CASE SemNext
  <2>h. since'[r] = IF call'[r] = "idle" THEN {}
                    ELSE IF call[r] = "idle" THEN waiters'
                    ELSE since[r] \cap waiters'
    BY <1>1 DEF SemNext
  <2>s. Scanned!(r) /\ since[r] \subseteq waiters
    BY DEF Scanned
  <2>1. CASE UNCHANGED <<call, callPrio, claimed>>
    BY <2>1, <2>h, <2>s
  <2>2. ASSUME NEW q \in Remote,
               ReleaseBegin(q) \/ Scan(q) \/ StoreOne(q) \/ WakeTask(q) \/ Increment(q), q # r
        PROVE  Scanned!(r)'
    <3>1. call'[r] = call[r] /\ callPrio'[r] = callPrio[r] /\ claimed'[r] = claimed[r]
      BY <2>2 DEF ReleaseBegin, Scan, StoreOne, WakeTask, Increment, SemTypeOK
    <3> QED BY <2>h, <2>s, <3>1
  <2>3. CASE ReleaseBegin(r)
    <3>1. call'[r] = "scan" /\ callPrio'[r] = MAX_PRIORITY /\ since'[r] = waiters
          /\ waiters' = waiters /\ waiters \subseteq Acquirers
      BY <2>3, <2>h DEF ReleaseBegin, SemTypeOK
    <3>2. \A a \in Acquirers : Priority[a] <= MAX_PRIORITY
      OBVIOUS
    <3> QED BY <3>1, <3>2
  <2>4. CASE Scan(r)
    <3>1. CASE WaitersAt(callPrio[r]) # {}
      <4>1. Least(WaitersAt(callPrio[r])) \in WaitersAt(callPrio[r])
        BY <3>1, LeastWaiter
      <4>2. /\ call'[r] = "store" /\ callPrio' = callPrio /\ call[r] = "scan"
            /\ claimed'[r] = Least(WaitersAt(callPrio[r])) /\ waiters' \subseteq waiters
        BY <2>4, <3>1 DEF Scan, SemTypeOK
      <4>3. since'[r] = since[r] \cap waiters'
        BY <2>h, <4>2
      <4>4. claimed'[r] \in Acquirers /\ Priority[claimed'[r]] = callPrio[r]
        BY <4>1, <4>2 DEF WaitersAt, SemTypeOK
      <4> QED BY <2>s, <4>2, <4>3, <4>4
    <3>2. CASE WaitersAt(callPrio[r]) = {}
      <4>1. \A a \in since[r] : /\ Priority[a] # callPrio[r] /\ Priority[a] <= callPrio[r]
                                 /\ Priority[a] \in 0..MAX_PRIORITY
        BY <2>4, <2>s, <3>2 DEF Scan, WaitersAt, SemTypeOK
      <4>2. since'[r] = since[r] /\ waiters' = waiters
        BY <2>4, <2>h, <2>s, <3>2 DEF Scan, SemTypeOK
      <4>3. callPrio[r] \in 0..MAX_PRIORITY
        BY DEF SemTypeOK
      <4>4. CASE callPrio[r] > 0
        <5>1. call'[r] = "scan" /\ callPrio'[r] = callPrio[r] - 1
          BY <2>4, <3>2, <4>3, <4>4 DEF Scan, SemTypeOK
        <5>2. \A a \in since[r] : Priority[a] <= callPrio[r] - 1
          BY <4>1, <4>3
        <5> QED BY <2>s, <4>2, <5>1, <5>2
      <4>5. CASE callPrio[r] = 0
        <5>1. call'[r] = "increment"
          BY <2>4, <3>2, <4>5 DEF Scan, SemTypeOK
        <5>2. since[r] = {}
          BY <4>1, <4>5
        <5> QED BY <2>s, <4>2, <5>1, <5>2
      <4> QED BY <4>3, <4>4, <4>5
    <3> QED BY <3>1, <3>2
  <2>5. CASE StoreOne(r)
    BY <2>5, <2>h, <2>s DEF StoreOne, SemTypeOK
  <2>6. CASE WakeTask(r) \/ Increment(r)
    <3>1. call'[r] = "idle"
      BY <2>6 DEF WakeTask, Increment, SemTypeOK
    <3> QED BY <2>h, <3>1
  <2>7. CASE OtherTryAcquire \/ Release
    BY <2>1, <2>7 DEF OtherTryAcquire, Release
  <2>8. ASSUME NEW a \in Acquirers,
               Acquire(a) \/ Poll(a) \/ TryAcquire(a) \/ RegisterWaiter(a) \/ RemoveWaiter(a)
        PROVE  Scanned!(r)'
    BY <2>1, <2>8 DEF Acquire, Poll, TryAcquire, RegisterWaiter, RemoveWaiter
  <2> QED BY <1>1, <2>2, <2>3, <2>4, <2>5, <2>6, <2>7, <2>8 DEF SemNext, SemStep
<1> QED BY <1>0, <1>1

\* The inductive invariant holds throughout.
THEOREM SemaphoreInvariance == SemSpec => []SemaphoreInv
<1>1. SemInit => SemaphoreInv
  <2> SUFFICES ASSUME SemInit PROVE SemaphoreInv
    OBVIOUS
  <2>1. InFlight = {}
    BY DEF SemInit, InFlight
  <2>2. IsFiniteSet(InFlight) /\ Cardinality(InFlight) = 0
    BY <2>1, FS_EmptySet
  <2>3. SemTypeOK
    BY DEF SemInit, SemTypeOK
  <2>4. Tokens
    BY <2>2 DEF SemInit, Tokens
  <2>5. Scanned
    BY DEF SemInit, Scanned
  <2> QED BY <2>3, <2>4, <2>5 DEF SemaphoreInv
<1>2. SemaphoreInv /\ [SemNext]_semvars => SemaphoreInv'
  BY TypeInvariance, TokensInvariance, ScannedInvariance DEF SemaphoreInv
<1> QED BY <1>1, <1>2, PTL DEF SemSpec

\* However many releases overlap (Semaphore::release on several harts, beside
\* the polls of acquire), no more tokens are taken or left than were released.
THEOREM TokensAreReleased == SemSpec => []NoTokenInvented
<1>1. SemaphoreInv => NoTokenInvented
  BY FS_CardinalityType DEF SemaphoreInv, SemTypeOK, Tokens, NoTokenInvented
<1> QED BY <1>1, SemaphoreInvariance, PTL

\* A release that claims a waiter, or none, has passed over nobody of a higher
\* priority who was registered all along (Semaphore::release's scan).
THEOREM NobodyIsPassedOver == SemSpec => []ReleaseFindsHighest
<1>1. SemaphoreInv => ReleaseFindsHighest
  BY DEF SemaphoreInv, Scanned, ReleaseFindsHighest
<1> QED BY <1>1, SemaphoreInvariance, PTL

-----------------------------------------------------------------------------
USE CriticalAssumption DEF Calls

\* The program counter agrees with the calls in progress.
PcLevel(h) == pc[h] = "idle" <=> level[h] = 0

\* A call that has read the depth read the number of calls around it.
DepthRead(h) ==
  /\ \A c \in Calls : c < level[h] => depth[h][c] = c - 1
  /\ pc[h] \in {"cas", "store", "body", "unlock", "restore"} =>
       depth[h][level[h]] = level[h] - 1

\* Only the outermost call takes the lock and gives it back.
Outermost(h) == pc[h] \in {"cas", "unlock"} => level[h] = 1

\* The counter is the number of calls that are between their two stores.
Counter(h) ==
  NESTING[h] = IF pc[h] = "body" \/ level[h] = 0 THEN level[h] ELSE level[h] - 1

\* The lock is held from the outermost CAS to the outermost unlock.
Owns(h) ==
  LOCK_OWNER = h <=>
    level[h] > 1 \/ (level[h] = 1 /\ pc[h] \in {"store", "body", "unlock"})

\* Interrupts are masked during a call; the outermost call remembers what the
\* code below it had, and an inner one that they were masked.
Masks(h) ==
  /\ level[h] > 0 => h \in masked
  /\ level[h] = 0 => (h \in masked <=> handler[h] = "isr_masked")
  /\ level[h] > 0 => (1 \in token[h] <=> handler[h] = "isr_masked")
  /\ \A c \in Calls : 1 < c /\ c <= level[h] => c \in token[h]

HartInv(h) ==
  PcLevel(h) /\ DepthRead(h) /\ Outermost(h) /\ Counter(h) /\ Owns(h) /\ Masks(h)

IInv == TypeOK /\ \A h \in Harts : HartInv(h)

\* No hart's id is the unlocked value.
LEMMA UnlockedIsNoHart == UNLOCKED \notin Harts
BY DEF UNLOCKED, Harts

\* A step of one hart leaves the others' part of the invariant alone, as long
\* as the lock does not pass from or to them.
LEMMA Frame ==
  ASSUME NEW h \in Harts, NEW g \in Harts, g # h, TypeOK, HartInv(g),
         NESTING'[g] = NESTING[g], level'[g] = level[g], pc'[g] = pc[g],
         depth'[g] = depth[g], token'[g] = token[g], handler'[g] = handler[g],
         g \in masked' <=> g \in masked,
         LOCK_OWNER' = g <=> LOCK_OWNER = g
  PROVE  HartInv(g)'
BY DEF HartInv, PcLevel, DepthRead, Outermost, Counter, Owns, Masks

\* Every step keeps the invariant.
LEMMA NextIInv ==
  ASSUME IInv, [Next]_vars
  PROVE  IInv'
<1>. TypeOK /\ \A h \in Harts : HartInv(h)
  BY DEF IInv
<1>1. CASE UNCHANGED vars
  BY <1>1 DEF vars, IInv, TypeOK, HartInv, PcLevel, DepthRead, Outermost,
              Counter, Owns, Masks
<1>2. ASSUME NEW h \in Harts, Call(h) PROVE IInv'
  <2>1. TypeOK'
    BY <1>2 DEF Call, Goto, TypeOK, PcLabels
  <2>2. HartInv(h)'
    BY <1>2 DEF TypeOK, Call, Goto, HartInv, PcLevel, DepthRead, Outermost,
                Counter, Owns, Masks
  <2>3. ASSUME NEW g \in Harts, g # h PROVE HartInv(g)'
    BY <1>2, <2>3, Frame DEF Call, Goto, TypeOK
  <2>. QED
    BY <2>1, <2>2, <2>3 DEF IInv
<1>3. ASSUME NEW h \in Harts, Load(h) PROVE IInv'
  <2>0. level[h] \in Calls
    BY <1>3 DEF Load, HartInv, PcLevel, TypeOK
  <2>1. TypeOK'
    BY <1>3, <2>0 DEF Load, Goto, TypeOK, PcLabels
  <2>a. /\ level' = level /\ NESTING' = NESTING /\ masked' = masked
        /\ token' = token /\ handler' = handler /\ LOCK_OWNER' = LOCK_OWNER
        /\ pc[h] = "load" /\ pc'[h] = IF NESTING[h] = 0 THEN "cas" ELSE "store"
    BY <1>3 DEF Load, Goto, TypeOK
  <2>b. NESTING[h] = level[h] - 1 /\ level[h] \in Int
    BY <2>0, <2>a DEF HartInv, Counter
  <2>c. depth'[h] = [depth[h] EXCEPT ![level[h]] = level[h] - 1]
    BY <1>3, <2>b DEF Load, TypeOK
  <2>d. /\ depth'[h][level[h]] = level[h] - 1
        /\ \A c \in Calls : c < level[h] => depth'[h][c] = depth[h][c]
    BY <2>0, <2>c DEF TypeOK
  <2>2. HartInv(h)'
    <3>1. DepthRead(h)'
      BY <2>a, <2>d DEF HartInv, DepthRead
    <3>2. PcLevel(h)' /\ Outermost(h)' /\ Counter(h)' /\ Owns(h)' /\ Masks(h)'
      BY <2>0, <2>a, <2>b DEF HartInv, PcLevel, Outermost, Counter, Owns, Masks
    <3>. QED
      BY <3>1, <3>2 DEF HartInv
  <2>3. ASSUME NEW g \in Harts, g # h PROVE HartInv(g)'
    BY <1>3, <2>3, Frame DEF Load, Goto, TypeOK
  <2>. QED
    BY <2>1, <2>2, <2>3 DEF IInv
<1>4. ASSUME NEW h \in Harts, Cas(h) PROVE IInv'
  <2>1. TypeOK'
    BY <1>4 DEF Cas, Goto, TypeOK, PcLabels
  <2>2. HartInv(h)'
    BY <1>4 DEF TypeOK, Cas, Goto, HartInv, PcLevel, DepthRead, Outermost,
                Counter, Owns, Masks
  <2>3. ASSUME NEW g \in Harts, g # h PROVE HartInv(g)'
    BY <1>4, <2>3, Frame, UnlockedIsNoHart DEF Cas, Goto, TypeOK
  <2>. QED
    BY <2>1, <2>2, <2>3 DEF IInv
<1>5. ASSUME NEW h \in Harts, Store(h) PROVE IInv'
  <2>0. level[h] \in Calls /\ depth[h][level[h]] = level[h] - 1
    BY <1>5 DEF Store, HartInv, PcLevel, DepthRead, TypeOK
  <2>a. depth[h][level[h]] + 1 = level[h]
    BY <2>0, CriticalAssumption DEF Calls
  <2>b. /\ pc' = [pc EXCEPT ![h] = "body"]
        /\ NESTING' = [NESTING EXCEPT ![h] = level[h]]
        /\ UNCHANGED <<LOCK_OWNER, masked, level, depth, token, handler>>
    BY <1>5, <2>a DEF Store, Goto
  <2>1. TypeOK'
    BY <2>0, <2>b DEF TypeOK, PcLabels, Calls
  <2>2. HartInv(h)'
    BY <1>5, <2>0 DEF TypeOK, Store, Goto, HartInv, PcLevel, DepthRead, Outermost,
                Counter, Owns, Masks
  <2>3. ASSUME NEW g \in Harts, g # h PROVE HartInv(g)'
    BY <1>5, <2>3, Frame DEF Store, Goto, TypeOK
  <2>. QED
    BY <2>1, <2>2, <2>3 DEF IInv
<1>6. ASSUME NEW h \in Harts, Exit(h) PROVE IInv'
  <2>0. level[h] \in Calls /\ depth[h][level[h]] = level[h] - 1
    BY <1>6 DEF Exit, HartInv, PcLevel, DepthRead, TypeOK
  <2>a. level[h] - 1 \in 0..MAX_NEST
    BY <2>0
  <2>b. /\ \/ pc' = [pc EXCEPT ![h] = "unlock"]
           \/ pc' = [pc EXCEPT ![h] = "restore"]
        /\ NESTING' = [NESTING EXCEPT ![h] = level[h] - 1]
        /\ UNCHANGED <<LOCK_OWNER, masked, level, depth, token, handler>>
    BY <1>6, <2>0 DEF Exit, Goto
  <2>1. TypeOK'
    BY <2>a, <2>b DEF TypeOK, PcLabels
  <2>2. HartInv(h)'
    BY <1>6, <2>0 DEF TypeOK, Exit, Goto, HartInv, PcLevel, DepthRead, Outermost,
                Counter, Owns, Masks
  <2>3. ASSUME NEW g \in Harts, g # h PROVE HartInv(g)'
    BY <1>6, <2>3, Frame DEF Exit, Goto, TypeOK
  <2>. QED
    BY <2>1, <2>2, <2>3 DEF IInv
<1>7. ASSUME NEW h \in Harts, Unlock(h) PROVE IInv'
  <2>1. TypeOK'
    BY <1>7 DEF Unlock, Goto, TypeOK, PcLabels
  <2>2. HartInv(h)'
    BY <1>7, UnlockedIsNoHart DEF TypeOK, Unlock, Goto, HartInv, PcLevel, DepthRead, Outermost,
                Counter, Owns, Masks
  <2>3. ASSUME NEW g \in Harts, g # h PROVE HartInv(g)'
    <3>1. LOCK_OWNER = h
      BY <1>7 DEF Unlock, HartInv, Outermost, Owns
    <3>. QED
      BY <1>7, <2>3, <3>1, Frame, UnlockedIsNoHart DEF Unlock, Goto, TypeOK
  <2>. QED
    BY <2>1, <2>2, <2>3 DEF IInv
<1>8. ASSUME NEW h \in Harts, Restore(h) PROVE IInv'
  <2>0. level[h] \in Calls
    BY <1>8 DEF Restore, HartInv, PcLevel, TypeOK
  <2>1. TypeOK'
    BY <1>8, <2>0 DEF Restore, Goto, TypeOK, PcLabels
  <2>2. HartInv(h)'
    BY <1>8, <2>0 DEF TypeOK, Restore, Goto, HartInv, PcLevel, DepthRead, Outermost,
                Counter, Owns, Masks
  <2>3. ASSUME NEW g \in Harts, g # h PROVE HartInv(g)'
    BY <1>8, <2>3, Frame DEF Restore, Goto, TypeOK
  <2>. QED
    BY <2>1, <2>2, <2>3 DEF IInv
<1>9. ASSUME NEW h \in Harts, Interrupt(h) \/ Return(h) PROVE IInv'
  <2>1. TypeOK'
    BY <1>9 DEF Interrupt, Return, TypeOK, Contexts
  <2>2. HartInv(h)'
    BY <1>9 DEF TypeOK, Interrupt, Return, Contexts, HartInv, PcLevel, DepthRead,
                Outermost, Counter, Owns, Masks
  <2>3. ASSUME NEW g \in Harts, g # h PROVE HartInv(g)'
    BY <1>9, <2>3, Frame DEF Interrupt, Return, TypeOK
  <2>. QED
    BY <2>1, <2>2, <2>3 DEF IInv
<1>. QED
  BY <1>1, <1>2, <1>3, <1>4, <1>5, <1>6, <1>7, <1>8, <1>9 DEF Next, Progress

\* The inductive invariant holds throughout.
THEOREM Invariance == Spec => []IInv
<1>1. Init => IInv
  BY UnlockedIsNoHart DEF Init, IInv, TypeOK, PcLabels, Contexts, HartInv, PcLevel, DepthRead,
         Outermost, Counter, Owns, Masks
<1>2. IInv /\ [Next]_vars => IInv'
  BY NextIInv
<1>. QED
  BY <1>1, <1>2, PTL DEF Spec

\* A closure runs with interrupts masked and the lock held, and enter leaves
\* the interrupt mask as it found it.
THEOREM MaskIsKept == Spec => []MaskKept
<1>1. IInv => MaskKept
  BY DEF IInv, TypeOK, HartInv, PcLevel, Counter, Owns, Masks, MaskKept
<1>. QED
  BY <1>1, Invariance, PTL

\* critical::enter implements mutual exclusion between any number of harts,
\* with nested calls and interrupts.
THEOREM EnterExcludes == Spec => ImplementsExclusion
<1>1. Init => Excl!Init
  BY DEF Init, Excl!Init, Inside
<1>2. IInv /\ [Next]_vars => [Excl!Next]_Inside
  <2>. SUFFICES ASSUME IInv, [Next]_vars PROVE Excl!Next \/ Inside' = Inside
    BY DEF Excl!Next
  <2>. TypeOK /\ \A h \in Harts : HartInv(h)
    BY DEF IInv
  <2>1. CASE NESTING' = NESTING
    BY <2>1 DEF Inside
  <2>2. ASSUME NEW h \in Harts, Store(h) PROVE Excl!Next \/ Inside' = Inside
    <3>a. level[h] \in Calls /\ pc[h] = "store" /\ HartInv(h)
      BY <2>2 DEF Store, HartInv, PcLevel, TypeOK
    <3>0. /\ LOCK_OWNER = h /\ level[h] \in Calls /\ depth[h][level[h]] = level[h] - 1
          /\ NESTING[h] = level[h] - 1 /\ level[h] \in Int
      BY <3>a DEF HartInv, DepthRead, Counter, Owns
    <3>1. \A g \in Harts : g # h => NESTING[g] = 0
      BY <3>0 DEF HartInv, PcLevel, Counter, Owns, TypeOK
    <3>b. depth[h][level[h]] + 1 = level[h]
      BY <3>0
    <3>2. NESTING' = [NESTING EXCEPT ![h] = level[h]]
      BY <2>2, <3>b DEF Store
    <3>3. Inside' = {h}
      BY <3>0, <3>1, <3>2 DEF Inside, TypeOK
    <3>4. Inside = {} \/ Inside = {h}
      BY <3>1 DEF Inside
    <3>. QED
      BY <3>3, <3>4 DEF Excl!Next, Excl!Enter
  <2>3. ASSUME NEW h \in Harts, Exit(h) PROVE Excl!Next \/ Inside' = Inside
    <3>0. /\ LOCK_OWNER = h /\ level[h] \in Calls /\ depth[h][level[h]] = level[h] - 1
          /\ NESTING[h] = level[h] /\ level[h] \in Int
      BY <2>3 DEF Exit, HartInv, PcLevel, DepthRead, Counter, Owns, TypeOK
    <3>1. \A g \in Harts : g # h => NESTING[g] = 0
      BY <3>0 DEF HartInv, PcLevel, Counter, Owns, TypeOK
    <3>2. NESTING' = [NESTING EXCEPT ![h] = level[h] - 1]
      BY <2>3, <3>0 DEF Exit
    <3>3. Inside = {h}
      BY <3>0, <3>1 DEF Inside
    <3>4. Inside' = {} \/ Inside' = {h}
      BY <3>1, <3>2 DEF Inside, TypeOK
    <3>. QED
      BY <3>3, <3>4 DEF Excl!Next, Excl!Leave
  <2>. QED
    BY <2>1, <2>2, <2>3
       DEF Next, Progress, vars, Call, Load, Cas, Unlock, Restore, Interrupt, Return
<1>3. Spec => []IInv
  BY Invariance
<1>. QED
  BY <1>1, <1>2, <1>3, PTL DEF Spec, ImplementsExclusion, Excl!Spec
=============================================================================
