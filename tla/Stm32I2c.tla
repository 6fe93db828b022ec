------------------------------ MODULE Stm32I2c ------------------------------
(***************************************************************************)
(* The STM32F401's I2C master (rivet-bsp-stm32f401re/src/i2c.rs): start    *)
(* and address wait for the event interrupt or poll, bytes are polled, and *)
(* the peripheral goes on shifting while the driver works.                 *)
(***************************************************************************)
EXTENDS Signal, SequencesExt, FiniteSets

CONSTANT StTransactions   \* sequences of operations <<direction, bytes>>

VARIABLES
  st,        \* where the driver is
  stPolls,   \* the polling trait
  stOps,     \* operations left, the first one under way
  stByte,    \* its bytes done
  sr1,       \* SR1: a set of "SB", "ADDR", "BTF", "RXNE", "TXE" and Errors
  cr1,       \* CR1: a set of "ACK", "START", "STOP"
  armed,     \* ITEVTEN and ITERREN
  shift,     \* the peripheral is shifting a byte: "none", "address", "out", "in"
  extra      \* bytes acknowledged to the slave beyond the operation's last

driving == <<st, stPolls, stOps, stByte>>
stm32i2c == <<driving, sr1, cr1, armed, shift, extra>>

Op == stOps[1]
LastOp == Len(stOps) = 1
LastByte == stByte + 1 = Op[2]

\* SR1_ERROR_MASK: an address or byte that is not acknowledged, and what else can
\* go wrong on the bus.  Writing 0 to SR1 clears these and no other.
Errors == {"AF", "ERR"}

\* init: reset, timed, enabled.
StInit ==
  /\ st = "idle" /\ stPolls = FALSE /\ stOps = <<>> /\ stByte = 0
  /\ sr1 = {} /\ cr1 = {} /\ armed = FALSE
  /\ shift = "none" /\ extra = FALSE

StCall(t, how) ==
  /\ st = "idle"
  /\ stOps' = t /\ stPolls' = how /\ stByte' = 0
  /\ st' = "start"
  /\ UNCHANGED <<sr1, cr1, armed, shift, extra, vars>>

\* The blocking trait's transaction and the async one's.
StTransaction(t) == StCall(t, TRUE)
StAsyncTransaction(t) == StCall(t, FALSE)

\* start_async and send_address_async: the latch is cleared, the interrupts, which
\* the last handler masked, are armed, ...
Resets == [start |-> "arm_start", address |-> "arm_address"]
Arms == [arm_start |-> "ask", arm_address |-> "send"]

StReset ==
  /\ ~stPolls /\ st \in DOMAIN Resets
  /\ Reset
  /\ st' = Resets[st]
  /\ UNCHANGED <<stPolls, stOps, stByte, sr1, cr1, armed, shift, extra>>

StArm ==
  /\ st \in DOMAIN Arms
  /\ armed' = TRUE
  /\ st' = Arms[st]
  /\ UNCHANGED <<stPolls, stOps, stByte, sr1, cr1, shift, extra, vars>>

\* ... and START is asked for with ACK on, or ...
StStart ==
  /\ st = IF stPolls THEN "start" ELSE "ask"
  /\ cr1' = cr1 \cup {"START", "ACK"}
  /\ st' = "started"
  /\ UNCHANGED <<stPolls, stOps, stByte, sr1, armed, shift, extra, vars>>

\* ... the address goes into DR, which ends SB.
StAddress ==
  /\ st = IF stPolls THEN "address" ELSE "send"
  /\ sr1' = sr1 \ {"SB"}
  /\ shift' = "address"
  /\ st' = "addressed"
  /\ UNCHANGED <<stPolls, stOps, stByte, cr1, armed, extra, vars>>

\* Both are waited for: polled for, or with the signal.
Awaits == [started |-> "address", addressed |-> "answer"]

StPoll ==
  /\ stPolls
  /\ \/ st = "started" /\ "SB" \in sr1
     \/ st = "addressed" /\ sr1 \cap {"AF", "ADDR"} # {}
  /\ st' = Awaits[st]
  /\ UNCHANGED <<stPolls, stOps, stByte, sr1, cr1, armed, shift, extra, vars>>

StWait ==
  /\ ~stPolls /\ st \in DOMAIN Awaits
  /\ Await \/ Awaited
  /\ st' = IF pc' = "idle" THEN Awaits[st] ELSE st
  /\ UNCHANGED <<stPolls, stOps, stByte, sr1, cr1, armed, shift, extra>>

\* A transfer that is waiting may be dropped: nothing but the signal is told.
StDrop ==
  /\ ~stPolls /\ st \in DOMAIN Awaits
  /\ Abandon
  /\ st' = "idle"
  /\ UNCHANGED <<stPolls, stOps, stByte, sr1, cr1, armed, shift, extra>>

\* Not acknowledged: STOP and an error.  Otherwise ADDR is cleared by reading
\* SR1 and SR2, and the slave's first byte comes in.
StAnswer ==
  /\ st = "answer"
  /\ IF "AF" \in sr1
     THEN /\ sr1' = sr1 \ Errors /\ cr1' = cr1 \cup {"STOP"}
          /\ st' = "idle" /\ UNCHANGED shift
     ELSE /\ sr1' = sr1 \ {"ADDR"}
          /\ shift' = IF "ADDR" \in sr1 /\ Op[1] = "read" THEN "in" ELSE shift
          /\ st' = Op[1] /\ UNCHANGED cr1
  /\ UNCHANGED <<stPolls, stOps, stByte, armed, extra, vars>>

\* write_bytes_sync: a byte into DR, ...
StWrite ==
  /\ st = "write"
  /\ sr1' = sr1 \ {"TXE", "BTF"}
  /\ shift' = "out"
  /\ st' = "sent"
  /\ UNCHANGED <<stPolls, stOps, stByte, cr1, armed, extra, vars>>

NextOp ==
  /\ stOps' = Tail(stOps) /\ stByte' = 0
  /\ st' = IF LastOp THEN "idle" ELSE "start"

\* ... then TXE, or BTF before the STOP that ends the transaction; an error ends
\* it too.
StSent ==
  /\ st = "sent"
  /\ IF sr1 \cap Errors # {}
     THEN /\ sr1' = sr1 \ Errors /\ cr1' = cr1 \cup {"STOP"}
          /\ st' = "idle" /\ UNCHANGED <<stOps, stByte>>
     ELSE /\ (IF LastByte /\ LastOp THEN "BTF" ELSE "TXE") \in sr1
          /\ IF LastByte
             THEN NextOp /\ cr1' = IF LastOp THEN cr1 \cup {"STOP"} ELSE cr1
             ELSE stByte' = stByte + 1 /\ st' = "write" /\ UNCHANGED <<stOps, cr1>>
          /\ UNCHANGED sr1
  /\ UNCHANGED <<stPolls, armed, shift, extra, vars>>

\* read_bytes_sync: before its last byte, ACK off and STOP on, ...
StNack ==
  /\ st = "read"
  /\ cr1' = IF LastByte THEN (cr1 \ {"ACK"}) \cup {"STOP"} ELSE cr1
  /\ st' = "receive"
  /\ UNCHANGED <<stPolls, stOps, stByte, sr1, armed, shift, extra, vars>>

\* ... then RXNE, and the byte out of DR.  An error ends it without a STOP.
StRead ==
  /\ st = "receive"
  /\ IF sr1 \cap Errors # {}
     THEN sr1' = sr1 \ Errors /\ st' = "idle" /\ UNCHANGED <<stOps, stByte>>
     ELSE /\ "RXNE" \in sr1
          /\ sr1' = IF "BTF" \in sr1 THEN sr1 \ {"BTF"} ELSE sr1 \ {"RXNE"}
          /\ IF LastByte THEN NextOp
             ELSE stByte' = stByte + 1 /\ st' = "read" /\ UNCHANGED stOps
  /\ UNCHANGED <<stPolls, cr1, armed, shift, extra, vars>>

-----------------------------------------------------------------------------
\* The peripheral: between two bytes the start condition, ...
BetweenBytes == shift = "none" \/ (shift = "in" /\ "BTF" \in sr1)

BusStart ==
  /\ "START" \in cr1 /\ BetweenBytes
  /\ cr1' = cr1 \ {"START"} /\ shift' = "none"
  /\ sr1' = (sr1 \ {"TXE", "BTF"}) \cup {"SB"}
  /\ UNCHANGED <<driving, armed, extra, vars>>

\* ... the stop condition, ...
BusStop ==
  /\ "STOP" \in cr1 /\ BetweenBytes
  /\ cr1' = cr1 \ {"STOP"} /\ shift' = "none"
  /\ sr1' = sr1 \ {"TXE", "BTF"}
  /\ UNCHANGED <<driving, armed, extra, vars>>

\* ... an address or a byte sent, acknowledged or not: DR is free when the byte
\* moves to the shift register, BTF is set when that is empty too, ...
BusSent ==
  /\ shift \in {"address", "out"}
  /\ \/ sr1' = sr1 \cup (IF shift = "address" THEN {"ADDR"} ELSE {"TXE", "BTF"})
     \/ sr1' = sr1 \cup {"AF"}
  /\ shift' = "none"
  /\ UNCHANGED <<driving, cr1, armed, extra, vars>>

BusTxe ==
  /\ shift = "out" /\ "TXE" \notin sr1
  /\ sr1' = sr1 \cup {"TXE"}
  /\ UNCHANGED <<driving, cr1, armed, shift, extra, vars>>

\* ... and a byte received, into DR or behind it: the slave goes on as long as it
\* is acknowledged and no STOP is asked for.
BusReceived ==
  /\ shift = "in" /\ "BTF" \notin sr1
  /\ sr1' = sr1 \cup {IF "RXNE" \in sr1 THEN "BTF" ELSE "RXNE"}
  /\ shift' = IF "ACK" \in cr1 /\ "STOP" \notin cr1 THEN "in" ELSE "none"
  /\ extra' = (extra \/ ( /\ st \in {"read", "receive"} /\ "ACK" \in cr1
                          /\ Op[2] = stByte + Cardinality(sr1 \cap {"RXNE"}) + 1))
  /\ UNCHANGED <<driving, cr1, armed, vars>>

\* What is shifted may be lost to another master, to a misplaced start or stop, or
\* to nobody reading it.
BusFails ==
  /\ shift # "none" /\ "ERR" \notin sr1
  /\ sr1' = sr1 \cup {"ERR"} /\ shift' = "none"
  /\ UNCHANGED <<driving, cr1, armed, extra, vars>>

\* isr_ev and isr_er: both enables masked, and the signal.
StIsr ==
  /\ armed /\ sr1 \cap ({"SB", "ADDR", "BTF"} \cup Errors) # {}
  /\ armed' = FALSE
  /\ SignalIsr
  /\ UNCHANGED <<driving, sr1, cr1, shift, extra>>

StStep ==
  \/ \E t \in StTransactions : StTransaction(t) \/ StAsyncTransaction(t)
  \/ StReset \/ StArm \/ StStart \/ StAddress \/ StPoll \/ StWait \/ StDrop \/ StAnswer
  \/ StWrite \/ StSent \/ StNack \/ StRead
  \/ BusStart \/ BusStop \/ BusSent \/ BusTxe \/ BusReceived \/ BusFails
  \/ StIsr

-----------------------------------------------------------------------------
\* The phase a driver waits for ends with an event that is still to come, or that
\* has been signalled.
PhaseIsHeard ==
  ~stPolls /\ st \in DOMAIN Awaits /\ pc = "pending" => woken \/ armed

\* The address is sent after the start condition of its own transfer.
AddressFollowsStart == st = "send" => "SB" \in sr1

\* The slave is told that the last byte is the last.
LastByteIsNacked == ~extra
=============================================================================
