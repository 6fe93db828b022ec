------------------------------ MODULE Console ------------------------------
(***************************************************************************)
(* The console (console.rs) over a board's UART: the interrupt-driven      *)
(* transmit ring, drained by the UART's handler on hart 0, the receive     *)
(* ring, flush_sync before the board resets or exits, and the polling      *)
(* write of the boards that never call enable_irq_tx.  Bytes are numbered  *)
(* in the order they are written.                                          *)
(***************************************************************************)
EXTENDS Integers, Sequences

CONSTANTS
  TX_CAPACITY, RX_CAPACITY,
  WriterHarts,      \* the harts whose tasks write
  Uarts,            \* the UARTs that are checked
  MessageLengths,   \* of one write_bytes call
  MaxWritten,       \* bound: bytes written, and bytes received
  Pollers           \* the tasks that write on a board that polls

VARIABLES
  uart,                     \* which UART the board has
  head, tail, slots,        \* TX_CHANNEL
  wire, thr, txim, txis,    \* what was sent; the holding register; the
                            \* transmit interrupt's enable bit and status
  at,                       \* where the writer and the handler are
  hand, mark,               \* the byte and the head each has read
  hart, toSend, then,         \* the writer's hart, its bytes left, what its pop is for
  written,                  \* bytes write_bytes has taken
  halted,                   \* the board was reset or has exited
  rx, rxdr, arrived,        \* RX_CHANNEL, the receive register, bytes received
  lock, section, poller, sent  \* CONSOLE_WRITE_LOCK, the critical section of
                               \* the board's write, each polling task, its bytes

txChannel == <<head, tail, slots>>
txUart == <<wire, thr, txim, txis>>
pops == <<at, hand, mark>>
writer == <<hart, toSend, then, written, halted>>
receive == <<rx, rxdr, arrived>>
polling == <<lock, section, poller, sent>>
console == <<uart, txChannel, txUart, pops, writer, receive, polling>>

NoByte == 0
Nobody == "nobody"

ConInit ==
  /\ uart \in Uarts
  /\ head = 0 /\ tail = 0 /\ slots = [i \in 0 .. TX_CAPACITY - 1 |-> NoByte]
  /\ wire = <<>> /\ thr = NoByte /\ txim = FALSE /\ txis = FALSE
  /\ at = [writer |-> "out", isr |-> "out"]
  /\ hand = [writer |-> NoByte, isr |-> NoByte] /\ mark = [writer |-> 0, isr |-> 0]
  /\ hart = 0 /\ toSend = 0 /\ then = "kick" /\ written = 0 /\ halted = FALSE
  /\ rx = <<>> /\ rxdr = NoByte /\ arrived = 0
  /\ lock = Nobody /\ section = Nobody
  /\ poller = [p \in Pollers |-> "out"] /\ sent = <<>>

-----------------------------------------------------------------------------
\* Each board's uart_irq_handler and console_kick_tx: when the handler finds
\* the transmitter free, whether it looks at it before the receiver, and
\* whether unmasking the interrupt raises it.
Pl011_rp2040 == [free |-> txim /\ txis, txFirst |-> TRUE, edge |-> FALSE]
Pl011_lm3s6965 == [free |-> txim /\ txis, txFirst |-> TRUE, edge |-> FALSE]
\* INTSTATUS is not masked by the enable bit.
Cmsdk == [free |-> txis, txFirst |-> TRUE, edge |-> FALSE]
\* TXE and TXEIE: the data register is empty.
Usart == [free |-> txim /\ thr = NoByte, txFirst |-> TRUE, edge |-> FALSE]
Ns16550 == [free |-> txim /\ txis, txFirst |-> FALSE, edge |-> TRUE]

Board ==
  CASE uart = "rp2040" -> Pl011_rp2040
    [] uart = "lm3s6965" -> Pl011_lm3s6965
    [] uart = "mps2" -> Cmsdk
    [] uart = "usart" -> Usart
    [] uart = "ns16550" -> Ns16550

\* A byte written to the data register.  The UARTs of the machines QEMU
\* emulates send it there and then, and raise the interrupt; the others hold
\* one byte at least.
Immediate == uart \in {"lm3s6965", "mps2", "ns16550"}

SendNow(b) == wire' = Append(wire, b) /\ txis' = TRUE /\ UNCHANGED <<thr, txim>>
Hold(b) == thr = NoByte /\ thr' = b /\ txis' = FALSE /\ UNCHANGED <<wire, txim>>
Emit(b) == IF Immediate THEN SendNow(b) ELSE Hold(b)

Shift ==
  /\ thr # NoByte
  /\ wire' = Append(wire, thr) /\ thr' = NoByte /\ txis' = TRUE
  /\ UNCHANGED <<uart, txChannel, txim, pops, writer, receive, polling>>

Move(c, place) == at' = [at EXCEPT ![c] = place]

\* tx_irq_next_byte: try_recv reads the head and the slot, ...
Load(c) ==
  /\ at[c] = "load"
  /\ IF head = tail
       THEN hand' = [hand EXCEPT ![c] = NoByte] /\ Move(c, "got") /\ UNCHANGED mark
       ELSE /\ hand' = [hand EXCEPT ![c] = slots[head % TX_CAPACITY]]
            /\ mark' = [mark EXCEPT ![c] = head]
            /\ Move(c, "take")
  /\ UNCHANGED <<uart, txChannel, txUart, writer, receive, polling>>

\* ... and moves the head on.
Take(c) ==
  /\ at[c] = "take"
  /\ head' = mark[c] + 1
  /\ Move(c, "got")
  /\ UNCHANGED <<uart, tail, slots, txUart, hand, mark, writer, receive, polling>>

-----------------------------------------------------------------------------
\* The handler runs on hart 0, so that no task of hart 0 runs beside it.
Excluded(h) == h = 0 => at["isr"] = "out"

\* write_bytes_irq: the critical section, ...
WriteBytes(h, n) ==
  /\ at["writer"] = "out" /\ ~halted /\ Excluded(h)
  /\ written + n <= MaxWritten
  /\ hart' = h /\ toSend' = n
  /\ Move("writer", "push")
  /\ UNCHANGED <<uart, txChannel, txUart, hand, mark, then, written, halted, receive, polling>>

\* ... each byte, for which a full ring gives up its oldest, ...
PushByte ==
  /\ at["writer"] = "push"
  /\ IF toSend > 0 /\ tail - head < TX_CAPACITY - 1
       THEN /\ slots' = [slots EXCEPT ![tail % TX_CAPACITY] = written + 1]
            /\ tail' = tail + 1
            /\ toSend' = toSend - 1 /\ written' = written + 1
            /\ UNCHANGED <<then, at>>
       ELSE /\ then' = IF toSend > 0 THEN "push" ELSE "kick"
            /\ Move("writer", "load")
            /\ UNCHANGED <<slots, tail, toSend, written>>
  /\ UNCHANGED <<uart, head, txUart, hand, mark, hart, halted, receive, polling>>

\* ... the bytes popped and written by hand: the oldest of a full ring, the one
\* that primes the transmitter, all that flush_sync finds.  A ring that was
\* full and is empty ends the loop of its byte.
PutByte ==
  /\ at["writer"] = "got"
  /\ IF hand["writer"] # NoByte
       THEN /\ Emit(hand["writer"])
            /\ Move("writer", IF then = "flush" THEN "load" ELSE then)
            /\ UNCHANGED <<toSend, written, halted>>
       ELSE /\ Move("writer", IF then = "flush" THEN "out" ELSE then)
            /\ toSend' = IF then = "push" THEN toSend - 1 ELSE toSend
            /\ written' = IF then = "push" THEN written + 1 ELSE written
            /\ halted' = (then = "flush")
            /\ UNCHANGED txUart
  /\ UNCHANGED <<uart, txChannel, hand, mark, hart, then, receive, polling>>

\* ... and the transmit interrupt.  Enabling it raises it in a 16550 whose
\* holding register is empty.
KickTx ==
  /\ at["writer"] = "kick"
  /\ txim' = TRUE
  /\ txis' = (txis \/ Board.edge)
  /\ Move("writer", "out")
  /\ UNCHANGED <<uart, txChannel, wire, thr, hand, mark, writer, receive, polling>>

\* flush_sync, before reset and exit.
FlushSync(h) ==
  /\ at["writer"] = "out" /\ ~halted /\ Excluded(h)
  /\ hart' = h /\ then' = "flush"
  /\ Move("writer", "load")
  /\ UNCHANGED <<uart, txChannel, txUart, hand, mark, toSend, written, halted, receive, polling>>

-----------------------------------------------------------------------------
\* uart_irq_handler: taken on hart 0 when the section is not held there, ...
IsrEnter_Bad ==
  /\ at["isr"] = "out" /\ ~halted
  /\ (txim /\ Board.free) \/ rxdr # NoByte
  /\ Move("isr", "test")
  /\ UNCHANGED <<uart, txChannel, txUart, hand, mark, writer, receive, polling>>

IsrEnter ==
  /\ at["isr"] = "out" /\ ~halted
  /\ at["writer"] # "out" => hart # 0
  /\ (txim /\ Board.free) \/ rxdr # NoByte
  /\ Move("isr", "test")
  /\ UNCHANGED <<uart, txChannel, txUart, hand, mark, writer, receive, polling>>

\* ... it looks at the transmitter and then at the receiver, a 16550 the other
\* way round; the QEMU machines' status is acknowledged before the pop, ...
RxFirst == rxdr # NoByte /\ (~Board.txFirst \/ ~Board.free)

IsrTx ==
  /\ at["isr"] = "test" /\ Board.free /\ ~RxFirst
  /\ txis' = IF Immediate THEN FALSE ELSE txis
  /\ Move("isr", "load")
  /\ UNCHANGED <<uart, txChannel, wire, thr, txim, hand, mark, writer, receive, polling>>

\* ... on_rx_byte drops what a full ring has no room for, ...
IsrRx ==
  /\ at["isr"] = "test" /\ RxFirst
  /\ rx' = IF Len(rx) < RX_CAPACITY - 1 THEN Append(rx, rxdr) ELSE rx
  /\ rxdr' = NoByte
  /\ UNCHANGED <<uart, txChannel, txUart, pops, writer, arrived, polling>>

IsrLeave ==
  /\ at["isr"] = "test" /\ ~Board.free /\ rxdr = NoByte
  /\ Move("isr", "out")
  /\ UNCHANGED <<uart, txChannel, txUart, hand, mark, writer, receive, polling>>

\* ... the byte is sent, and an empty ring masks the interrupt.
IsrPut ==
  /\ at["isr"] = "got"
  /\ IF hand["isr"] # NoByte THEN Emit(hand["isr"])
                             ELSE txim' = FALSE /\ UNCHANGED <<wire, thr, txis>>
  /\ Move("isr", "test")
  /\ UNCHANGED <<uart, txChannel, hand, mark, writer, receive, polling>>

RxArrive ==
  /\ arrived < MaxWritten
  /\ arrived' = arrived + 1 /\ rxdr' = arrived + 1
  /\ UNCHANGED <<uart, txChannel, txUart, pops, writer, rx, polling>>

TryReadByte ==
  /\ rx # <<>> /\ at["isr"] = "out"
  /\ rx' = Tail(rx)
  /\ UNCHANGED <<uart, txChannel, txUart, pops, writer, rxdr, arrived, polling>>

IrqStep ==
  \/ Shift
  \/ \E c \in {"writer", "isr"} : Load(c) \/ Take(c)
  \/ \E h \in WriterHarts : FlushSync(h) \/ \E n \in MessageLengths : WriteBytes(h, n)
  \/ PushByte \/ PutByte \/ KickTx
  \/ IsrEnter \/ IsrTx \/ IsrRx \/ IsrLeave \/ IsrPut
  \/ RxArrive \/ TryReadByte

-----------------------------------------------------------------------------
\* write_bytes on a board that polls: the lock, for which it does not wait for
\* ever, ...
TryLock(p) ==
  /\ poller[p] = "out"
  /\ \/ lock = Nobody /\ lock' = p /\ poller' = [poller EXCEPT ![p] = "locked"]
     \/ lock # Nobody /\ poller' = [poller EXCEPT ![p] = "unlocked"] /\ UNCHANGED lock
  /\ UNCHANGED <<section, sent>>

\* ... the board's console_write, which takes the critical section for the whole
\* message, ...
EnterWrite(p) ==
  /\ poller[p] \in {"locked", "unlocked"}
  /\ section = Nobody /\ section' = p
  /\ sent' = Append(sent, p)
  /\ poller' = [poller EXCEPT ![p] = IF lock = p THEN "locked2" ELSE "unlocked2"]
  /\ UNCHANGED lock

LeaveWrite(p) ==
  /\ poller[p] \in {"locked2", "unlocked2"}
  /\ section' = Nobody
  /\ sent' = Append(sent, p)
  /\ poller' = [poller EXCEPT ![p] = IF @ = "locked2" THEN "unlock" ELSE "done"]
  /\ UNCHANGED lock

\* ... and the lock's release.
Unlock(p) ==
  /\ poller[p] = "unlock"
  /\ lock' = Nobody
  /\ poller' = [poller EXCEPT ![p] = "done"]
  /\ UNCHANGED <<section, sent>>

PollStep ==
  /\ \E p \in Pollers : TryLock(p) \/ EnterWrite(p) \/ LeaveWrite(p) \/ Unlock(p)
  /\ UNCHANGED <<uart, txChannel, txUart, pops, writer, receive>>

ConStep == (uart # "polled" /\ IrqStep) \/ (uart = "polled" /\ PollStep)

-----------------------------------------------------------------------------
Popped(c) == IF at[c] = "got" /\ hand[c] # NoByte THEN <<hand[c]>> ELSE <<>>
Sent == IF thr = NoByte THEN wire ELSE Append(wire, thr)
Ring == [i \in 1 .. tail - head |-> slots[(head + i - 1) % TX_CAPACITY]]

\* Every byte written is sent, in the ring, or in the hand of one of the two
\* that pop, once and in order.
BytesInOrder == Sent \o Popped("writer") \o Popped("isr") \o Ring = [i \in 1 .. written |-> i]

\* A message that a polling board writes is not cut by another's.
MessagesAreWhole == \A i \in 1 .. Len(sent) \div 2 : sent[2 * i - 1] = sent[2 * i]

ConsoleKeepsOrder == BytesInOrder /\ MessagesAreWhole

\* Bytes that wait in the ring when nobody writes have a transmit interrupt to
\* come, and none is left in it when the board stops.
ConsoleDrains ==
  /\ at["writer"] = "out" /\ at["isr"] = "out" /\ head # tail =>
       txim /\ (Board.free \/ thr # NoByte)
  /\ halted => head = tail

\* What is written reaches the wire, in the order it was written.
ConsoleDelivers == ConsoleKeepsOrder /\ ConsoleDrains
=============================================================================
