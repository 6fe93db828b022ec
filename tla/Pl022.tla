------------------------------- MODULE Pl022 -------------------------------
(***************************************************************************)
(* The PL022 SPI driver (rivet-bsp-support/src/pl022.rs) in loopback: one  *)
(* task that transfers in chunks of the FIFO's depth, asynchronously with  *)
(* the receive interrupt or word by word, and the controller.              *)
(***************************************************************************)
EXTENDS Signal, SequencesExt

CONSTANTS FIFO_DEPTH,   \* depth of each FIFO
          RX_LEVEL,     \* bytes in the receive FIFO that assert RXIM
          Lengths       \* lengths of the transfers

ASSUME Pl022Assumption == FIFO_DEPTH \in Nat \ {0} /\ RX_LEVEL \in 1..FIFO_DEPTH

VARIABLES
  spi,       \* where the driver is
  mode,      \* "async" or "sync"
  xfer,      \* which transfer this is, modulo 2
  left,      \* its bytes in later chunks
  chunk,     \* the bytes of this chunk
  pushed,    \* those written to DR
  got,       \* what the caller's buffer has
  txfifo, rxfifo,
  rxim,      \* IMSC
  abandoned  \* a transfer was dropped

driver == <<spi, mode, xfer, left, chunk, pushed, got>>
controller == <<txfifo, rxfifo, rxim>>
pl022 == <<driver, controller, abandoned>>

\* init: enabled, in loopback, every interrupt masked.
SpiInit ==
  /\ spi = "idle" /\ mode = "sync" /\ xfer = 0
  /\ left = 0 /\ chunk = 0 /\ pushed = 0 /\ got = <<>>
  /\ txfifo = <<>> /\ rxfifo = <<>> /\ rxim = FALSE
  /\ abandoned = FALSE

\* A transfer of n bytes begins: read, write, transfer or transfer_in_place ...
SpiCall(n, how) ==
  /\ spi = "idle"
  /\ mode' = how /\ left' = n
  /\ xfer' = 1 - xfer /\ got' = <<>>
  /\ spi' = "next"
  /\ UNCHANGED <<chunk, pushed, controller, abandoned, vars>>

\* ... of the blocking trait, and of the async one.
SpiBus(n) == SpiCall(n, "sync")
AsyncSpiBus(n) == SpiCall(n, "async")

\* transfer_async: the next chunk, or the end.  A word is a chunk of its own.
SpiNext ==
  /\ spi = "next"
  /\ IF left = 0
     THEN spi' = "idle" /\ UNCHANGED <<left, chunk, pushed>>
     ELSE LET depth == IF mode = "async" THEN FIFO_DEPTH ELSE 1
              n == IF left < depth THEN left ELSE depth
          IN  /\ chunk' = n /\ left' = left - n /\ pushed' = 0
              /\ spi' = IF mode = "async" THEN "reset" ELSE "push"
  /\ UNCHANGED <<mode, xfer, got, controller, abandoned, vars>>

\* transfer_chunk_async: the latch is cleared, ...
SpiReset ==
  /\ spi = "reset" /\ Reset
  /\ spi' = "unmask"
  /\ UNCHANGED <<mode, xfer, left, chunk, pushed, got, controller, abandoned>>

\* The interrupt stays masked from the second transfer on.
SpiUnmask_Bad ==
  /\ spi = "unmask"
  /\ rxim' = (xfer = 1)
  /\ spi' = "push"
  /\ UNCHANGED <<mode, xfer, left, chunk, pushed, got, txfifo, rxfifo, abandoned, vars>>

\* ... RXIM unmasked, ...
SpiUnmask ==
  /\ spi = "unmask"
  /\ rxim' = TRUE
  /\ spi' = "push"
  /\ UNCHANGED <<mode, xfer, left, chunk, pushed, got, txfifo, rxfifo, abandoned, vars>>

\* ... and the bytes written while the FIFO has room (tx_byte).
SpiPush ==
  /\ spi = "push"
  /\ IF pushed = chunk
     THEN /\ spi' = IF mode = "async" THEN "wait" ELSE "drain"
          /\ UNCHANGED <<pushed, txfifo>>
     ELSE /\ Len(txfifo) < FIFO_DEPTH
          /\ txfifo' = Append(txfifo, <<xfer, Len(got) + pushed + 1>>)
          /\ pushed' = pushed + 1
          /\ UNCHANGED spi
  /\ UNCHANGED <<mode, xfer, left, chunk, got, rxfifo, rxim, abandoned, vars>>

SpiWait ==
  /\ spi = "wait"
  /\ Await \/ Awaited
  /\ spi' = IF pc' = "idle" THEN "drain" ELSE "wait"
  /\ UNCHANGED <<mode, xfer, left, chunk, pushed, got, controller, abandoned>>

\* The future is dropped: the bytes are on their way back.
SpiDrop ==
  /\ spi = "wait" /\ Abandon
  /\ spi' = "idle" /\ abandoned' = TRUE
  /\ UNCHANGED <<mode, xfer, left, chunk, pushed, got, controller>>

\* What is in the receive FIFO is taken for the whole chunk.
SpiDrain_Bad ==
  /\ spi = "drain"
  /\ IF pushed = 0 \/ rxfifo = <<>>
     THEN spi' = "next" /\ UNCHANGED <<pushed, got, rxfifo>>
     ELSE /\ got' = Append(got, Head(rxfifo)) /\ rxfifo' = Tail(rxfifo)
          /\ pushed' = pushed - 1
          /\ UNCHANGED spi
  /\ UNCHANGED <<mode, xfer, left, chunk, txfifo, rxim, abandoned, vars>>

\* rx_byte_poll for every byte of the chunk.
SpiDrain ==
  /\ spi = "drain"
  /\ IF pushed = 0
     THEN spi' = "next" /\ UNCHANGED <<pushed, got, rxfifo>>
     ELSE /\ rxfifo # <<>>
          /\ got' = Append(got, Head(rxfifo)) /\ rxfifo' = Tail(rxfifo)
          /\ pushed' = pushed - 1
          /\ UNCHANGED spi
  /\ UNCHANGED <<mode, xfer, left, chunk, txfifo, rxim, abandoned, vars>>

\* The controller shifts a byte out and in; a full receive FIFO loses it.
SpiShift ==
  /\ txfifo # <<>>
  /\ txfifo' = Tail(txfifo)
  /\ rxfifo' = IF Len(rxfifo) < FIFO_DEPTH THEN Append(rxfifo, Head(txfifo)) ELSE rxfifo
  /\ UNCHANGED <<driver, rxim, abandoned, vars>>

\* isr_ack: every interrupt masked, and the signal.
SpiIsr ==
  /\ rxim /\ Len(rxfifo) >= RX_LEVEL
  /\ rxim' = FALSE
  /\ SignalIsr
  /\ UNCHANGED <<driver, txfifo, rxfifo, abandoned>>

SpiStep ==
  \/ \E n \in Lengths : SpiBus(n) \/ AsyncSpiBus(n)
  \/ SpiNext \/ SpiReset \/ SpiUnmask \/ SpiPush \/ SpiWait \/ SpiDrop \/ SpiDrain
  \/ SpiShift \/ SpiIsr

-----------------------------------------------------------------------------
\* Every byte a caller gets answers the byte it sent, in order, as long as no
\* transfer was dropped halfway.
SpiKeepsOrder == ~abandoned => \A i \in DOMAIN got : got[i] = <<xfer, i>>

\* A transfer that waits is woken: it has been, or the interrupt will come.
TransferIsHeard ==
  spi = "wait" /\ pc = "pending" =>
    woken \/ (rxim /\ Len(rxfifo) + Len(txfifo) >= RX_LEVEL)
=============================================================================
