------------------------------ MODULE MCDevices ------------------------------
(***************************************************************************)
(* Every driver and every other part of a board, one at a time: which one  *)
(* is chosen in the first state.                                           *)
(***************************************************************************)
EXTENDS Pl022, StellarisI2c, Stm32I2c, ExtiWait, Console, Watchdog, IrqTable,
  Gpio, Clocks, Boot

VARIABLE device    \* the part

CONSTANT Devices   \* the parts that are checked

MCTransactions == {<< <<"write", 2>>, <<"read", 2>> >>}
MCStTransactions == {<< <<"read", 3>>, <<"write", 2>> >>, << <<"read", 1>> >>}

\* The harts' cycle counters: started together, and one after another.
MCLag == [r \in Readers |-> 0]
MCLagged == [r \in Readers |-> IF r = CHOOSE x \in Readers : TRUE THEN 0 ELSE 1]

\* The QEMU machine starts two harts of which the build uses one, the S3 uses both
\* of its cores.
MCCores == [b \in Bsps |-> IF b \in {"qemu_virt", "esp32s3"} THEN 2 ELSE 1]
MCHarts == [b \in Bsps |-> IF b = "esp32s3" THEN 2 ELSE 1]
TwoHarts == [b \in Bsps |-> 2]

drivers == <<vars, pl022, stellaris, stm32i2c, exti>>
board == <<console, watchdog, irqTable, gpio, clocks, boot>>
devices == <<device, drivers, board>>

\* The parts that were not chosen start in one state.
Choose(part, x, S) == device # part => x = CHOOSE y \in S : TRUE

DevInit ==
  /\ device \in Devices
  /\ Init
  /\ SpiInit /\ IcInit /\ StInit /\ ExInit
  /\ ConInit /\ Choose("console", uart, Uarts)
  /\ WdInit /\ Choose("watchdog", dog, Dogs)
  /\ IqInit /\ Choose("irq", intc, Controllers)
  /\ GpInit /\ Choose("gpio", chip, Chips)
  /\ ClInit /\ Choose("clock", clock, Clocks)
  /\ BtInit /\ (device # "boot" => bsp = "lm3s6965" /\ Len(steps) = Len(Script(bsp, 0)))

DevNext ==
  /\ UNCHANGED device
  /\ \/ /\ UNCHANGED board
        /\ \/ device = "signal" /\ Next /\ UNCHANGED <<pl022, stellaris, stm32i2c, exti>>
           \/ device = "pl022" /\ SpiStep /\ UNCHANGED <<stellaris, stm32i2c, exti>>
           \/ device = "stellaris" /\ IcStep /\ UNCHANGED <<pl022, stm32i2c, exti>>
           \/ device = "stm32i2c" /\ StStep /\ UNCHANGED <<pl022, stellaris, exti>>
           \/ device = "exti" /\ ExStep /\ UNCHANGED <<pl022, stellaris, stm32i2c>>
     \/ /\ UNCHANGED drivers
        /\ \/ device = "console" /\ ConStep /\ UNCHANGED <<watchdog, irqTable, gpio, clocks, boot>>
           \/ device = "watchdog" /\ WdStep /\ UNCHANGED <<console, irqTable, gpio, clocks, boot>>
           \/ device = "irq" /\ IqStep /\ UNCHANGED <<console, watchdog, gpio, clocks, boot>>
           \/ device = "gpio" /\ GpStep /\ UNCHANGED <<console, watchdog, irqTable, clocks, boot>>
           \/ device = "clock" /\ ClStep /\ UNCHANGED <<console, watchdog, irqTable, gpio, boot>>
           \/ device = "boot" /\ BtStep /\ UNCHANGED <<console, watchdog, irqTable, gpio, clocks>>

\* Once a transfer was dropped the bytes tell nothing apart; nothing depends on
\* an interrupt's priority.
View ==
  << device, vars, stellaris, stm32i2c, exti, spi, mode, left, chunk, pushed, rxim, abandoned,
     IF abandoned THEN <<Len(got), Len(txfifo), Len(rxfifo)>>
     ELSE <<xfer, got, txfifo, rxfifo>>,
     console, watchdog, gpio, clocks, boot,
     intc, table, enabled, matrix, pend, isr, frames, asked,
     [c \in IrqCallers |-> <<call[c].at, call[c].irq, call[c].word>>] >>

\* Whoever a peripheral's interrupt belongs to hears it.
DriversAreHeard == TransferIsHeard /\ PhaseIsHeard /\ EdgeIsHeard

\* What a driver hands to its caller is its own transfer's: the bytes, in order,
\* and the status.
TransfersAreOwn == SpiKeepsOrder /\ StatusIsOwn

DevSpec == DevInit /\ [][DevNext]_devices
=============================================================================
