\* The QEMU machine, built for both of its harts.
SPECIFICATION DevSpec
CONSTANTS
  Devices = {"boot"}
  Remote = {r1, r2, r3}
  FIFO_DEPTH = 4
  RX_LEVEL = 2
  Lengths = {2, 3, 6}
  Transactions <- MCTransactions
  StTransactions <- MCStTransactions
  TX_CAPACITY = 3
  RX_CAPACITY = 2
  WriterHarts = {0}
  Uarts = {"rp2040", "lm3s6965", "mps2", "usart", "ns16550", "polled"}
  MessageLengths = {1, 3}
  MaxWritten = 5
  Pollers = {p1, p2, p3}
  Dogs = {"software", "rp2040", "stm32f401", "lm3s6965", "mps2"}
  Periods = {0, 2, 3, 6}
  MaxReload = 3
  Width = 5
  MaxTime = 9
  Controllers = {"nvic", "nvic0", "plic", "esp32c6"}
  Irqs = {0, 1}
  MAX_IRQS = 1
  Sources = {0}
  IrqLines = {1, 2}
  IrqCallers = {c1, c2}
  Chips = {"stm32f401", "lm3s6965", "rp2040", "esp32c6", "esp32s3"}
  Pins = {0, 1, 2}
  TogetherAllowed = FALSE
  Clocks = {"mtime", "mtimecmp", "systick", "systimer", "ccount"}
  Readers = {t1, t2}
  Lag <- MCLag
  LowWord = 8
  TickPeriod = 3
  MaxMasked = 4
  MaxInstant = 18
  Bsps = {"qemu_virt"}
  CORES <- MCCores
  RIVET_HARTS <- TwoHarts
  SPAWNS = {0, 1}
INVARIANTS
  HartsHear
CHECK_DEADLOCK FALSE
VIEW View
