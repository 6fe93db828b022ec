\* Two harts, one of them without a tick.
SPECIFICATION Spec
CONSTANTS
  MAX_PTASKS = 3
  NUM_PRIOS = 3
  MAX_HARTS = 2
  SEQ_MOD = 16
  Sleepers = {1}
  Parkers = {2}
  Pausable = {1, 2}
  Faulters = {1}
  TickHarts = {0}
  BootTasks <- BootOneFree
  SpawnPrios = {1, 2}
  DISPATCH_BOUND = 5
INVARIANTS
  HartsMatchTasks
  QueueConsistent
PROPERTIES
  DispatchesHighest
CHECK_DEADLOCK FALSE
