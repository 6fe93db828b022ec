\* Two harts: a sleeper woken before its own hart leaves it.
SPECIFICATION Spec
CONSTANTS
  MAX_PTASKS = 3
  NUM_PRIOS = 3
  MAX_HARTS = 2
  SEQ_MOD = 16
  Sleepers = {1}
  Parkers = {}
  Pausable = {}
  Faulters = {}
  TickHarts = {0}
  BootTasks <- BootTwo
  SpawnPrios = {}
  DISPATCH_BOUND = 5
INVARIANTS
  SingleOwner
