\* One hart: a periodic task with a budget, isolated for the time of another period.
SPECIFICATION KnSpec
CONSTANTS
  Parts = {"accounting"}
  MAX_HARTS = 1
  Values = {a, b}
  N = 3
  SPURIOUS = TRUE
  Acquirers <- ThreeAcquirers
  Priority <- ThreePriorities
  MAX_PRIORITY = 1
  Remote = {r1, r2}
  Droppers = {1, 3}
  MAX = 2
  RELEASE_BOUND = 3
  MAX_PTASKS = 3
  NUM_PRIOS = 3
  SEQ_MOD = 2
  Sleepers = {2}
  Parkers = {}
  Pausable = {}
  Faulters = {2}
  TickHarts = {0}
  BootTasks <- BootPeriodic
  SpawnPrios = {}
  DISPATCH_BOUND = 1
  PERIOD = 3
  BUDGET = 2
  Checkers = {1}
  TIMEOUT = 2
  U32 = 4
  TIME_BOUND = 11
PROPERTIES
  BudgetIsThisPeriods
CHECK_DEADLOCK FALSE
