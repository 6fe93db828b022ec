\* One hart, three mutexes of which a task may hold two: a task that locks with
\* a timeout or tries and sleeps, and a holder that may be isolated.
SPECIFICATION MutexSpec
CONSTANTS
  MAX_PTASKS = 3
  NUM_PRIOS = 3
  MAX_HARTS = 1
  SEQ_MOD = 2
  Sleepers = {2}
  Parkers = {}
  Pausable = {}
  Faulters = {1}
  TickHarts = {0}
  BootTasks <- BootLowHigh
  SpawnPrios = {}
  DISPATCH_BOUND = 1
  Mutexes = {x, y, z}
  Lockers = {1, 2}
  Timed = {2}
  Triers = {2}
  MAX_HELD = 2
VIEW View
SYMMETRY Symmetry
INVARIANTS
  BoostLastsAsOwed
  WaiterIsRegistered
  HoldersExclude
PROPERTIES
  SleepLastsToDeadline
