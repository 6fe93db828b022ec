\* One hart; one task joins and stops what another of its priority spawns, joins, stops
\* and despawns, from a slot that is recycled and stacks of two sizes.
SPECIFICATION LifeSpec
CONSTANTS
  MAX_PTASKS = 4
  NUM_PRIOS = 3
  MAX_HARTS = 1
  SEQ_MOD = 2
  Sleepers = {1}
  Parkers = {}
  Pausable = {}
  Faulters = {3}
  TickHarts = {0}
  BootTasks <- BootTwins
  SpawnPrios = {}
  DISPATCH_BOUND = 1
  Managers = {1, 2}
  Spawners = {1}
  ChildPrios = {2}
  Sizes = {1, 2}
  BOOT_SIZE = 1
  POOL_LEN = 8
  GUARD = 1
  FREE_LIST_CAP = 2
  GEN_BOUND = 2
VIEW View
INVARIANTS
  StacksDisjoint
  OnlyTasksDispatch
  JoinGetsOwnResult
  JoinerIsWoken
CHECK_DEADLOCK FALSE
