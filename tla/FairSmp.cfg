\* Two harts, the second without a tick: two tasks that take turns, and two above
\* them that sleep.
SPECIFICATION FSpec
CONSTANTS
  MAX_PTASKS = 5
  NUM_PRIOS = 4
  MAX_HARTS = 2
  SEQ_MOD = 16
  Sleepers = {3, 4}
  Parkers = {}
  Pausable = {}
  Faulters = {}
  TickHarts = {0}
  BootTasks <- BootLadder
  SpawnPrios = {}
  DISPATCH_BOUND = 5
PROPERTIES
  OvertakenAtMostOnce
  InversionEnds
CHECK_DEADLOCK FALSE
