\* Two tasks that share a priority and are woken from another hart, one that is
\* alone, interrupts on the executor's own hart, and two sleepers.
SPECIFICATION TimerSpec
CONSTANTS
  Tasks <- ThreeTasks
  MAX_PRIORITY = 1
  Priority <- SharedPriority
  Remote = {r1}
  RemoteTasks = {1, 2}
  WAKE_BOUND = 1
  Sleepers = {2, 3}
  Micros = {1,2}
  MAX_TIMERS = 2
  TIME_BOUND = 3
INVARIANTS
  WakesAreKept
PROPERTIES
  WokenIsPolled
  SleeperReturns
CHECK_DEADLOCK FALSE
