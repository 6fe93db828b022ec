SPECIFICATION Spec
CONSTANTS
  MAX_PTASKS = 3
  MAX_HARTS = 2
  Boards <- Builds
  BootTasks = {0, 1}
  Returners = {1}
  LAPS = 2
  Sources = {1}
  BOOTSTRAP_CAPACITY = 5
  REFUSALS = 1
INVARIANTS
  StacksAreSeparate
  ResumesWhereItStopped
  ClaimsCompleted
CHECK_DEADLOCK FALSE
VIEW View
