SPECIFICATION Spec
CONSTANTS
  Drained = TRUE
  MaxWorkers = 3
  MaxTasks = 1
  MaxResizes = 3
INVARIANTS
  ThreadsExact
PROPERTIES
  EachTaskOnce
  TasksStart
  
CHECK_DEADLOCK FALSE
