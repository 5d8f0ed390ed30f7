CONSTANTS
  Task = {t1, t2}
  IdleTask = idle
  NULL = NULL
  taskBaseDynPriority <- LeastBasePriority
  TASK_DYN_PRIO_LIMIT = 1
  US_PER_SYS_TICK = 1
  US_PER_MS = 1
  TimeMod = 4
  Calls = {"start", "kill", "delay"}
  Priorities = {0, 1}
  Delays = {1}
  TickPoints <- HarmlessTickPoints
SYMMETRY TaskSymmetry
SPECIFICATION PSpec
INVARIANTS PTypeOK AtRestInOnePlace
PROPERTIES ImplementsAtomicCalls NeverEarly
