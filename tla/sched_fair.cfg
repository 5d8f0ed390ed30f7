CONSTANTS
  Task = {t1, t2, t3}
  IdleTask = idle
  NULL = NULL
  taskBaseDynPriority <- CodeBasePriority
  TASK_DYN_PRIO_LIMIT = 254
  US_PER_SYS_TICK = 1
  US_PER_MS = 1
  TimeMod = 2
  Calls = {"init", "start", "delay", "yield"}
  Priorities = {1, 2, 3}
  Delays = {0}
SPECIFICATION FairSpec
INVARIANTS AgingBounded
PROPERTIES NoStarvation
