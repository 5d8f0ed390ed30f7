CONSTANTS
  Task = {t1, t2, t3}
  IdleTask = idle
  NULL = NULL
  taskBaseDynPriority <- ScaleBasePriority
  TASK_DYN_PRIO_LIMIT = 5
  US_PER_SYS_TICK = 1
  US_PER_MS = 1
  TimeMod = 4
  Calls = {"init", "start", "kill", "delay", "yield", "return"}
  Priorities = {1, 4}
  Delays = {0, 1}
SYMMETRY TaskSymmetry
SPECIFICATION Spec
INVARIANTS TypeOK EveryTaskInOnePlace LinksOK RunningIsReady NeverFaults NoneOverdueAtDispatch OverdueOnlyWhileScheduling DynamicPriorityBounded
PROPERTIES StrictAtBothEnds Implements
