SPECIFICATION Spec
CONSTANTS
  Tasks = {t1, t2}
  Slots = {1}
  Destroyable = {}
  MaxNesting = 1
  MallocMayFail = FALSE
  NoTask = NoTask
INVARIANT MutualExclusion
CHECK_DEADLOCK FALSE
