SPECIFICATION Spec
CONSTANTS
  NoTask = NoTask
  Tasks = {t1, t2, t3}
  Slots = {1, 2}
  Destroyable = {2}
  Sizes = {0, 1, 2, 1001}
  Priorities = {0, 9}
  MaxId = 3
  MallocMayFail = TRUE
  MESSAGE_FLAG_BLOCKING = 1
SYMMETRY Symmetry
INVARIANTS TypeOK SlotsAccounted NotBothStuck
PROPERTY IsPriorityChannel
CHECK_DEADLOCK FALSE
