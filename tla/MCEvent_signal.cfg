SPECIFICATION Spec
CONSTANTS
  Tasks = {t1, t2}
  Events = {1, 2}
  Sets = {1}
  SetSize = 1
  MallocMayFail = FALSE
PROPERTY SignalEndsWait
CHECK_DEADLOCK FALSE
