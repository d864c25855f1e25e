SPECIFICATION Spec
CONSTANTS
  Tasks = {t1, t2, t3}
  Events = {1, 2}
  Sets = {1}
  SetSize = 1
  MallocMayFail = TRUE
SYMMETRY Symmetry
INVARIANTS TypeOK AutoResetOnce ListsMatchWaits
PROPERTY SignalsAreNotLost
CHECK_DEADLOCK FALSE
