SPECIFICATION Spec
CONSTANTS
  Tasks = {t1, t2, t3, t4}
  Slots = {1, 2}
  Destroyable = {1, 2}
  MaxNesting = 2
  MallocMayFail = FALSE
  NoTask = NoTask
SYMMETRY Symmetry
INVARIANTS TypeOK CountMatchesOwner NoStrandedWaiter
 
CHECK_DEADLOCK FALSE
