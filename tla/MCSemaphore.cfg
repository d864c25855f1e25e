SPECIFICATION Spec
CONSTANTS
  Tasks = {t1, t2, t3}
  Slots = {1, 2}
  Destroyable = {1, 2}
  InitialValues <- Initials
  MaxValue = 2
  MaxPosts = 2
  MallocMayFail = TRUE
INVARIANTS TypeOK WaitersMeanNoPermit PermitsConserved BlockedIsQueued
SYMMETRY Symmetry
CHECK_DEADLOCK FALSE
