SPECIFICATION Spec
CONSTANTS
  MaxPid = 4
  Priorities = {3, 7}
  Terminable = {2, 3, 4}
  SleepTimes = {1}
  TimeSlice = 1
  MaxTick = 1
  CountMod = 5
INVARIANTS TypeOK RunningIsCurrent BlockedCountCovers
 
CHECK_DEADLOCK FALSE
