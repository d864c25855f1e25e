SPECIFICATION Spec
CONSTANTS
  MaxPid = 5
  Priorities = {3, 7}
  Terminable = {3, 4, 5}
  SleepTimes = {1}
  TimeSlice = 1
  MaxTick = 2
  CountMod = 6
INVARIANT NeverHangs
CHECK_DEADLOCK FALSE
