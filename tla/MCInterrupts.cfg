CONSTANTS
  Lines = {0, 1, 2, 9}
  Behaviour <- MCBehaviour
  Vectors = {14, 129}
  MaxFrames = 3
SPECIFICATION FairSpec
INVARIANTS
  TypeOK
  EachSignalEndsItsOwn
  MasksMatchCalls
PROPERTIES
  TimerIsTaken
CHECK_DEADLOCK FALSE
