SPECIFICATION Spec
CONSTANTS
  Fan = 2
  Top = 1
  NFrames = 4
  NTables = 8
  Dirs = {d1, d2}
  MapCalls <- MCMapCalls
  UnmapCalls <- MCUnmapCalls
  FaultPages = {0, 3}
  CowModes = {TRUE, FALSE}
  CounterSize = 4
INVARIANTS TypeOK WritableIsPrivate NoDanglingMapping ValidationPasses TablesAccountedFor
PROPERTY MappedStaysPut
CHECK_DEADLOCK FALSE
SYMMETRY Symmetry
