SPECIFICATION Spec
CONSTANTS
  Tasks = {k, t1, t2}
  Kernel = k
  Regions = {1, 2}
  Frames = {f1, f2, f3}
  Boot <- TwoRegions
  MaxPages = 2
  MaxMappings = 2
  MallocMayFail = TRUE
  ExpandMayFail = TRUE
  Sticky = {t1}
SYMMETRY Symmetry
INVARIANTS TypeOK FramesAccounted ViewsAgree
PROPERTY NothingLeftUnshared
CHECK_DEADLOCK FALSE
