SPECIFICATION Spec
CONSTANTS
  Viewers = {v1, v2}
  None = None
  Stability = 1
  ReleaseDelay = 2
  Window = 3
  MaxBuffer = 4
  MinAudio = 1
  MaxLag = 1
  MaxNow = 4
  JobTimes = {3}
INVARIANTS ClockOK 
PROPERTIES ClockBackOnlyWhenIdle AnchorDriftBounded
SYMMETRY ViewerSymmetry
CHECK_DEADLOCK FALSE
