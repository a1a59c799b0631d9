SPECIFICATION Spec
CONSTANTS
  Viewers = {v1, v2}
  None = None
  Stability = 1
  ReleaseDelay = 2
  Window = 3
  MaxBuffer = 4
  MinAudio = 1
  MaxLag = 0
  MaxNow = 5
  JobTimes = {3}
PROPERTIES AnchorsAscend
CHECK_DEADLOCK FALSE
