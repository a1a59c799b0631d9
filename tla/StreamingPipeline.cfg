SPECIFICATION FairSpec
CONSTANTS
  ForeignLangs = {"bg"}
  None = None
  ViewersChange = TRUE
  MaxSegments = 2
  MaxOrphans = 1
INVARIANTS QueueOK FinalIsAccountedFor
PROPERTIES DrainComplete OnlyOrphansAfterEnd KeepsContracts StopEnds LoopsEnd QueueIsServed
CHECK_DEADLOCK FALSE
