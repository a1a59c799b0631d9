SPECIFICATION Spec
CONSTANTS
  Handlers = {h1, h2, h3}
  Viewers = {v1}
  None = None
  EntryIds = {1, 2, 3}
  Overlap = TRUE
INVARIANTS TokenOK
PROPERTIES OnlyAnEarlierEndDesyncs
CHECK_DEADLOCK FALSE
