SPECIFICATION FairSpec
CONSTANTS
  Handlers = {h1, h2}
  Viewers = {v1, v2}
  None = None
  EntryIds = {1, 2}
  Overlap = FALSE
INVARIANTS RegistryInSync
PROPERTIES WaitingViewersLearn
CHECK_DEADLOCK FALSE
