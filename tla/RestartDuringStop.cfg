SPECIFICATION Spec
CONSTANTS
  Handlers = {h1, h2}
  Viewers = {v1, v2}
  None = None
  EntryIds = {1, 2, 3}
  Overlap = TRUE
INVARIANTS
  RegistryInSync
CHECK_DEADLOCK FALSE
