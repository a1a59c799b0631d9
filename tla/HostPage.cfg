CONSTANTS
  MaxStarts = 2
  None = None
SPECIFICATION Spec
INVARIANTS ShownOK MicOK ServerKnowsToggles
PROPERTIES FinalizingEnds
