SPECIFICATION Spec
CONSTANTS
  Words <- MCWords
  WordLen <- MCWordLen
  Lower <- MCLower
  Langs <- MCLangs
  Speakers = {"SPEAKER_00", "SPEAKER_01"}
  Roles = {"german", "foreign"}
  None = None
  Batches <- MCBatches
  Times <- MCTimes
  STABILITY_SEC = 15
  PrefixScope = 2
  MaxCalls = 4
INVARIANTS IInv TextFromOwnSpeaker
PROPERTIES RedetectionOpensNothing ImplementsLedger
CHECK_DEADLOCK FALSE
