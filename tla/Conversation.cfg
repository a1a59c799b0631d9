CONSTANTS
  Segs = {1, 2}
  SaidByHost = {1}
  Foreign = fr
  None = None
SPECIFICATION MCSpec
INVARIANTS  PagesAgree ProtocolFaithful
PROPERTIES OnceAndInTurn SpeechEnds TranslationArrives
CHECK_DEADLOCK FALSE
