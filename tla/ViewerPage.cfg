CONSTANTS
  Langs = {fr, uk}
  MaxMics = 2
  None = None
  Other = uk
SPECIFICATION MCSpec
INVARIANTS LanguageOK MicOK
PROPERTIES ComesBack
