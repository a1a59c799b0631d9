CONSTANTS
  None = None
  Emails = {a, b, c}
  MaxOps = 2
  Broken = Broken
  Texts = {hello, bye}
  Langs = {de, en}
  SrcDefault = de
  TgtDefault = en
  MaxEdits = 5
  Guests = {g}
  MaxRequests = 2
  MaxRecordings = 2
  MaxWaiting = 2
  MaxSegs = 2
  MaxHyps = 2
  MaxUpdates = 2
  MaxForced = 2
SPECIFICATION SideSpec
INVARIANTS AdminOK ResultOK ConsentOK FinalsOK OnlyMeetingUpdatesLose
PROPERTIES Settles CallAloneClearsFinal
CHECK_DEADLOCK FALSE
