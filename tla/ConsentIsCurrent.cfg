CONSTANTS
  Guests = {g}
  MaxRequests = 2
  MaxRecordings = 2
  MaxWaiting = 2
  None = None
SPECIFICATION Spec
INVARIANTS ConsentIsCurrent
CHECK_DEADLOCK FALSE
