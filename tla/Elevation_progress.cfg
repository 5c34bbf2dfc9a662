CONSTANTS
  Requests = {r1, r2}
  NoRequest = NoRequest
  MaxTries = 1
  MaxQueue = 2
  Faults = {"crash", "deadline", "close"}
  InterruptBlocked = FALSE
SPECIFICATION LiveSpec
PROPERTY OnlyTheUserIsAwaited
CHECK_DEADLOCK FALSE
