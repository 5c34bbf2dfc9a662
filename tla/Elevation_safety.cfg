CONSTANTS
  Requests = {r1, r2}
  NoRequest = NoRequest
  MaxTries = 2
  MaxQueue = 2
  Faults = {"call", "crash", "signal", "deadline", "overdue", "close"}
  InterruptBlocked = TRUE
SPECIFICATION Spec
SYMMETRY Symmetry
INVARIANT GrantIsConsentedAndVerified
INVARIANT FaceCheckNeedsConsent
INVARIANT CancellationIsTheUsers
INVARIANT OneRequestAtATime
INVARIANT NoOrphans
PROPERTY ImplementsDecision
CHECK_DEADLOCK FALSE
