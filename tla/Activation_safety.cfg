CONSTANTS
  MaxAttempts = 2
  Faults = {"stage", "tools", "close", "removed"}
SPECIFICATION LiveSpec
INVARIANT TimersAreCurrent
INVARIANT EndAhead
PROPERTY PreviousIsKept
PROPERTY FailureRestores
PROPERTY ImplementsOutcome
PROPERTY AttemptEnds
CHECK_DEADLOCK FALSE
