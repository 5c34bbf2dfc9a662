CONSTANTS
  MaxGeneration = 4
  AbortLingers = FALSE
  BeginsMidPassword = FALSE
SPECIFICATION LiveSpec
INVARIANT NothingStranded
INVARIANT OneCameraUser
PROPERTY EveryPhaseEnds
PROPERTY SuccessUnlocks
CHECK_DEADLOCK FALSE
