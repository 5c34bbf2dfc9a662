CONSTANTS
  MaxGeneration = 5
  AbortLingers = TRUE
  BeginsMidPassword = TRUE
SPECIFICATION Spec
INVARIANT TypeOK
INVARIANT FaceUnlockIsVerified
INVARIANT PasswordExcludesFace
PROPERTY StaleResultsIgnored
PROPERTY ImplementsContract
CHECK_DEADLOCK FALSE
