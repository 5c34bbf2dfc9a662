CONSTANTS
  MaxGeneration = 3
  MaxMail = 2
  Faults = {"refused", "timeout", "gone"}
SPECIFICATION EnrollmentSpec
INVARIANT ClaimIsReleased
INVARIANT CancelledIsStopped
INVARIANT StopSparesNewScan
INVARIANT PreviewAfterCapture
CHECK_DEADLOCK FALSE
