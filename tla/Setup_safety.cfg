CONSTANTS
  MaxGeneration = 1
  MaxMail = 1
  MaxPolls = 2
  Faults = {"refused", "timeout", "gone", "setup", "activation"}
SPECIFICATION LiveSpec
INVARIANT UpdatedIsComplete
PROPERTY QuietExits
CHECK_DEADLOCK FALSE
