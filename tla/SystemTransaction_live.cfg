CONSTANTS
  Users = {ann, ben}
  Nobody = Nobody
  Faults = {}
  Overlap = TRUE
  Replaceable = {}
SPECIFICATION LiveSpec
INVARIANT LegacyIsKept
PROPERTY EveryCommandEnds
CHECK_DEADLOCK FALSE
