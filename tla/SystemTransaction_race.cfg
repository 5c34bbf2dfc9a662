CONSTANTS
  Users = {ann, ben}
  Nobody = Nobody
  Faults = {}
  Overlap = TRUE
  Replaceable = {}
SPECIFICATION Spec
SYMMETRY UserSymmetry
INVARIANT OtherUsersKeepComponents
CHECK_DEADLOCK FALSE
