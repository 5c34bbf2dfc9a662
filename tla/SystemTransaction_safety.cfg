CONSTANTS
  Users = {ann, ben, cleo}
  Nobody = Nobody
  Faults = {"fail", "crash"}
  Overlap = FALSE
  Replaceable = {"consent", "face"}
SPECIFICATION Spec
SYMMETRY UserSymmetry
INVARIANT SudoUsable
INVARIANT RegisteredIsServed
INVARIANT CleanAfterLast
PROPERTY RollbackRestores
PROPERTY ImplementsInstallation
CHECK_DEADLOCK FALSE
