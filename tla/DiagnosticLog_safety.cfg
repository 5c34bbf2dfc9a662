CONSTANTS
  Apps = {app}
  Loggers = {l1, l2}
  Nobody = Nobody
  Subscriber = Subscriber
  FileSize = 1
  CameraNodes = 0
  MaxRecords = 5
  Faults = {"kill", "open", "full"}
SPECIFICATION LiveLogSpec
INVARIANT InOrder
PROPERTY ImplementsHistory
PROPERTY EveryRecordEnds
CHECK_DEADLOCK FALSE
