CONSTANTS
  Apps = {watcher}
  Loggers = {l1}
  Nobody = Nobody
  Subscriber = Subscriber
  FileSize = 12
  CameraNodes = 0
  MaxRecords = 12
  Faults = {"kill"}
  Watcher = watcher
  Pictures = {0, 1}
  NoPicture = NoPicture
  Threshold = 1
  MaxFrames = 6
  MaxEvents = 1
SPECIFICATION LiveSpec
INVARIANT WakesOnMotion
PROPERTY WatchEnds
CHECK_DEADLOCK FALSE
