CONSTANTS
  t1 = t1
  t2 = t2
  Threads = {t1}
  ConfigFiles <- FewConfigs
  Room = 1
  MaxCalls = 1
SPECIFICATION Spec
PROPERTIES CapturesReachTheLog RecordingEnds
CHECK_DEADLOCK FALSE
