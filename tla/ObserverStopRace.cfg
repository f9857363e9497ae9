CONSTANTS
  t1 = t1
  t2 = t2
  Threads = {t1}
  ConfigFiles <- AllConfigs
  Room = 1
  MaxCalls = 0
SPECIFICATION SafetySpec
INVARIANTS ObservingStopsWithTheWriter
CHECK_DEADLOCK FALSE
