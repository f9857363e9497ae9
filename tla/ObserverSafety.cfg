CONSTANTS
  t1 = t1
  t2 = t2
  Threads = {t1, t2}
  ConfigFiles <- AllConfigs
  Room = 1
  MaxCalls = 2
SPECIFICATION SafetySpec
SYMMETRY Symmetry
INVARIANTS TypeOK CapturesHaveAWriter WriterGoneForGood NoAbortAfterInstall CountsCoverTheLog LossesAreLast
CHECK_DEADLOCK FALSE
