CONSTANTS
  TicksPerMs = 2
  TickSpan = 128
  Starts <- MCStarts
  Sleeps <- MCSleeps
  Heartbeat = 7
  Limit = 31
  Values <- MCValues
  Calls <- MCCalls
SPECIFICATION Spec
INVARIANTS LogFollowsState HeartbeatKept
PROPERTIES StopsOnTime
CHECK_DEADLOCK FALSE
