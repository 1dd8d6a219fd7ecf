\* Two threads that wait for one stamp to expire.
CONSTANTS
  t1 = t1
  t2 = t2
  Threads = {t1, t2}
  RpcCounts = {2}
  Rps = 1
  Second = 2
  MaxRequests = 3
  Horizon = 6
  NoPipeline = NoPipeline
  WINDOW_MS = 4
  MAX_PER_WINDOW = 2
  ClockSteps = {1, 3, 6}
  LastMs = 14
SPECIFICATION MCSpec
SYMMETRY MCSymmetry
INVARIANT Ceiling
CHECK_DEADLOCK FALSE
