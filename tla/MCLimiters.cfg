\* Two threads, a limiter of one RPC in two ticks; a window of 4 ticks that
\* admits 2 ingests, over 14 ticks: several windows.
CONSTANTS
  t1 = t1
  t2 = t2
  Threads = {t1, t2}
  RpcCounts = {2}
  Rps = 1
  Second = 2
  MaxRequests = 3
  Horizon = 6
  NoPipeline = NoPipeline
  WINDOW_MS = 4
  MAX_PER_WINDOW = 2
  ClockSteps = {1, 3, 6}
  LastMs = 14
SPECIFICATION MCSpec
SYMMETRY MCSymmetry
INVARIANTS
  ReportCovers
  RacesCostOneEach
  WindowRespected
PROPERTY RefusalJustified
CHECK_DEADLOCK FALSE
