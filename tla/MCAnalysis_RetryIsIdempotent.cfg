\* One analysis, one slot: a first attempt that fails after its first phase.
CONSTANTS
  a1 = a1
  a2 = a2
  c1 = c1
  Analyses = {a1}
  Customers = {c1}
  CustomerOf <- MCCustomerOf
  MaxConcurrent <- MCOneAtATime
  RequestBodies <- MCGoodBody
  Slots = {s1}
  Attempts = 3
  MaxStalledCount = 0
  MockMode = FALSE
  NoSlot = NoSlot
  NoAnalysis = NoAnalysis
SPECIFICATION Spec
INVARIANT RetryIsIdempotent
