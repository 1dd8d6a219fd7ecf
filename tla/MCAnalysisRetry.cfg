\* The real attempts (3) and stall limit (1), every size of list, one slot.
CONSTANTS
  a1 = a1
  a2 = a2
  c1 = c1
  Analyses = {a1}
  Customers = {c1}
  CustomerOf <- MCCustomerOf
  MaxConcurrent <- MCOneAtATime
  RequestBodies <- MCAllBodies
  Slots = {s1}
  Attempts = 3
  MaxStalledCount = 1
  MockMode = FALSE
  NoSlot = NoSlot
  NoAnalysis = NoAnalysis
SPECIFICATION FairSpec
INVARIANTS
  CopiesBounded
  OversizedNeverScored
  RowAgreesWithJob
PROPERTY EnqueuedEnds
