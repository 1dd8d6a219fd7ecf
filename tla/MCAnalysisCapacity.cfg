\* Two requests of one customer, at most one in flight: no retry, no redelivery.
CONSTANTS
  a1 = a1
  a2 = a2
  c1 = c1
  Analyses = {a1, a2}
  Customers = {c1}
  CustomerOf <- MCCustomerOf
  MaxConcurrent <- MCOneAtATime
  RequestBodies <- MCGoodBody
  Slots = {s1}
  Attempts = 1
  MaxStalledCount = 0
  MockMode = FALSE
  NoSlot = NoSlot
  NoAnalysis = NoAnalysis
SPECIFICATION FairSpec
PROPERTY CapacityReturns
