\* Two slots on one analysis: a run that lost its lock races its successor, and
\* the contract with the client still holds.
CONSTANTS
  a1 = a1
  a2 = a2
  c1 = c1
  Analyses = {a1}
  Customers = {c1}
  CustomerOf <- MCCustomerOf
  MaxConcurrent <- MCOneAtATime
  RequestBodies <- MCGoodBody
  Slots = {s1, s2}
  Attempts = 2
  MaxStalledCount = 1
  MockMode = FALSE
  NoSlot = NoSlot
  NoAnalysis = NoAnalysis
SPECIFICATION Spec
INVARIANTS
  ResultsBeforeComplete
  EventsFollowResults
  NoDoubleProcessing
  IInv
PROPERTY ImplementsContract
