\* As MCApi.cfg: the postbacks of the payment providers.
CONSTANTS
  a1 = a1
  a2 = a2
  Slots = {s1, s2}
  Customers = {c1, c2}
  StartCalls = {99, 100}
  MaxServed = 1
  MaxIssued = 3
  MaxResets = 1
  Bought = {"developer", "growth"}
  MaxOrders = 2
  Emails = {"e1"}
  MaxRows = 3
  MaxDeliveries = 2
  MaxSends = 3
  Analyses = {a1, a2}
  OwnerOf <- MCOwnerOf
  NoAnalysis = NoAnalysis
  MaxTickets = 2
  Filters = {"", "DROP", "KEEP"}
  RowsOf <- MCRowsOf
  MaxEffects = 2
  Texts <- MCTexts
  AddressCells = {"x1", "x2", "x3", "x4"}
  NameCells = {"n1", "n2", "n3"}
  AddressOf <- MCAddressOf
  Chains = {"ethereum", "base"}
  MAX_ADDRESSES = 3
  MAX_ENS_PER_RESOLVE = 2
  MaxInputs = 3
  MaxPosts = 2
  Tables <- MCTables
  PageLimit = 3
  PageSizes = {1, 2, 5}
  Decisions = {"", "DROP", "KEEP"}
  Subjects <- MCSubjects
  OnEthereum <- MCOnEthereum
  Contents <- MCContents
  Spaces <- MCSpaces
  MaxStores = 2
  MaxReads = 2
  Spellings = {"Aa", "aa"}
  LowerCase <- MCLowerCase
  MaxLoads = 3
  MaxChanges = 2
  MaxKeys = 3
  MaxAsked = 2
SPECIFICATION Spec
SYMMETRY Alike
CHECK_DEADLOCK FALSE
INVARIANT PostbacksAdmitted
