\* An address that two lists have on two chains.
CONSTANTS
  f1 = f1
  exch = exch
  c1 = c1
  c2 = c2
  Nobody = Nobody
  KnownExchanges = {exch}
  BehaviorMin = 3
  GraphMin = 3
  GraphMax = 3
  Primary = c1
  Jobs <- OneJob
  HistoriesOn <- MCHistoriesOn
  LgbScore <- MCScore
  ProbeScores = {0, 39, 40, 49, 50, 59, 60, 69, 70, 79, 80, 84, 85, 89, 90, 100}
  ProbeSizes = {0, 4, 5, 9, 10, 19, 20, 29, 30, 49, 50}
  Listings <- MCListings
  HoldoutSize = 1
  SybilSample = 2
  GenuineSample = 2
  MaxScripts = 4
  Missing = Missing
  Torn = Torn
  NoModel = NoModel
  Owners <- MCOwners
  OwnersPerPage = 2
  Active = {"a1", "a2", "a3"}
  Busy = {"a1", "a2"}
  Named = {"a1", "a3"}
  Limits = {1, 9}
  SaveEvery = 2
  Ballots <- MCBallots
  Governors <- MCGovernors
  Heads = {6, 9}
  BlockStep = 3
  ShortStep = 1
  Cast <- MCCast
  CastLater <- MCLater
  VotesPerPage = 2
  MaxPages = 3
  MinVotes = 2
  MinSpaces = 2
  Target = 2
  MaxRuns = 3
  NoCheckpoint = NoCheckpoint
  TornCheckpoint = TornCheckpoint
SPECIFICATION MCSpec
CHECK_DEADLOCK FALSE
INVARIANTS
  HoldoutUnseen
