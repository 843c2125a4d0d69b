SPECIFICATION SpecAll
CONSTANTS
  None = None  Corrupt = Corrupt
  a = a  s1 = s1  s2 = s2  s3 = s3  n1 = n1  n2 = n2  n3 = n3  n4 = n4  n5 = n5
  User = {a, s1, s2, s3, n1, n2, n3, n4, n5}
  Report = {r1}
  Author <- ByA
  Start <- Starts
  Roots = {}
  VouchBudget = 1
  RequireEstablished = TRUE
  GraceDays = 1
  HorizonDays = 2
  Floor = 20
  MaxDays = 4
  VouchPair <- Pairs
  Cap = 2
  MaxReports = 3
  MaxVersion = 2
  MaxPresses = 2
  MaxForms = 2
  Plans <- PlansOfAPage
  Place = {"p1", "p2"}
  Visits <- VisitsOfAMap
  Event = {"e1", "e2"}
  Areas = {{"e1", "e2"}, {"e2"}}
  NoBounds = NoBounds
  Rank <- MCRank
  Limit = 1
  rate_cap = 1
  Capacity = 1
  MaxWrites = 3
  MaxQueue = 2
  MaxMoves = 2
  MaxBreaks = 1
  Alert = {"e1", "e2"}
  NoAlert = NoAlert
  MaxEdits = 2
  MaxBatches = 1
  MaxClicks = 2
CONSTRAINT Slices
INVARIANTS
  TrustNeedsARoot
  DuplicateMeansLostAnswer
  SameView
  NothingMissed
PROPERTIES
  
  AnswerIsForQuery
  HydrationKeepsLive
CHECK_DEADLOCK FALSE
