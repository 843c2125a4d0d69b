SPECIFICATION SpecAll
CONSTANTS
  Member = {ann, ben}
  Owner = owner
  None = None
  Tab = {t1, t2}
  MAX_CIRCLE_MEMBERS = 2
  MaxRevision = 3
  MaxEpoch = 3
  MaxRequests = 2
  MaxPushes = 1
  MaxUnsent = 1
  Attempt = {"a1", "a2"}
  LastEpoch = 3
  MaxCircleKeys = 4
  LastRevision = 1
  MaxAbandoned = 1
  Fix <- Fixes
  Circles = {"c1"}
  Epochs = {1, 2}
  CellSizes = {2}
  Stretch <- Stretches
  LatMax = 4
  LngMax = 8
  MaxAccuracy = 5
  MaxAge = 3
  Skew = 1
  Drifts <- DriftsOfReaders
  MaxClock = 4
  MaxEnvelopes = 2
  NoGrid = NoGrid
  Entry <- Entries
  Legacy <- FirstEntry
  MaxKeys = 3
  MaxCalls = 3
  MaxFaults = 1
  ReadsFail = FALSE
SYMMETRY MembersAndTabs
INVARIANTS
  NoOutsiderHoldsLiveKey
  OneKeyPerEpoch
  ApproximateTellsACell
  FreshIsReadable
  NoCircleKeyLost
  BootedOnStoredKey
PROPERTIES
  CommittedKeyIsFinal
  ImplementsVaultSpec
CHECK_DEADLOCK FALSE
