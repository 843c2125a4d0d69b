SPECIFICATION SpecAll
CONSTANTS
  Member = {ann, ben}
  Owner = owner
  None = None
  MAX_CIRCLE_MEMBERS = 2
  MaxRevision = 5
  MaxEpoch = 3
  MaxRequests = 1
  MaxPushes = 0
  MaxUnsent = 1
  Capacity = 2
  Peer = {"ann"}
  Self = "me"
  TrueOwner = "owner"
  Event = {"fire"}
  Near <- AlertPlaces
  FirstEpoch = 2
  LastEpoch = 3
  MaxNow = 3
  Age = 2
  MaxTasks = 2
  MaxSessions = 2
  MaxChanges = 1
  Plans <- PlansOfAMember
INVARIANTS
  
  KeyIsOwners
PROPERTIES
  
  NeverBackInTime
  StaleSharingEnds
CHECK_DEADLOCK FALSE
