SPECIFICATION SpecEstablished
CONSTANTS
  Member = {ann}
  Owner = owner
  MAX_CIRCLE_MEMBERS = 2
  MaxRevision = 4
  MaxEpoch = 3
  MaxRequests = 1
  MaxPushes = 1
  MaxUnsent = 1
  Capacity = 2
INVARIANT RemovedSocketIsClosed
CHECK_DEADLOCK FALSE
