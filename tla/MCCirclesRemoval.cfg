SPECIFICATION Spec
CONSTANTS
  Member = {ann, ben}
  Owner = owner
  MAX_CIRCLE_MEMBERS = 2
  MaxRevision = 4
  MaxEpoch = 3
  MaxRequests = 2
  MaxPushes = 2
  MaxUnsent = 1
SYMMETRY MemberSymmetry
INVARIANT RemovalDeletesEnvelope
CHECK_DEADLOCK FALSE
