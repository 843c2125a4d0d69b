SPECIFICATION Spec
CONSTANTS
  a = a  s1 = s1  s2 = s2  s3 = s3  n1 = n1  n2 = n2  n3 = n3  n4 = n4  n5 = n5
  User = {a, s1, s2, s3, n1, n2, n3, n4, n5}
  Report = {r1}
  Author <- ByA
  Start <- Starts
  Roots = {}
  VouchBudget = 1
  RequireEstablished = TRUE
  GraceDays = 1
  HorizonDays = 2
  Floor = 20
  MaxDays = 4
  VouchPair <- Pairs
CONSTRAINT Slices
SYMMETRY Peers
INVARIANT RecentlyVerifiedIsUndecayed
CHECK_DEADLOCK FALSE
