SPECIFICATION SpecAll
CONSTANTS
  a = a  b = b  c = c  p1 = p1  p2 = p2  f1 = f1  f2 = f2  x = x
  NoFingerprint = NoFingerprint  None = None
  r1 = r1  r2 = r2  k1 = k1
  Signal = {a, b, c}
  Pubkeys = {p1, p2}
  Fingerprints = {f1, f2}
  Clusters = {x}
  Pubkey <- PubkeyOf
  Fingerprint <- FingerprintOf
  Cluster <- ClusterOf
  Confidence <- ConfidenceOf
  Variance <- VarianceOf
  Replica = {r1, r2}
  Keeper = {k1}
  MIN_CONTRIBUTORS = 2
  MIN_DISTINCT_FINGERPRINTS = 2
  CORROBORATE_THRESHOLD = 60
  CONFIRM_THRESHOLD = 80
  confirm_enabled = TRUE
  HALF_WEIGHT = 0
  CUTOFF = 1
  FETCH_WINDOW = 2
  EXPIRY_WINDOW = 3
  COORD_RETENTION = 3
  H3R9_RETENTION = 4
  EVENT_TTL = 1
  Slack = 1
  MaxFaults = 1
  Sounds <- SoundsHeard
  DETECTION_THRESHOLD = 2
  MaxOpens = 2
  MaxWindows = 2
  MaxHides = 2
INVARIANTS BackedByConfirmed CoarserFirst SentWasHeardOpen
PROPERTIES LadderOnly EverythingFades
