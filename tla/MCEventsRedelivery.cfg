SPECIFICATION Spec
CONSTANTS
  bbc = bbc  kbc = kbc  rss = rss  radio = radio  NoSource = NoSource
  Entries = 2
  Valid = {1, 2}
  Source <- Sources
  Channel <- Channels
  Reader = {g1}
  Worker = {w1}
  CONFIRM_MIN_SOURCES = 2
  CONFIRM_MIN_CHANNELS = 2
  CORROBORATE_MIN_SOURCES = 2
  MaxEvents = 2
  MaxFaults = 1
PROPERTY DeliveredIsStaged
