SPECIFICATION SpecAll
CONSTANTS
  alert = alert  chat = chat  ann = ann  ben = ben  phone = phone  w1 = w1  w2 = w2
  None = None  Gone = Gone
  Alert = {alert}
  Chat = {chat}
  Identity = {ann, ben}
  Endpoint = {phone}
  Worker = {w1, w2}
  Recipient <- Recipients
  BATCH_SIZE = 1
  MAX_ATTEMPTS = 2
  MaxFaults = 2
  Perimeter = {"p1", "p2"}
  NoPerimeter = NoPerimeter
  MaxRuns = 4
  MaxReloads = 1
INVARIANTS DuplicatesAreFaults 
PROPERTY EveryDeliverySettles
