SPECIFICATION SpecAll
CONSTANTS
  dm = dm
  c1 = c1
  general = general
  w1 = w1
  w3 = w3
  None = None
  Peer = Peer
  Direct = {dm}
  CircleRoom = {c1}
  firstPeer <- MCFirstPeer
  Channel = {general}
  Wrap = {w1, w3}
  room <- MCRoom
  Poison = {2}
  SelfCopy = {w3}
  Event = {1, 2, 3}
  channelOf <- MCChannelOf
  created_at <- MCCreatedAt
  Own = {3}
  Echo = {e1}
  Limit = 2
  Overlap = 1
  Configs = {{"inbox"}, {"community"}}
  MaxFaults = 1
  MaxPeers = 2
  MaxTasks = 2
  MaxInputs = 3
  User = {"a", "b", "c"}
  Content = {"hi"}
  BadText = {"long"}
  MaxParticipants = 2
  OtherClients <- Foreign
  MaxSent = 1
  NoKey = NoKey
  Call = {"c1", "c2"}
  RemoteKey = {r1, r2}
  Absent = Absent
  MaxLocal = 2
  MaxCalls = 3
  Device = {"local", "remote"}
  Other = {"bob"}
  Label = {"l1"}
  NoName = NoName
  TTL = 1
  MaxNow = 2
  MaxRequests = 3
  MaxSwitches = 1
  MaxEdits = 1
  MaxNipFaults = 1
INVARIANTS  ChannelCaughtUp RoomsAgree  ShownForActiveKey
PROPERTIES UnwrappedIsShown NoLateSignature ConflictIsCurrent
CHECK_DEADLOCK FALSE
