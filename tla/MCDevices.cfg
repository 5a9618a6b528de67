SPECIFICATION Spec
CONSTANTS
  FailDelay = 1
  WriteDelay = 2
  ReopenDelay = 2
  ConnectDelay = 1
  PreOpenDelay = 1
  FrameSize = 2
  MaxOutgoing = 4
  Counts = {1, 2, 5}
  Colors <- MCColors
  DmxMax = 8
  DmxLeds = 2
  MaxPacket = 4
  MaxSettable = 2
  FrameSpecs <- MCSpecs
  Fixture = 4
  SeqSize = 4
  SubtractMinimum = TRUE
  GpioMap <- MCGpioMap
  OrbIds = {1, 2}
  SmoothingDiff = 70
  Packs = {k1, k2}
  Serials = {0, 1, 2}
  HidDelay = TRUE
  p1 = p1
  p2 = p2
  LightIds = {l1}
  KEEP = keep
  Points = {p1, p2, dark}
  DARK = dark
  Gamut <- MCGamut
  UserStates <- MCUser
  MaxRequests = 3
CONSTRAINT
  Followed
INVARIANTS
  
  LampsRight
  PacksReleased
PROPERTIES
  DevicesHeal
CHECK_DEADLOCK FALSE
