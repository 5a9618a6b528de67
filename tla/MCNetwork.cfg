SPECIFICATION Spec
CONSTANTS
  Sessions = {s1, s2}
  RequestIds = {i1, i2}
  RandomIds = {r1}
  RequestTime = 2
  AuthInterval = 1
  MaxSubscriptions = 1
  LogBufferSize = 2
  MaxMessages = 6
  Plans <- MCPlans
  WsPlans <- MCWsPlans
  StreamPlans <- MCStreamPlans
  Ports = {1, 2, 3, 4}
  Addresses = {a1, a2}
  NoAddress = NoAddress
  NoLocation = NoLocation
  MaxSaves = 3
  Instances = {1, 2}
  MaxBrowses = 5
  MaxRepeats = 2
  AuthRequired = TRUE
  MaxEvents = 1
INVARIANTS
  RequestsKept
  ClientsInformed
  HandledOnce
  FoundWhereServed
  ExitTells
PROPERTIES
  Served
CHECK_DEADLOCK FALSE
