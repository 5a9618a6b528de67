SPECIFICATION MCSpec
CONSTANTS
  Priorities <- MCPriorities
  Components <- MCComponents
  Timeouts <- MCTimeouts
  NoFrame = 0
  Frames = {0, 1, 2, 3}
  V4lFrame = 1
  SystemFrame = 2
  ClientFrame = 3
  ProtoConns = {c1}
  BobConns = {b1, b2}
  ClientPriorities <- MCClientPriorities
  BobPriorities = {1, 2}
INVARIANTS
  RegisterTruthful
  CapturesTidy
  NoGhosts
PROPERTY
  EnableRestores
