SPECIFICATION Spec
CONSTANTS
  Priorities = {7}
  Components = {"COLOR", "EFFECT", "OTHER"}
  Timeouts <- MCEndless
  NoFrame = 0
  Frames <- MCFrames
  Ids = {1, 2}
  ClientFrame = 9
  MaxTime = 0
  MaxEvents = 2
INVARIANTS
  OneEffectPerChannel
  SenderAlive
PROPERTIES
  FinishedClearsOwn
