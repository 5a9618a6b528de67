SPECIFICATION FairSpec
CONSTANTS
  Priorities = {7}
  Components = {"COLOR", "EFFECT", "OTHER"}
  Timeouts <- MCEndless
  NoFrame = 0
  Frames <- MCFrames
  Ids = {1}
  ClientFrame = 9
  MaxTime = 0
  MaxEvents = 1
PROPERTIES
  InterruptedGone
