SPECIFICATION Spec
CONSTANTS
  Priorities = {7}
  Components = {"COLOR", "EFFECT", "OTHER"}
  Timeouts <- MCTimeouts
  NoFrame = 0
  Frames <- MCFrames
  Ids = {1}
  ClientFrame = 9
  MaxTime = 2
  MaxEvents = 2
INVARIANTS
  LedsFollow
PROPERTIES
  NoResurrection
