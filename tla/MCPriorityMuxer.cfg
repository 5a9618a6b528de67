SPECIFICATION Spec
CONSTANTS
  Priorities <- MCPriorities
  Components = {"COLOR"}
  Timeouts <- MCTimeouts
  NoFrame = none
  Frames = {none}
  MaxTime = 2
INVARIANTS
  TypeOK
  AutoShowsBest
  SelectionPresent
  ListenersKnow
PROPERTIES
  ManualMode
  LostForCause
  ImplementsSelection
