SPECIFICATION FairSpec
CONSTANTS
  Priorities <- MCPriorities
  Components = {"OTHER"}
  Timeouts <- MCFewTimeouts
  NoFrame = none
  Frames = {none}
  MaxTime = 2
PROPERTIES
  SelectionSettles
