CONSTANTS
  Pictures <- MCPictures
  Settings <- MCSettings
  Customs <- MCCustoms
  Latches <- MCEither
SPECIFICATION FairSpec
INVARIANTS
  SmoothingSound
PROPERTIES
  Shown
