SPECIFICATION Spec
CONSTANTS
  Unit = 4
  Layouts <- MCLayouts
  Devices <- MCDeviceSet
  Images <- MCImages
  Pictures = {red}
  Lengths = {1, 3}
  UnknownFrameCnt = 2
  BorderFrameCnt = 2
  MaxInconsistentCnt = 1
  UNKNOWN = unknown
  BLACK = black
  NoMap = NoMap
  NoImage = NoImage
  s1 = s1
  s2 = s2
  red = red
  pic1 = pic1
  pic2 = pic2
  Widths = {7, 9}
  Heights = {7, 8}
  Blurs = {0, 1}
  Decimations = {1, 2, 3}
  Cuts = {0, 1, 3}
  Frac = {0, 1, 2, 3, 4}
  Levels = {0, 100, 255}
  Percents = {0, 30, 100}
  NoCase = NoCase
  Nodes = {video0, video1}
  First = video0
  Captures = {video0}
  Buffers = 2
  SignalThreshold = 2
  AUTO = auto
  UNKNOWN_DEVICE = unknown_device
  NoNode = NoNode
  Configs <- MCConfigs
  Modes = {"2D", "3DSBS"}
  Screens = {6, 20}
  MinWidth = 6
  NONE = none
  GridSizes <- MCGrids
  MinSizes <- MCMins
  MaxStrokes = 2
  MaxImages = 3
INVARIANTS
  FrameRight
  GrabbersSound
  CanvasRight
PROPERTIES
  PixelsRight
  FramesRead
CHECK_DEADLOCK FALSE
