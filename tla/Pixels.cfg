CONSTANTS
  Circles <- MCCircles
  CircleProcs = 2
  CircleThreads = 3
  Word = 4096
  RootTop = 7
  RootBottom = 5
  Precision = 72
  Pictures <- MCPictures
  SobelGrid = 2
  TileSide = 3
  Views <- MCViews
  Shade = 2
  Junk <- MCJunk
  Num <- MCNum
  Plus <- MCPlus
  Minus <- MCMinus
  Times <- MCTimes
  Over <- MCOver
  Less <- MCLess
SPECIFICATION Spec
INVARIANTS CountIsRight PictureIsRight AsSequential
PROPERTY PixelsEnd
CHECK_DEADLOCK FALSE
