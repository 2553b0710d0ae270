SPECIFICATION Spec
CONSTANTS
  HexTile = 4
  ZrleTile = 8
  Full = 3
  Frames <- MCFrames
  Rects <- MCRects
  Patterns <- MCPatterns
  Shapes <- MCShapes
  Carries = FALSE
  MaxRects = 3
INVARIANTS
  TypeOK
  PictureDrawn
  CursorDrawn
  BlockDrawn
  InBounds
PROPERTIES
  FrameSpec
CHECK_DEADLOCK FALSE
